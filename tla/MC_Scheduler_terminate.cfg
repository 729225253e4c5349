CONSTANTS
  a = a  b = b  c = c  d = d  NoPkg = NoPkg
  Pkgs = {a, b, c, d}
  MergeList <- Mixed
  Uninstalls = {d}
  Deps <- MixedDeps
  RuntimeDeps <- None
  SystemPkgs = {}
  Replaces <- MixedReplaces
  MaxJobs = 2
  NoDeps = FALSE
  MergeWait = FALSE
  ParallelInstall = FALSE
  EbuildLocks = TRUE
  KeepGoing = TRUE
  Jobserver = TRUE
  HasImplicit = TRUE
  Tokens = 1
  JobserverMayFail = TRUE
  PostinstMayFail = FALSE
  MayTerminate = TRUE
  MayFlush = FALSE
SPECIFICATION Spec
INVARIANTS Accounting ExitIsQuiet DepsMergedFirst ResumeListExact
PROPERTIES QueuesImplement NoMergeAfterTermination
