CONSTANTS
  a = a  b = b  c = c  d = d  NoPkg = NoPkg
  Pkgs = {a, b}
  MergeList <- Two
  Uninstalls = {}
  Deps <- None
  RuntimeDeps <- None
  SystemPkgs = {b}
  Replaces <- None
  MaxJobs = 2
  NoDeps = FALSE
  MergeWait = FALSE
  ParallelInstall = FALSE
  EbuildLocks = TRUE
  KeepGoing = TRUE
  Jobserver = TRUE
  HasImplicit = TRUE
  Tokens = 1
  JobserverMayFail = FALSE
  PostinstMayFail = TRUE
  MayTerminate = TRUE
  MayFlush = FALSE
SPECIFICATION FairSpec
INVARIANTS SuccessMeansMerged
PROPERTIES Returns
