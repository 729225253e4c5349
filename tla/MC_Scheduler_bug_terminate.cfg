CONSTANTS
  a = a  b = b  c = c  d = d  NoPkg = NoPkg
  Pkgs = {a, b, c}
  MergeList <- Independent
  Uninstalls = {}
  Deps <- None
  RuntimeDeps <- None
  SystemPkgs = {a}
  Replaces <- None
  MaxJobs = 2
  NoDeps = FALSE
  MergeWait = FALSE
  ParallelInstall = FALSE
  EbuildLocks = TRUE
  KeepGoing = FALSE
  Jobserver = FALSE
  HasImplicit = FALSE
  Tokens = 0
  JobserverMayFail = FALSE
  PostinstMayFail = FALSE
  MayTerminate = TRUE
  MayFlush = FALSE
SPECIFICATION Spec
PROPERTIES NoMergeAfterTermination
