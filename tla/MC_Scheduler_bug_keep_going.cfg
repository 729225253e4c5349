CONSTANTS
  a = a  b = b  c = c  d = d  NoPkg = NoPkg
  Pkgs = {a, b, c}
  MergeList <- Blocker
  Uninstalls = {c}
  Deps <- None
  RuntimeDeps <- None
  SystemPkgs = {}
  Replaces <- None
  MaxJobs = 2
  NoDeps = FALSE
  MergeWait = FALSE
  ParallelInstall = FALSE
  EbuildLocks = TRUE
  KeepGoing = TRUE
  Jobserver = FALSE
  HasImplicit = FALSE
  Tokens = 0
  JobserverMayFail = FALSE
  PostinstMayFail = FALSE
  MayTerminate = FALSE
  MayFlush = FALSE
SPECIFICATION Spec
INVARIANTS KeepGoingSurvives
