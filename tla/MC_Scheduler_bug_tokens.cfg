CONSTANTS
  a = a  b = b  c = c  d = d  NoPkg = NoPkg
  Pkgs = {a, b}
  MergeList <- Two
  Uninstalls = {}
  Deps <- None
  RuntimeDeps <- None
  SystemPkgs = {}
  Replaces <- None
  MaxJobs = 2
  NoDeps = FALSE
  MergeWait = FALSE
  ParallelInstall = FALSE
  EbuildLocks = TRUE
  KeepGoing = FALSE
  Jobserver = TRUE
  HasImplicit = FALSE
  Tokens = 1
  JobserverMayFail = FALSE
  PostinstMayFail = FALSE
  MayTerminate = TRUE
  MayFlush = FALSE
SPECIFICATION FairSpec
PROPERTIES TerminationEnds
