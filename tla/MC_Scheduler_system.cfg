CONSTANTS
  a = a  b = b  c = c  d = d  NoPkg = NoPkg
  Pkgs = {a, b, c, d}
  MergeList <- Cycle
  Uninstalls = {}
  Deps <- CycleDeps
  RuntimeDeps <- CycleRuntime
  SystemPkgs = {a, c}
  Replaces <- None
  MaxJobs = 2
  NoDeps = FALSE
  MergeWait = FALSE
  ParallelInstall = TRUE
  EbuildLocks = FALSE
  KeepGoing = FALSE
  Jobserver = FALSE
  HasImplicit = FALSE
  Tokens = 0
  JobserverMayFail = FALSE
  PostinstMayFail = FALSE
  MayTerminate = FALSE
  MayFlush = TRUE
SPECIFICATION Spec
INVARIANTS MergesApart
PROPERTIES FragileSystemBuildsAlone
