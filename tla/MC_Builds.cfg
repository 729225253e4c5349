CONSTANTS
  Procs = {p1, p2}
  Inodes = {i1, i2, i3, i4}
  NoInode = NoInode  NoProc = NoProc
  UnlinkFile = TRUE  MaxCrashes = 1
  a = a  b = b  c = c  NoJob = none
  Jobs = {a, b, c}
  EmergeOf <- EmergeOfJob
  CatOf <- CatOfDir
  Rank <- RankOfJob
  MergeLists <- Lists
  LocksMayFail = TRUE
  Settings <- Phases
SPECIFICATION PartsSpec
CHECK_DEADLOCK FALSE
INVARIANTS OwnFileRemoved HeldIsNamed LocksSound
           BuildDirSafe LockReleased EbuildVerdict
PROPERTIES BlockedIsServed BuildsEnd EveryPhaseEnds
