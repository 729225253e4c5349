CONSTANTS
  Procs = {p1, p2}
  Inodes = {i1, i2, i3}
  NoInode = NoInode
  UnlinkFile = TRUE
  MaxCrashes = 2
  Fetchers = {"emerge", "ahead"}
  NoFetcher = "nobody"
  Kind <- KindOf
  Distfiles = {"f"}
  Digested = {"f"}
  Locations = {"u", "t", "pub"}
  SrcUri <- Uris
  Local <- NoMirrors
  Public <- OneMirror
  Restricts = {{}, {"primaryuri"}}
  OnDisk = {"none", "part", "wrong"}
  Served = {"none", "small", "wrong", "good"}
  OnRo = {"none", "good"}
  OnFsMirror = {"none", "wrong"}
  MaxTries = 3
  MaxRuns = 2
  MaxFutures = 3
  MaxJobs = 2
SPECIFICATION PartsSpec
CHECK_DEADLOCK FALSE
INVARIANTS MutualExclusion OwnFileRemoved
           FetchSafe Exhausted GatherWhole
PROPERTIES AloneAcquires NothingLost FetchEnds GatherEnds
