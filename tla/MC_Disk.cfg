CONSTANTS
  Tasks = {t1, t2, t3, t4, t5}
  Limit = 2
  Pkgs <- DbPkgs
  NoPkg = "none"
  SlotOf <- DbSlots
  Blocks <- DbBlocks
  Older <- DbOlder
  Image <- DbImage
  Protected = {"etc"}
  Libs = {"lib1", "lib2"}
  Needs <- DbNeeds
  Edits = {1}
  FeatureSets <- DbFeatures
  Installed = {"foo1", "bar1"}
  MaxMerges = 3
  MaxEdits <- DbEvents
  MaxKills <- DbEvents
  Spare = 1
  MaxVersions = 2
  MaxSyncs = 3
  MaxCrashes = 2
  Users = {"u1", "u2"}
  MaxId = 4
  Settings <- PkgdirSettings
  MaxWork = 3
  MaxDeaths = 1
  Packages <- TrackPkgs
  CpKeys = {"a", "b"}
  CpKey <- TrackKey
  SlotAtom <- TrackSlot
  Cpv <- TrackCpv
  Queries <- TrackAsked
  QueryKey <- TrackName
  Matching <- TrackAtoms
  Sonames = {"so"}
  Provides <- TrackSoname
  Requests <- ResolverRequests
  Priorities <- OrderPriorities
  NewPkgs = {"a", "b", "c"}
  OldPkgs = {"x", "y"}
  PkgSlot <- OrderSlots
  Problems <- OrderProblems
  Neglected <- OrderNeglected
  World = {{"y", "c"}}
  Essential = {"y"}
  Accept = FALSE
SPECIFICATION PartsSpec
CHECK_DEADLOCK FALSE
INVARIANTS Served DatabaseAgrees SnapshotsKept IndexTrue InstancesKept AnswersTrue OrderRespected Consistent
PROPERTIES FilesKept NeverBack OrderProgress
