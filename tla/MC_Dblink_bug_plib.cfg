CONSTANTS
  Pkgs <- DbPkgs
  NoPkg = "none"
  SlotOf <- DbSlots
  Blocks <- DbBlocks
  Older <- DbOlder
  Image <- TakingImage
  Protected = {"etc"}
  Libs = {"lib1", "lib2"}
  Needs <- DbNeeds
  Edits = {1}
  FeatureSets <- JustSerial
  Installed = {"foo1", "bar1"}
  MaxMerges = 3
  MaxEdits <- NoEvents
  MaxKills <- NoEvents
SPECIFICATION DblinkSpec
INVARIANT TakenOver
CHECK_DEADLOCK FALSE
