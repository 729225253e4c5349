CONSTANTS
  Procs = {p1, p2}
  Inodes = {i1, i2, i3}
  NoInode = NoInode  NoProc = NoProc
  UnlinkFile = FALSE  MaxCrashes = 0
SPECIFICATION Spec
SYMMETRY Symmetry
INVARIANTS OneHolder
