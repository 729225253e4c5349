--------------------------- MODULE MC_FcntlLock ---------------------------
(* A few processes contend for one lock file.                              *)
EXTENDS FcntlLock, TLC

Symmetry == Permutations(Procs) \cup Permutations(Inodes)
============================================================================
