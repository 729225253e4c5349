------------------------ MODULE HardlinkLockProofs ------------------------
(***************************************************************************)
(* The hard link lock is a lock, for any number of processes and crashes:  *)
(* IInv is inductive, and implies MutualExclusion and OwnFileRemoved.      *)
(***************************************************************************)
EXTENDS HardlinkLock, FiniteSetTheorems, TLAPS

\* st_nlink = 2, seen through lockfilename by a process whose link is that
\* inode, means that no other process has a link to it.
LEMMA TwoNames ==
  ASSUME TypeOK, NEW p \in Procs, NEW q \in Procs,
         path # NoInode, Nlink(path) = 2, hard[p] = path, hard[q] = path
  PROVE  p = q
<1> DEFINE S == {r \in Procs : hard[r] = path}
<1>1. IsFiniteSet(S)
  BY FS_Subset, HardlinkAssumption
<1>2. Cardinality(S) = 1
  <2>1. Cardinality(S) \in Nat
    BY <1>1, FS_CardinalityType
  <2>2. 1 + Cardinality(S) = 2
    BY DEF Nlink
  <2> QED BY <2>1, <2>2
<1>3. PICK x : S = {x}
  BY <1>1, <1>2, FS_Singleton
<1>4. p \in S /\ q \in S
  OBVIOUS
<1> QED BY <1>3, <1>4

LEMMA InitIInv == Init => IInv
BY HardlinkAssumption
   DEF Init, IInv, TypeOK, Pcs, ClaimIsPath, ClaimIsUnique, Claim, Owns

\* Types are preserved by every step.
LEMMA NextTypeOK == TypeOK /\ [Next]_vars => TypeOK'
<1> SUFFICES ASSUME TypeOK, [Next]_vars PROVE TypeOK'
  OBVIOUS
<1> USE HardlinkAssumption DEF TypeOK, Pcs, Goto
<1>1. CASE UNCHANGED vars
  BY <1>1 DEF vars
<1>2. ASSUME NEW p \in Procs, Step(p) PROVE TypeOK'
  <2>1. CASE UnlinkMine(p)  BY <2>1 DEF UnlinkMine
  <2>2. CASE Open(p)        BY <2>2 DEF Open, CreatePath, FreeInodes
  <2>3. CASE Fstat(p)       BY <2>3 DEF Fstat
  <2>4. CASE Link(p)        BY <2>4 DEF Link
  <2>5. CASE StatLock(p)    BY <2>5 DEF StatLock, IsMineLockStat
  <2>6. CASE StatLink(p)    BY <2>6 DEF StatLink, IsMineLinkStat
  <2>7. CASE UnlinkHard(p)  BY <2>7 DEF UnlinkHard
  <2>8. CASE Wait(p)        BY <2>8 DEF Wait
  <2>9. CASE Unlock(p)      BY <2>9 DEF Unlock, IsMineLockStat
  <2>10. CASE UnlockStatLink(p)  BY <2>10 DEF UnlockStatLink, IsMineLinkStat
  <2>11. CASE UnlinkPath(p) BY <2>11 DEF UnlinkPath
  <2>12. CASE Unhard(p)     BY <2>12 DEF Unhard
  <2> QED BY <1>2, <2>1, <2>2, <2>3, <2>4, <2>5, <2>6, <2>7, <2>8, <2>9,
             <2>10, <2>11, <2>12 DEF Step
<1>3. ASSUME NEW p \in Procs, Crash(p) PROVE TypeOK'
  BY <1>3 DEF Crash
<1>4. ASSUME NEW p \in Procs, NEW nb \in BOOLEAN, Start(p, nb) PROVE TypeOK'
  BY <1>4 DEF Start, CreatePath, FreeInodes
<1> QED BY <1>1, <1>2, <1>3, <1>4 DEF Next

\* The claims on the lock: no step makes a second claim, and none takes the
\* lock file away from a process that claims it.
LEMMA NextClaims ==
  ASSUME IInv, TypeOK', [Next]_vars
  PROVE  ClaimIsPath' /\ ClaimIsUnique'
<1> USE DEF IInv, TypeOK, Goto, ClaimIsPath, ClaimIsUnique, Claim, Owns
<1>1. CASE UNCHANGED vars
  BY <1>1 DEF vars
<1>2. ASSUME NEW p \in Procs, Step(p) PROVE ClaimIsPath' /\ ClaimIsUnique'
  <2>1. CASE UnlinkMine(p)  BY <2>1 DEF UnlinkMine
  <2>2. CASE Open(p)        BY <2>2 DEF Open, CreatePath
  <2>3. CASE Fstat(p)       BY <2>3 DEF Fstat
  <2>4. CASE Link(p)        BY <2>4 DEF Link
  <2>5. CASE StatLock(p)
    <3>1. CASE path # NoInode /\ Nlink(path) = 2 /\ hard[p] = path
      <4>1. \A q \in Procs : hard[q] = path => q = p
        BY <3>1, TwoNames
      <4>2. \A q \in Procs : Claim(q)' => q = p
        BY <2>5, <3>1, <4>1 DEF StatLock, IsMineLockStat
      <4>3. hard' = hard /\ path' = path
        BY <2>5 DEF StatLock, IsMineLockStat
      <4> QED BY <3>1, <4>2, <4>3
    <3>2. CASE ~(path # NoInode /\ Nlink(path) = 2 /\ hard[p] = path)
      BY <2>5, <3>2 DEF StatLock, IsMineLockStat
    <3> QED BY <3>1, <3>2
  <2>6. CASE StatLink(p)    BY <2>6 DEF StatLink, IsMineLinkStat
  <2>7. CASE UnlinkHard(p)  BY <2>7 DEF UnlinkHard
  <2>8. CASE Wait(p)        BY <2>8 DEF Wait
  <2>9. CASE Unlock(p)      BY <2>9 DEF Unlock, IsMineLockStat
  <2>10. CASE UnlockStatLink(p)  BY <2>10 DEF UnlockStatLink, IsMineLinkStat
  <2>11. CASE UnlinkPath(p) BY <2>11 DEF UnlinkPath
  <2>12. CASE Unhard(p)     BY <2>12 DEF Unhard
  <2> QED BY <1>2, <2>1, <2>2, <2>3, <2>4, <2>5, <2>6, <2>7, <2>8, <2>9,
             <2>10, <2>11, <2>12 DEF Step
<1>3. ASSUME NEW p \in Procs, Crash(p) PROVE ClaimIsPath' /\ ClaimIsUnique'
  BY <1>3 DEF Crash
<1>4. ASSUME NEW p \in Procs, NEW nb \in BOOLEAN, Start(p, nb)
      PROVE  ClaimIsPath' /\ ClaimIsUnique'
  BY <1>4 DEF Start, CreatePath
<1> QED BY <1>1, <1>2, <1>3, <1>4 DEF Next

\* IInv holds in every state of every behaviour of hardlink_lockfile and
\* unhardlink_lockfile.
THEOREM Invariance == Spec => []IInv
<1>1. IInv /\ [Next]_vars => IInv'
  <2> SUFFICES ASSUME IInv, [Next]_vars PROVE IInv'
    OBVIOUS
  <2>1. TypeOK'
    BY NextTypeOK DEF IInv
  <2> QED BY <2>1, NextClaims DEF IInv
<1> QED BY <1>1, InitIInv, PTL DEF Spec

\* Types: the state of the hard link lock stays well formed.
THEOREM TypeCorrect == Spec => []TypeOK
<1>1. IInv => TypeOK
  BY DEF IInv
<1> QED BY <1>1, Invariance, PTL

\* hardlink_lockfile gives the lock to one process at a time, for any number
\* of processes, inodes and crashes.
THEOREM Exclusion == Spec => []MutualExclusion
<1>1. IInv => MutualExclusion
  BY DEF IInv, ClaimIsUnique, Claim, MutualExclusion
<1> QED BY <1>1, Invariance, PTL

\* unhardlink_lockfile only ever removes its caller's own lock file.
THEOREM RemovesOwnFile == Spec => []OwnFileRemoved
<1>1. IInv => OwnFileRemoved
  BY DEF IInv, ClaimIsPath, Claim, Owns, OwnFileRemoved
<1> QED BY <1>1, Invariance, PTL
===========================================================================
