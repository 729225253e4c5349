-------------------------- MODULE FcntlLockProofs --------------------------
(***************************************************************************)
(* What the kernel's lock guarantees on every path through lockfile and    *)
(* unlockfile, for any number of processes, inodes and crashes, and with   *)
(* or without the removal of the lock file.                                *)
(***************************************************************************)
EXTENDS FcntlLock, FiniteSetTheorems, TLAPS

LEMMA InitIInv == Init => IInv
BY FcntlAssumption
   DEF Init, IInv, TypeOK, Pcs, FdIsOpen, LocksAreOpen, LockedOwn, LockedPcs

\* Types are preserved by every step.
LEMMA NextTypeOK == IInv /\ [Next]_vars => TypeOK'
<1> SUFFICES ASSUME IInv, [Next]_vars PROVE TypeOK'
  OBVIOUS
<1> USE FcntlAssumption DEF IInv, TypeOK, FdIsOpen, Pcs, Goto, names
<1>1. CASE UNCHANGED vars
  BY <1>1 DEF vars
<1>2. ASSUME NEW p \in Procs, Step(p) PROVE TypeOK'
  <2>1. CASE Open(p)       BY <2>1 DEF Open, FreeInodes
  <2>2. CASE Chown(p)      BY <2>2 DEF Chown, Close, Dropped
  <2>3. CASE TryLock(p)    BY <2>3 DEF TryLock, Granted, AfterLock, Close, Dropped
  <2>4. CASE Lock(p)       BY <2>4 DEF Lock, Granted, AfterLock
  <2>5. CASE DropTemp(p)   BY <2>5 DEF DropTemp
  <2>6. CASE LinkTemp(p)   BY <2>6 DEF LinkTemp
  <2>7. CASE LinkTest(p)   BY <2>7 DEF LinkTest
  <2>8. CASE UnlinkTest(p) BY <2>8 DEF UnlinkTest
  <2>9. CASE UnlinkTemp(p) BY <2>9 DEF UnlinkTemp
  <2>10. CASE Removed(p)   BY <2>10 DEF Removed, Close, Dropped
  <2>11. CASE Unlock(p)    BY <2>11 DEF Unlock
  <2>12. CASE LockUn(p)    BY <2>12 DEF LockUn, Dropped
  <2>13. CASE LockAgain(p) BY <2>13 DEF LockAgain, Granted
  <2>14. CASE CountLinks(p) BY <2>14 DEF CountLinks
  <2>15. CASE UnlinkPath(p) BY <2>15 DEF UnlinkPath
  <2>16. CASE CloseLock(p) BY <2>16 DEF CloseLock, Close, Dropped
  <2> QED BY <1>2, <2>1, <2>2, <2>3, <2>4, <2>5, <2>6, <2>7, <2>8, <2>9,
             <2>10, <2>11, <2>12, <2>13, <2>14, <2>15, <2>16 DEF Step
<1>3. ASSUME NEW p \in Procs, Crash(p) PROVE TypeOK'
  BY <1>3 DEF Crash, Close, Dropped
<1>4. ASSUME NEW p \in Procs, Relock(p) PROVE TypeOK'
  BY <1>4 DEF Relock
<1>5. ASSUME NEW p \in Procs, NEW nb \in BOOLEAN, Start(p, nb) PROVE TypeOK'
  BY <1>5 DEF Start
<1> QED BY <1>1, <1>2, <1>3, <1>4, <1>5 DEF Next

\* Descriptors and the kernel's locks go together.
Locking == FdIsOpen /\ LocksAreOpen /\ LockedOwn

LEMMA NextLocking ==
  ASSUME IInv, TypeOK', [Next]_vars
  PROVE  Locking'
<1> USE FcntlAssumption
    DEF IInv, TypeOK, Locking, FdIsOpen, LocksAreOpen, LockedOwn, LockedPcs, Goto,
        names
<1>1. CASE UNCHANGED vars
  BY <1>1 DEF vars
<1>2. ASSUME NEW p \in Procs, Step(p) PROVE Locking'
  <2>1. CASE Open(p)       BY <2>1 DEF Open, FreeInodes
  <2>2. CASE Chown(p)      BY <2>2 DEF Chown, Close, Dropped
  <2>3. CASE TryLock(p)    BY <2>3 DEF TryLock, Granted, AfterLock, Close, Dropped
  <2>4. CASE Lock(p)       BY <2>4 DEF Lock, Granted, AfterLock
  <2>5. CASE DropTemp(p)   BY <2>5 DEF DropTemp
  <2>6. CASE LinkTemp(p)   BY <2>6 DEF LinkTemp
  <2>7. CASE LinkTest(p)   BY <2>7 DEF LinkTest
  <2>8. CASE UnlinkTest(p) BY <2>8 DEF UnlinkTest
  <2>9. CASE UnlinkTemp(p) BY <2>9 DEF UnlinkTemp
  <2>10. CASE Removed(p)   BY <2>10 DEF Removed, Close, Dropped
  <2>11. CASE Unlock(p)    BY <2>11 DEF Unlock
  <2>12. CASE LockUn(p)    BY <2>12 DEF LockUn, Dropped
  <2>13. CASE LockAgain(p) BY <2>13 DEF LockAgain, Granted
  <2>14. CASE CountLinks(p) BY <2>14 DEF CountLinks
  <2>15. CASE UnlinkPath(p) BY <2>15 DEF UnlinkPath
  <2>16. CASE CloseLock(p) BY <2>16 DEF CloseLock, Close, Dropped
  <2> QED BY <1>2, <2>1, <2>2, <2>3, <2>4, <2>5, <2>6, <2>7, <2>8, <2>9,
             <2>10, <2>11, <2>12, <2>13, <2>14, <2>15, <2>16 DEF Step
<1>3. ASSUME NEW p \in Procs, Crash(p) PROVE Locking'
  BY <1>3 DEF Crash, Close, Dropped
<1>4. ASSUME NEW p \in Procs, Relock(p) PROVE Locking'
  BY <1>4 DEF Relock
<1>5. ASSUME NEW p \in Procs, NEW nb \in BOOLEAN, Start(p, nb) PROVE Locking'
  BY <1>5 DEF Start
<1> QED BY <1>1, <1>2, <1>3, <1>4, <1>5 DEF Next

\* IInv holds in every state of every behaviour of lockfile and unlockfile.
THEOREM Invariance == Spec => []IInv
<1>1. IInv /\ [Next]_vars => IInv'
  <2> SUFFICES ASSUME IInv, [Next]_vars PROVE IInv'
    OBVIOUS
  <2>1. TypeOK'
    BY NextTypeOK
  <2> QED BY <2>1, NextLocking DEF IInv, Locking
<1> QED BY <1>1, InitIInv, PTL DEF Spec

\* lockfile and unlockfile never leave a lock behind on a file that they no longer
\* work on, and a lock that lockfile has returned is backed by the kernel's lock until
\* unlockfile, unless the process itself asks for it again.
THEOREM NoLockIsLost == Spec => []LocksSound
<1>1. IInv => LocksAreOpen
  BY DEF IInv
<1>2. IInv => HeldIsLocked
  BY DEF IInv, LockedOwn, LockedPcs, HeldIsLocked
<1> QED BY <1>1, <1>2, Invariance, PTL DEF LocksSound

-----------------------------------------------------------------------------
(* Two processes                                                           *)

\* Where a process still thinks that the lock file is the one that it has locked.
After == {"held", "unlock", "relock", "nlink"}

\* Only a holder may have asked twice, and from the look at the number of links on
\* a process has the lock again.
TwiceInside == \A p \in twice : pc[p] \in After \cup {"unlinkpath", "close"}
LockedAgain == \A p \in Procs : pc[p] \in {"nlink", "unlinkpath"} => owner[fd[p]] = p
\* The temporary link is gone when lockfile returns.
TempDropped ==
  \A p \in Procs : pc[p] \in After \cup {"unlinkpath", "close"} => temp[p] = NoInode
\* The name is that of the file that has been compared, locked or counted.
TempIsPath ==
  \A p \in Procs :
    /\ pc[p] = "unlinktemp" /\ temp[p] = fd[p] => path = fd[p]
    /\ pc[p] \in {"linktest", "unlinktest"} => temp[p] # fd[p]
CountedIsPath == \A p \in Procs : pc[p] = "unlinkpath" => path = fd[p]
\* A file that has lost its name has no link either.
GoneHasNoLink ==
  \A p, q \in Procs : pc[p] \in After /\ path # fd[p] => fd[p] \notin {temp[q], test[q]}
\* Nor has one whose links have been counted, from those who work on it.
CountedIsOnly ==
  \A p, q \in Procs :
    /\ pc[p] = "unlinkpath" /\ fd[q] = fd[p] /\ pc[q] \in After \cup {"unlinkpath"}
    => test[q] # fd[p]

\* Without unlinkfile the file stays, and nobody makes links.
FileStays ==
  ~UnlinkFile =>
    \A p \in Procs :
      /\ temp[p] = NoInode /\ fd[p] \in {NoInode, path}
      /\ pc[p] \in {"idle", "open", "chown", "trylock", "lock", "held", "unlock", "close"}

Links ==
  /\ TwiceInside /\ LockedAgain /\ TempDropped /\ TempIsPath /\ CountedIsPath
  /\ GoneHasNoLink /\ CountedIsOnly /\ FileStays /\ HeldIsNamed

\* What st_nlink = 1 says: the one name is the path, or it is a link.
LEMMA OneLink ==
  ASSUME TypeOK, NEW i \in Inodes, Nlink(i) = 1
  PROVE  /\ path = i => \A q \in Procs : i \notin {temp[q], test[q]}
         /\ path # i => \E q \in Procs : i \in {temp[q], test[q]}
<1> DEFINE T == {q \in Procs : temp[q] = i}
           S == {q \in Procs : test[q] = i}
<1>1. IsFiniteSet(T) /\ IsFiniteSet(S)
  BY FcntlAssumption, FS_Subset
<1>2. Cardinality(T) \in Nat /\ Cardinality(S) \in Nat
  BY <1>1, FS_CardinalityType
<1>3. (Cardinality(T) = 0 <=> T = {}) /\ (Cardinality(S) = 0 <=> S = {})
  BY <1>1, FS_EmptySet
<1>4. (IF path = i THEN 1 ELSE 0) + Cardinality(T) + Cardinality(S) = 1
  BY DEF Nlink
<1>5. CASE path = i
  <2>1. T = {} /\ S = {}
    BY <1>2, <1>3, <1>4, <1>5
  <2> QED BY <2>1, <1>5
<1>6. CASE path # i
  <2>1. T # {} \/ S # {}
    BY <1>2, <1>3, <1>4, <1>6
  <2> QED BY <2>1, <1>6
<1> QED BY <1>5, <1>6

LEMMA InitLinks == Init => Links
BY DEF Init, Links, TwiceInside, LockedAgain, TempDropped, TempIsPath, CountedIsPath,
       GoneHasNoLink, CountedIsOnly, FileStays, HeldIsNamed, After

\* One step of two processes.
LEMMA NextLinks ==
  ASSUME NEW a, NEW b, Procs = {a, b}, IInv, Links, [Next]_vars
  PROVE  Links'
<1> USE FcntlAssumption
    DEF IInv, TypeOK, FdIsOpen, LocksAreOpen, LockedOwn, LockedPcs, Pcs, Links,
        TwiceInside, LockedAgain, TempDropped, TempIsPath, CountedIsPath,
        GoneHasNoLink, CountedIsOnly, FileStays, HeldIsNamed, After, Goto, names
<1>1. CASE UNCHANGED vars
  BY <1>1 DEF vars
<1>2. ASSUME NEW p \in Procs, Step(p) PROVE Links'
  <2>1. CASE Open(p)       BY <2>1 DEF Open, FreeInodes
  <2>2. CASE Chown(p)      BY <2>2 DEF Chown, Close, Dropped
  <2>3. CASE TryLock(p)    BY <2>3 DEF TryLock, Granted, AfterLock, Close, Dropped
  <2>4. CASE Lock(p)       BY <2>4 DEF Lock, Granted, AfterLock
  <2>5. CASE DropTemp(p)   BY <2>5 DEF DropTemp
  <2>6. CASE LinkTemp(p)   BY <2>6 DEF LinkTemp
  <2>7. CASE LinkTest(p)   BY <2>7 DEF LinkTest
  <2>8. CASE UnlinkTest(p) BY <2>8 DEF UnlinkTest
  <2>9. CASE UnlinkTemp(p) BY <2>9 DEF UnlinkTemp, WasRemoved
  <2>10. CASE Removed(p)   BY <2>10 DEF Removed, Close, Dropped
  <2>11. CASE Unlock(p)    BY <2>11 DEF Unlock
  <2>12. CASE LockUn(p)    BY <2>12 DEF LockUn, Dropped
  <2>13. CASE LockAgain(p) BY <2>13 DEF LockAgain, Granted
  <2>14. CASE CountLinks(p) BY <2>14, OneLink DEF CountLinks, LastName
  <2>15. CASE UnlinkPath(p) BY <2>15 DEF UnlinkPath
  <2>16. CASE CloseLock(p) BY <2>16 DEF CloseLock, Close, Dropped
  <2> QED BY <1>2, <2>1, <2>2, <2>3, <2>4, <2>5, <2>6, <2>7, <2>8, <2>9,
             <2>10, <2>11, <2>12, <2>13, <2>14, <2>15, <2>16 DEF Step
<1>3. ASSUME NEW p \in Procs, Crash(p) PROVE Links'
  BY <1>3 DEF Crash, Close, Dropped
<1>4. ASSUME NEW p \in Procs, Relock(p) PROVE Links'
  BY <1>4 DEF Relock
<1>5. ASSUME NEW p \in Procs, NEW nb \in BOOLEAN, Start(p, nb) PROVE Links'
  BY <1>5 DEF Start
<1> QED BY <1>1, <1>2, <1>3, <1>4, <1>5 DEF Next

\* What the two parts of the invariant come to.
LEMMA NamedAndAlone ==
  /\ IInv /\ Links => OwnFileRemoved /\ HeldIsNamed
  /\ IInv /\ Links => MutualExclusion
<1>1. IInv /\ Links => OwnFileRemoved /\ HeldIsNamed
  BY DEF Links, CountedIsPath, OwnFileRemoved
<1>2. IInv /\ Links => MutualExclusion
  BY DEF IInv, Links, LockedOwn, LockedPcs, HeldIsNamed, MutualExclusion, OneHolder
<1> QED BY <1>1, <1>2

\* As long as no more than two processes contend for a lock file, and whatever dies,
\* unlockfile removes the lock file of nobody else and, if no holder asks for its lock
\* again, only one of the two has it.  (A third process may have a link to the file of
\* another, which unlockfile takes for the name.)
THEOREM TwoProcessesExclude ==
  ASSUME NEW a, NEW b, Procs = {a, b}
  PROVE  Spec => [](OwnFileRemoved /\ MutualExclusion)
<1>1. Links /\ IInv /\ [Next]_vars => Links'
  BY NextLinks
<1> QED BY <1>1, NamedAndAlone, InitLinks, Invariance, PTL DEF Spec

\* Between two processes, the lock that lockfile has returned is on the file that has the
\* name, so that whoever comes later runs into it: what a holder has removed is opened
\* again by who was waiting for it (_lockfile_was_removed).
THEOREM TwoProcessesFindTheLock ==
  ASSUME NEW a, NEW b, Procs = {a, b}
  PROVE  Spec => []HeldIsNamed
<1>1. Links /\ IInv /\ [Next]_vars => Links'
  BY NextLinks
<1> QED BY <1>1, NamedAndAlone, InitLinks, Invariance, PTL DEF Spec

=============================================================================
