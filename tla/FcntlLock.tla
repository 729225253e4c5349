----------------------------- MODULE FcntlLock ------------------------------
(***************************************************************************)
(* lockfile and unlockfile of lib/corepkg/locks.py on a file system with   *)
(* fcntl locks: _lockfile_iteration, _lockfile_was_removed, _lock_manager  *)
(* and unlockfile.  With wantnewlockfile (lockdir and almost every other   *)
(* caller) the lock file is removed when the lock is released, so that a   *)
(* process may be granted a lock on a file that no longer has a name, or   *)
(* has been replaced.  One action is one system call; any process may run, *)
(* or die, between two calls.                                              *)
(***************************************************************************)
EXTENDS Naturals, FiniteSets

CONSTANTS
  Procs,        \* the processes: one per (host, pid), as in hardlock_name
  Inodes,       \* inode numbers, reused once no name and no fd refers to them
  NoInode,      \* the name does not exist, or the descriptor is closed
  NoProc,       \* nobody holds the kernel's lock
  UnlinkFile,   \* unlinkfile: remove the lock file on release
  MaxCrashes    \* bound on the number of processes that die

ASSUME FcntlAssumption ==
  /\ IsFiniteSet(Procs)
  /\ NoInode \notin Inodes
  /\ NoProc \notin Procs
  /\ UnlinkFile \in BOOLEAN
  /\ MaxCrashes \in Nat

VARIABLES
  path,      \* inode named by lockfilename, or NoInode
  temp,      \* temp[p]: inode named by p's hardlock_name, or NoInode
  test,      \* test[p]: inode named by p's "-inode-test" link, or NoInode
  fd,        \* fd[p]: inode behind myfd, or NoInode
  owner,     \* owner[i]: the process with the kernel's lock on inode i
  nonblock,  \* nonblock[p]: the attempt was made with os.O_NONBLOCK
  pc,        \* pc[p]: the next system call of p
  crashes,   \* processes that died so far
  twice      \* holders that have asked for their lock again (a history)

vars == <<path, temp, test, fd, owner, nonblock, pc, crashes, twice>>
names == <<path, temp, test>>

\* Where a process can be.  "held" is the caller's critical section.
Pcs == {"idle", "open", "chown", "trylock", "lock", "droptemp", "linktemp",
        "linktest", "unlinktest", "unlinktemp", "removed", "held", "unlock",
        "relock", "nlink", "unlinkpath", "close"}

\* st_nlink: how many names the inode has.
Nlink(i) == (IF path = i THEN 1 ELSE 0)
              + Cardinality({q \in Procs : temp[q] = i})
              + Cardinality({q \in Procs : test[q] = i})

\* An inode number may be given to a new file when nothing refers to it.
FreeInodes ==
  {i \in Inodes : path # i /\ \A q \in Procs : i \notin {temp[q], test[q], fd[q]}}

TypeOK ==
  /\ path \in Inodes \cup {NoInode}
  /\ temp \in [Procs -> Inodes \cup {NoInode}]
  /\ test \in [Procs -> Inodes \cup {NoInode}]
  /\ fd \in [Procs -> Inodes \cup {NoInode}]
  /\ owner \in [Inodes -> Procs \cup {NoProc}]
  /\ nonblock \in [Procs -> BOOLEAN]
  /\ pc \in [Procs -> Pcs]
  /\ crashes \in 0..MaxCrashes
  /\ twice \subseteq Procs

Init ==
  /\ path = NoInode
  /\ temp = [p \in Procs |-> NoInode]
  /\ test = [p \in Procs |-> NoInode]
  /\ fd = [p \in Procs |-> NoInode]
  /\ owner = [i \in Inodes |-> NoProc]
  /\ nonblock = [p \in Procs |-> FALSE]
  /\ pc = [p \in Procs |-> "idle"]
  /\ crashes = 0
  /\ twice = {}

Goto(p, l) == pc' = [pc EXCEPT ![p] = l]

\* The system calls of fcntl.lockf and close.  A lock belongs to a process and
\* an inode: closing any descriptor of the inode drops it.
Granted(p) == owner[fd[p]] \in {p, NoProc} /\ owner' = [owner EXCEPT ![fd[p]] = p]
Dropped(p) == [i \in Inodes |-> IF i = fd[p] /\ owner[i] = p THEN NoProc ELSE owner[i]]
Close(p) == owner' = Dropped(p) /\ fd' = [fd EXCEPT ![p] = NoInode]

-----------------------------------------------------------------------------
(* lockfile                                                                *)

\* The caller asks for the lock, blocking or not.
Start(p, nb) ==
  /\ pc[p] = "idle"
  /\ nonblock' = [nonblock EXCEPT ![p] = nb]
  /\ Goto(p, "open")
  /\ UNCHANGED <<names, fd, owner, crashes, twice>>

\* os.open(lockfilename, O_CREAT | O_RDWR).  A file that did not exist when it
\* was looked for is given to the portage group, by those who may do so.
Open(p) ==
  /\ pc[p] = "open"
  /\ \/ path # NoInode /\ UNCHANGED path
     \/ path = NoInode /\ path' \in FreeInodes
  /\ fd' = [fd EXCEPT ![p] = path']
  /\ Goto(p, "trylock") \/ Goto(p, "chown")
  /\ UNCHANGED <<temp, test, owner, nonblock, crashes, twice>>

\* os.stat and os.chown by name: a file removed meanwhile means a new iteration.
Chown(p) ==
  /\ pc[p] = "chown"
  /\ \/ path # NoInode /\ Goto(p, "trylock") /\ UNCHANGED <<fd, owner>>
     \/ path = NoInode /\ Goto(p, "open") /\ Close(p)
  /\ UNCHANGED <<names, nonblock, crashes, twice>>

\* Once locked, a file that lock holders remove may be gone already.
AfterLock == IF UnlinkFile THEN "droptemp" ELSE "held"

\* LOCK_EX | LOCK_NB; EAGAIN is TryAgain for a non-blocking caller, and the
\* others go on to a blocking call.
TryLock(p) ==
  /\ pc[p] = "trylock"
  /\ \/ Granted(p) /\ Goto(p, AfterLock) /\ UNCHANGED fd
     \/ /\ owner[fd[p]] \notin {p, NoProc}
        /\ IF nonblock[p] THEN Close(p) /\ Goto(p, "idle")
                          ELSE Goto(p, "lock") /\ UNCHANGED <<fd, owner>>
  /\ UNCHANGED <<names, nonblock, crashes, twice>>

\* LOCK_EX, which sleeps until the lock is granted.
MutLock(p) ==
  /\ pc[p] = "lock"
  /\ Goto(p, AfterLock)
  /\ UNCHANGED <<names, fd, owner, nonblock, crashes, twice>>
Lock(p) ==
  /\ pc[p] = "lock"
  /\ Granted(p)
  /\ Goto(p, AfterLock)
  /\ UNCHANGED <<names, fd, nonblock, crashes, twice>>

\* _lockfile_was_removed: a temporary link to the lock file, whatever it is by
\* now, tells whether the name still refers to the inode that is locked.
\* First os.unlink(hardlink_path): a link left by an earlier process.
DropTemp(p) ==
  /\ pc[p] = "droptemp"
  /\ temp' = [temp EXCEPT ![p] = NoInode]
  /\ Goto(p, "linktemp")
  /\ UNCHANGED <<path, test, fd, owner, nonblock, crashes, twice>>

\* os.link(lock_path, hardlink_path), and the comparison of the inodes.
LinkTemp(p) ==
  /\ pc[p] = "linktemp"
  /\ temp' = [temp EXCEPT ![p] = path]
  /\ Goto(p, IF path \in {fd[p], NoInode} THEN "unlinktemp" ELSE "linktest")
  /\ UNCHANGED <<path, test, fd, owner, nonblock, crashes, twice>>

\* A different inode: a second link proves that this file system gives one
\* inode one number.  (A stale second link is removed first.)
LinkTest(p) ==
  /\ pc[p] = "linktest"
  /\ test' = [test EXCEPT ![p] = temp[p]]
  /\ Goto(p, "unlinktest")
  /\ UNCHANGED <<path, temp, fd, owner, nonblock, crashes, twice>>

UnlinkTest(p) ==
  /\ pc[p] = "unlinktest"
  /\ test' = [test EXCEPT ![p] = NoInode]
  /\ Goto(p, "unlinktemp")
  /\ UNCHANGED <<path, temp, fd, owner, nonblock, crashes, twice>>

\* The result of _lockfile_was_removed.
MutWasRemoved(p) == temp[p] = NoInode
WasRemoved(p) == temp[p] # fd[p]

\* os.unlink(hardlink_path).
UnlinkTemp(p) ==
  /\ pc[p] = "unlinktemp"
  /\ temp' = [temp EXCEPT ![p] = NoInode]
  /\ Goto(p, IF WasRemoved(p) THEN "removed" ELSE "held")
  /\ UNCHANGED <<path, test, fd, owner, nonblock, crashes, twice>>

\* "lockfile removed by previous lock holder, retrying": os.close.
MutRemoved(p) ==
  /\ pc[p] = "removed"
  /\ Goto(p, "open")
  /\ UNCHANGED <<names, fd, owner, nonblock, crashes, twice>>
Removed(p) ==
  /\ pc[p] = "removed"
  /\ Close(p)
  /\ Goto(p, "open")
  /\ UNCHANGED <<names, nonblock, crashes, twice>>

\* A holder asks for the lock again, with the file still in its place: the kernel
\* grants it, since it is the same process; _lock_manager finds the inode among
\* _open_inodes, closes the second descriptor and raises TryAgain.
Relock(p) ==
  /\ pc[p] = "held"
  /\ path = fd[p]
  /\ owner[path] \in {p, NoProc}
  /\ owner' = [owner EXCEPT ![path] = NoProc]
  /\ twice' = twice \cup {p}
  /\ UNCHANGED <<names, fd, nonblock, pc, crashes>>

-----------------------------------------------------------------------------
(* unlockfile                                                              *)

\* os.path.exists(lockfilename): without the file only the descriptor is closed.
Unlock(p) ==
  /\ pc[p] = "held"
  /\ Goto(p, IF path = NoInode THEN "close" ELSE "unlock")
  /\ UNCHANGED <<names, fd, owner, nonblock, crashes, twice>>

\* LOCK_UN.
LockUn(p) ==
  /\ pc[p] = "unlock"
  /\ owner' = Dropped(p)
  /\ Goto(p, IF UnlinkFile THEN "relock" ELSE "close")
  /\ UNCHANGED <<names, fd, nonblock, crashes, twice>>

\* LOCK_EX | LOCK_NB: is there competition for the lock?
LockAgain(p) ==
  /\ pc[p] = "relock"
  /\ \/ Granted(p) /\ Goto(p, "nlink")
     \/ owner[fd[p]] \notin {p, NoProc} /\ Goto(p, "close") /\ UNCHANGED owner
  /\ UNCHANGED <<names, fd, nonblock, crashes, twice>>

\* _fstat_nlink(myfd) == 1: the file still has its name, and no other.
MutLastName(p) == Nlink(fd[p]) >= 1
LastName(p) == Nlink(fd[p]) = 1

CountLinks(p) ==
  /\ pc[p] = "nlink"
  /\ Goto(p, IF LastName(p) THEN "unlinkpath" ELSE "close")
  /\ UNCHANGED <<names, fd, owner, nonblock, crashes, twice>>

\* os.unlink(lockfilename): it removes whatever the name refers to by now.
UnlinkPath(p) ==
  /\ pc[p] = "unlinkpath"
  /\ path' = NoInode
  /\ Goto(p, "close")
  /\ UNCHANGED <<temp, test, fd, owner, nonblock, crashes, twice>>

\* LOCK_UN, if the lock is still held, and os.close.
MutCloseLock(p) ==
  /\ pc[p] = "close"
  /\ fd' = [fd EXCEPT ![p] = NoInode]
  /\ Goto(p, "idle")
  /\ twice' = twice \ {p}
  /\ UNCHANGED <<names, owner, nonblock, crashes>>
CloseLock(p) ==
  /\ pc[p] = "close"
  /\ Close(p)
  /\ Goto(p, "idle")
  /\ twice' = twice \ {p}
  /\ UNCHANGED <<names, nonblock, crashes>>

\* A process dies: descriptors and locks go, its links stay on the disk.  A
\* later process with the same pid starts over from "idle".
Crash(p) ==
  /\ pc[p] # "idle"
  /\ crashes < MaxCrashes
  /\ crashes' = crashes + 1
  /\ Close(p)
  /\ Goto(p, "idle")
  /\ twice' = twice \ {p}
  /\ UNCHANGED <<names, nonblock>>

\* What a process does once it has asked for the lock.
Step(p) ==
  \/ Open(p) \/ Chown(p) \/ TryLock(p) \/ Lock(p)
  \/ DropTemp(p) \/ LinkTemp(p) \/ LinkTest(p) \/ UnlinkTest(p) \/ UnlinkTemp(p)
  \/ Removed(p)
  \/ Unlock(p) \/ LockUn(p) \/ LockAgain(p) \/ CountLinks(p) \/ UnlinkPath(p)
  \/ CloseLock(p)

Next ==
  \E p \in Procs : Step(p) \/ Crash(p) \/ Relock(p) \/ \E nb \in BOOLEAN : Start(p, nb)

Spec == Init /\ [][Next]_vars

\* A process that has asked for the lock keeps running and releases it, and the
\* kernel does not grant the lock past the same waiter for ever.
Fairness == \A p \in Procs : WF_vars(Step(p)) /\ SF_vars(Lock(p))

FairSpec == Spec /\ Fairness

-----------------------------------------------------------------------------
(* Properties                                                              *)

\* Two processes never have the lock at once, between the return of lockfile and
\* the call of unlockfile.
OneHolder == \A p, q \in Procs : pc[p] = "held" /\ pc[q] = "held" => p = q

\* So it is as long as no holder asks for its lock again.
MutualExclusion == twice = {} => OneHolder

\* unlockfile removes the lock file only when nobody has it ("We won the lock, so
\* there isn't competition for it.  We can safely delete the file."): the file
\* is not another one that a process has locked since.
OwnFileRemoved == \A p \in Procs : pc[p] = "unlinkpath" => path \in {fd[p], NoInode}

\* A lock that was handed out is on the file that the name refers to, so that
\* every process that comes later runs into it: lockfile never returns the lock
\* of a file that a previous holder has removed.  (A holder that has lost its
\* lock by asking again may lose the file as well.)
HeldIsNamed == \A p \in Procs \ twice : pc[p] = "held" => path = fd[p]

\* No path through lockfile and unlockfile leaks a descriptor: a process has the
\* kernel's lock on one inode at most, and it is the one it still works on.
LocksAreOpen == \A i \in Inodes : owner[i] # NoProc => fd[owner[i]] = i

\* Whatever is removed and created by name, and whatever other holders do, a
\* process that asks for the lock once has the kernel's lock on its file until it
\* releases it: no two such processes are inside with the same file.
HeldIsLocked == \A p \in Procs \ twice : pc[p] = "held" => owner[fd[p]] = p

\* Every lock of the kernel's has a process that works with it, and every lock that
\* lockfile has returned is one of them.
LocksSound == LocksAreOpen /\ HeldIsLocked

\* The inductive invariant behind LocksSound: a process that is
\* at work has the file open, and from the call that grants the lock to the one
\* that drops it the kernel's lock on that file is its own.
FdIsOpen == \A p \in Procs : fd[p] = NoInode <=> pc[p] \in {"idle", "open"}
LockedPcs == {"droptemp", "linktemp", "linktest", "unlinktest", "unlinktemp",
              "removed", "held", "unlock", "nlink", "unlinkpath"}
LockedOwn == \A p \in Procs \ twice : pc[p] \in LockedPcs => owner[fd[p]] = p

IInv == TypeOK /\ FdIsOpen /\ LocksAreOpen /\ LockedOwn

\* A process that sleeps in a blocking call is woken up, even when it waits for
\* a file that has been removed long ago.
BlockedIsServed == \A p \in Procs : []<>(pc[p] # "lock")

=============================================================================
