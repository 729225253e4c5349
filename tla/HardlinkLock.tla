---------------------------- MODULE HardlinkLock ----------------------------
(***************************************************************************)
(* The hard link lock of lib/corepkg/locks.py: hardlink_lockfile,          *)
(* hardlink_is_mine and unhardlink_lockfile.  It is what lockfile() falls  *)
(* back to when the file system does not implement fcntl locks (ENOSYS).   *)
(*                                                                         *)
(* Every process makes a private link, hardlock_name(lockfilename), to the *)
(* shared lock file; the process that finds exactly two names on the lock  *)
(* file's inode, the lock file and its own link, owns the lock.  One       *)
(* action is one system call: the file system is shared with other hosts,  *)
(* and any process may run, or die, between two calls.                     *)
(***************************************************************************)
EXTENDS Naturals, FiniteSets

CONSTANTS
  Procs,        \* the processes: one per (host, pid), as in hardlock_name
  Inodes,       \* inode numbers, reused once no name and no fd refers to them
  NoInode,      \* the name does not exist, or the descriptor is closed
  UnlinkFile,   \* the unlinkfile argument: remove the lock file on release
  MaxCrashes    \* bound on the number of processes that die

ASSUME HardlinkAssumption ==
  /\ IsFiniteSet(Procs)
  /\ NoInode \notin Inodes
  /\ UnlinkFile \in BOOLEAN
  /\ MaxCrashes \in Nat

VARIABLES
  path,      \* inode named by lockfilename, or NoInode
  hard,      \* hard[p]: inode named by p's myhardlock, or NoInode
  fd,        \* fd[p]: inode behind p's open descriptor myfd, or NoInode
  seen,      \* seen[p]: inode of the lock_st that hardlink_is_mine has read
  nonblock,  \* nonblock[p]: the attempt was made with os.O_NONBLOCK
  pc,        \* pc[p]: the next system call of p
  crashes    \* processes that died so far

vars == <<path, hard, fd, seen, nonblock, pc, crashes>>

\* Where a process can be.  "held" is the caller's critical section.
Pcs == {"idle", "unlinkmine", "open", "fstat", "link", "statlock", "statlink",
        "unlinkhard", "wait", "held", "unstatlink", "unlinkpath", "unhard"}

\* st_nlink: how many names the inode has.
Nlink(i) == (IF path = i THEN 1 ELSE 0) + Cardinality({q \in Procs : hard[q] = i})

\* An inode number may be given to a new file when nothing refers to it.
FreeInodes == {i \in Inodes : path # i /\ \A q \in Procs : hard[q] # i /\ fd[q] # i}

TypeOK ==
  /\ path \in Inodes \cup {NoInode}
  /\ hard \in [Procs -> Inodes \cup {NoInode}]
  /\ fd \in [Procs -> Inodes \cup {NoInode}]
  /\ seen \in [Procs -> Inodes \cup {NoInode}]
  /\ nonblock \in [Procs -> BOOLEAN]
  /\ pc \in [Procs -> Pcs]
  /\ crashes \in 0..MaxCrashes

Init ==
  /\ path = NoInode
  /\ hard = [p \in Procs |-> NoInode]
  /\ fd = [p \in Procs |-> NoInode]
  /\ seen = [p \in Procs |-> NoInode]
  /\ nonblock = [p \in Procs |-> FALSE]
  /\ pc = [p \in Procs |-> "idle"]
  /\ crashes = 0

Goto(p, l) == pc' = [pc EXCEPT ![p] = l]

-----------------------------------------------------------------------------
(* hardlink_lockfile                                                       *)

\* os.open with O_CREAT: a missing lock file is created.
CreatePath ==
  \/ path # NoInode /\ UNCHANGED path
  \/ path = NoInode /\ path' \in FreeInodes

\* The caller asks for the lock, blocking or not.  _lockfile_iteration opens
\* the lock file, is told ENOSYS by the fcntl call, closes the descriptor and
\* calls hardlink_lockfile.
Start(p, nb) ==
  /\ pc[p] = "idle"
  /\ nonblock' = [nonblock EXCEPT ![p] = nb]
  /\ CreatePath
  /\ Goto(p, "unlinkmine")
  /\ UNCHANGED <<hard, fd, seen, crashes>>

\* os.unlink(myhardlock): a link left by an earlier process with this pid.
MutUnlinkMine(p) ==
  /\ pc[p] = "unlinkmine"
  /\ Goto(p, "open")
  /\ UNCHANGED <<path, hard, fd, seen, nonblock, crashes>>
UnlinkMine(p) ==
  /\ pc[p] = "unlinkmine"
  /\ hard' = [hard EXCEPT ![p] = NoInode]
  /\ Goto(p, "open")
  /\ UNCHANGED <<path, fd, seen, nonblock, crashes>>

\* os.open(lockfilename, O_CREAT | O_RDWR).
Open(p) ==
  /\ pc[p] = "open"
  /\ CreatePath
  /\ fd' = [fd EXCEPT ![p] = path']
  /\ Goto(p, "fstat")
  /\ UNCHANGED <<hard, seen, nonblock, crashes>>

\* os.fstat(myfd) and os.close(myfd).  A removed file may be reported as
\* ESTALE, and then the loop starts again; otherwise the link is only worth
\* trying when the inode has fewer than two names.
Fstat(p) ==
  /\ pc[p] = "fstat"
  /\ fd' = [fd EXCEPT ![p] = NoInode]
  /\ \/ Nlink(fd[p]) = 0 /\ Goto(p, "open")
     \/ Nlink(fd[p]) < 2 /\ Goto(p, "link")
     \/ Nlink(fd[p]) >= 2 /\ Goto(p, "wait")
  /\ UNCHANGED <<path, hard, seen, nonblock, crashes>>

\* os.link(lockfilename, myhardlock); ENOENT means that another process has
\* removed the lock file, and the loop starts again.
Link(p) ==
  /\ pc[p] = "link"
  /\ \/ path = NoInode /\ Goto(p, "open") /\ UNCHANGED hard
     \/ /\ path # NoInode
        /\ hard' = [hard EXCEPT ![p] = path]
        /\ Goto(p, "statlock")
  /\ UNCHANGED <<path, fd, seen, nonblock, crashes>>

\* hardlink_is_mine, first os.stat: continue at found when the lock file has
\* exactly two names, at notMine otherwise (or when it does not exist).
MutIsMineLockStat(p, found, notMine) ==
  /\ \/ path # NoInode /\ seen' = [seen EXCEPT ![p] = path] /\ Goto(p, found)
     \/ path = NoInode /\ Goto(p, notMine) /\ UNCHANGED seen
  /\ UNCHANGED <<path, hard, fd, nonblock, crashes>>
IsMineLockStat(p, found, notMine) ==
  /\ \/ /\ path # NoInode
        /\ Nlink(path) = 2
        /\ seen' = [seen EXCEPT ![p] = path]
        /\ Goto(p, found)
     \/ /\ path = NoInode \/ Nlink(path) # 2
        /\ Goto(p, notMine)
        /\ UNCHANGED seen
  /\ UNCHANGED <<path, hard, fd, nonblock, crashes>>

\* hardlink_is_mine, second os.stat: the link must be the inode just seen.
IsMineLinkStat(p, mine, notMine) ==
  /\ Goto(p, IF hard[p] = seen[p] THEN mine ELSE notMine)
  /\ seen' = [seen EXCEPT ![p] = NoInode]
  /\ UNCHANGED <<path, hard, fd, nonblock, crashes>>

StatLock(p) == pc[p] = "statlock" /\ IsMineLockStat(p, "statlink", "unlinkhard")

StatLink(p) == pc[p] = "statlink" /\ IsMineLinkStat(p, "held", "unlinkhard")

\* Not ours: os.unlink(myhardlock).  The link is ours alone, so it exists,
\* unless somebody swept it away: then FileNotFound goes to the caller.
UnlinkHard(p) ==
  /\ pc[p] = "unlinkhard"
  /\ hard' = [hard EXCEPT ![p] = NoInode]
  /\ Goto(p, IF hard[p] = NoInode THEN "idle" ELSE "wait")
  /\ UNCHANGED <<path, fd, seen, nonblock, crashes>>

\* TryAgain for a non-blocking caller, _HARDLINK_POLL_LATENCY for the others.
Wait(p) ==
  /\ pc[p] = "wait"
  /\ Goto(p, IF nonblock[p] THEN "idle" ELSE "open")
  /\ UNCHANGED <<path, hard, fd, seen, nonblock, crashes>>

-----------------------------------------------------------------------------
(* unhardlink_lockfile                                                     *)

\* hardlink_is_mine is asked again before the lock file is touched.
Unlock(p) ==
  /\ pc[p] = "held"
  /\ \/ UnlinkFile /\ IsMineLockStat(p, "unstatlink", "unhard")
     \/ /\ ~UnlinkFile
        /\ Goto(p, "unhard")
        /\ UNCHANGED <<path, hard, fd, seen, nonblock, crashes>>

UnlockStatLink(p) ==
  pc[p] = "unstatlink" /\ IsMineLinkStat(p, "unlinkpath", "unhard")

\* os.unlink(lockfilename): it removes whatever the name refers to by now.
UnlinkPath(p) ==
  /\ pc[p] = "unlinkpath"
  /\ path' = NoInode
  /\ Goto(p, "unhard")
  /\ UNCHANGED <<hard, fd, seen, nonblock, crashes>>

\* os.unlink(myhardlock).
Unhard(p) ==
  /\ pc[p] = "unhard"
  /\ hard' = [hard EXCEPT ![p] = NoInode]
  /\ Goto(p, "idle")
  /\ UNCHANGED <<path, fd, seen, nonblock, crashes>>

\* A process dies: its descriptors are closed, its link stays on the disk.
\* A later process with the same pid starts over from "idle".
Crash(p) ==
  /\ pc[p] # "idle"
  /\ crashes < MaxCrashes
  /\ crashes' = crashes + 1
  /\ fd' = [fd EXCEPT ![p] = NoInode]
  /\ seen' = [seen EXCEPT ![p] = NoInode]
  /\ Goto(p, "idle")
  /\ UNCHANGED <<path, hard, nonblock>>

\* What a process does once it has asked for the lock.
Step(p) ==
  \/ UnlinkMine(p) \/ Open(p) \/ Fstat(p) \/ Link(p)
  \/ StatLock(p) \/ StatLink(p) \/ UnlinkHard(p) \/ Wait(p)
  \/ Unlock(p) \/ UnlockStatLink(p) \/ UnlinkPath(p) \/ Unhard(p)

Next ==
  \E p \in Procs : Step(p) \/ Crash(p) \/ \E nb \in BOOLEAN : Start(p, nb)

Spec == Init /\ [][Next]_vars

\* A process that has asked for the lock keeps running: lockfile() loops
\* until it has the lock, and every caller releases it.
Fairness == \A p \in Procs : WF_vars(Step(p))

FairSpec == Spec /\ Fairness

-----------------------------------------------------------------------------
(* Properties                                                              *)

\* In the critical section, or on the way to remove the lock file for it.
Owns(p) == pc[p] \in {"held", "unstatlink", "unlinkpath"}

\* Two processes never own the lock at once, whatever the order of their
\* link, stat and unlink calls (hardlink_lockfile: "If our file can 2
\* references, then we have the lock").
MutualExclusion == \A p, q \in Procs : Owns(p) /\ Owns(q) => p = q

\* The lock file is removed only by its owner: unhardlink_lockfile must "not
\* touch lockfilename unless we really have a lock", so unlink(lockfilename)
\* never removes a file that another process has made its lock.
OwnFileRemoved == \A p \in Procs : pc[p] = "unlinkpath" => path = hard[p]

\* hardlink_lockfile's link() never meets an existing myhardlock, although
\* the loop comes back to it on every path through the retry.
LinkIsFresh == \A p \in Procs : pc[p] = "link" => hard[p] = NoInode

\* The inductive invariant behind MutualExclusion.  A process claims the lock
\* from the moment hardlink_is_mine has seen its own inode with two names; a
\* claimed inode is the one lockfilename refers to, and is claimed once.
Claim(p) ==
  \/ Owns(p)
  \/ pc[p] = "statlink" /\ seen[p] = hard[p]

ClaimIsPath == \A p \in Procs : Claim(p) => path # NoInode /\ hard[p] = path

ClaimIsUnique == \A p, q \in Procs : Claim(p) /\ Claim(q) => p = q

IInv == TypeOK /\ ClaimIsPath /\ ClaimIsUnique

\* A process that waits alone gets the lock: once all others have gone home for
\* good and left no link behind, no call is stuck, not even after an earlier
\* process with the same pid died at any point.
Quiet(p) == \A q \in Procs \ {p} : pc[q] = "idle" /\ hard[q] = NoInode
AloneAcquires ==
  \A p \in Procs : <>[]Quiet(p) => []<>(pc[p] \in {"held", "idle"})

=============================================================================
