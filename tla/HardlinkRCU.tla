----------------------------- MODULE HardlinkRCU -----------------------------
(***************************************************************************)
(* sync-rcu: HardlinkRcuRepoStorage under the rsync module.  A repository  *)
(* is a link to <store>/latest, which is a link to <store>/snapshots/<id>. *)
(* A sync fills <store>/update beside it and commits by renames; a plain   *)
(* directory is migrated first.  Every system call that other processes    *)
(* can see is a step, emerge may die between any two of them, and the next *)
(* sync starts from what it finds on the disk.  One sync runs at a time.   *)
(* It asks mirrors, in any order and as often as the settings let it, and  *)
(* compares their timestamp with that of the repository.                   *)
(***************************************************************************)
EXTENDS Integers, Sequences, FiniteSets, SequencesExt

CONSTANTS
  Spare,          \* sync-rcu-spare-snapshots
  MaxVersions,    \* bound: versions the server offers
  MaxSyncs,       \* bound: syncs that are started
  MaxCrashes      \* bound: crashes

ASSUME RcuAssumption ==
  {Spare, MaxVersions, MaxSyncs, MaxCrashes} \subseteq Nat /\ MaxVersions > 0

VARIABLES
  \* the disk
  user,           \* user_location: "none", "dir" or "link" (to latest)
  dir,            \* what the plain directory holds
  latest,         \* the snapshot that store/latest links to, 0 for none
  latestNew,      \* the same for store/latest.new
  userNew,        \* user_location.new exists
  snaps,          \* store/snapshots: from numbers to contents
  update,         \* what store/update holds
  expired,        \* snapshots whose mtime is older than the ttl
  \* the process that synchronises
  syncPc,         \* where it is
  canonical,      \* _latest_canonical, read by __init__
  migrating,      \* commit_update is called by _migrate
  ready,          \* _download_dir is set: init_update has been called
  stamp,          \* timestamp, read from the repository at the start, 0 for none
  same,           \* local_state_unchanged
  mirror,         \* the version of the mirror that is synced with, 0 for none
  result,         \* of the last attempt: "current", "whole" or "failed"
  \* the settings and the servers, and histories
  verify,         \* sync-rsync-verify-metamanifest
  server,         \* the last version; a mirror offers it or an earlier one
  syncs, crashes,
  lates,          \* the snapshots that have been the latest, in order
  skipped         \* those that were committed though the last attempt was "current"

rcuDisk == <<user, dir, latest, latestNew, userNew, snaps, update, expired>>
rsyncProc == <<stamp, same, mirror, result>>
rcuProcRest == <<canonical, migrating, ready, rsyncProc>>
rcuProc == <<syncPc, rcuProcRest>>
rcuEnv  == <<verify, server, syncs, crashes, lates, skipped>>
rcuVars == <<rcuDisk, rcuProc, rcuEnv>>

\* What a directory holds: it is not there, an unfinished update, the rest of a
\* user's directory whose removal was interrupted, nothing, or a whole version;
\* and the version that its metadata/timestamp.chk names, 0 for none.
Absent  == -3
Partial == -2
Rest    == -1
Empty   == 0
Content == [files : Absent..MaxVersions, chk : 0..MaxVersions]
Copy(f, c) == [files |-> f, chk |-> c]
NoCopy == Copy(Absent, 0)

RcuInit ==
  /\ user = "dir" /\ dir = Copy(1, 1)
  /\ latest = 0 /\ latestNew = 0 /\ userNew = FALSE
  /\ snaps = << >> /\ update = NoCopy /\ expired = {}
  /\ syncPc = "idle" /\ canonical = 0 /\ migrating = FALSE /\ ready = FALSE
  /\ stamp = 0 /\ same = TRUE /\ mirror = 0 /\ result = "failed"
  /\ verify \in BOOLEAN
  /\ server = 1 /\ syncs = 0 /\ crashes = 0 /\ lates = << >> /\ skipped = {}

RcuGoto(from, to) == syncPc = from /\ syncPc' = to

\* The process ends, and what it knew is gone.
Ended ==
  /\ syncPc' = "idle" /\ canonical' = 0 /\ migrating' = FALSE /\ ready' = FALSE
  /\ stamp' = 0 /\ same' = TRUE /\ mirror' = 0 /\ result' = "failed"

\* The versions of the server appear, and snapshots grow old: their mtime is
\* the one rsync -a gave them, which may be past the ttl from the beginning.
ServerUpdates ==
  /\ server < MaxVersions /\ server' = server + 1
  /\ UNCHANGED <<rcuDisk, rcuProc, verify, syncs, crashes, lates, skipped>>
Expire ==
  /\ \E n \in DOMAIN snaps \ expired : expired' = expired \cup {n}
  /\ UNCHANGED <<user, dir, latest, latestNew, userNew, snaps, update, rcuProc, rcuEnv>>

\* What repo.location resolves to.
Live == IF user = "link" THEN snaps[latest] ELSE dir

\* SyncManager.pre_sync makes sure that the location exists; update reads its
\* timestamp, and __init__ looks at store/latest.
StartSync ==
  /\ syncs < MaxSyncs /\ RcuGoto("idle", "attempt")
  /\ syncs' = syncs + 1
  /\ IF user = "none" THEN user' = "dir" /\ dir' = Copy(Empty, 0) ELSE UNCHANGED <<user, dir>>
  /\ canonical' = latest
  /\ migrating' = FALSE /\ ready' = FALSE
  /\ stamp' = (IF user = "none" THEN 0 ELSE Live.chk)
  /\ same' = TRUE /\ mirror' = 0 /\ result' = "failed"
  /\ UNCHANGED <<latest, latestNew, userNew, snaps, update, expired,
                 verify, server, crashes, lates, skipped>>

\* An attempt that fails is followed by another one, or it was the last: an error
\* that no retry mends or too many retries, or no address is left.
AttemptFails == result' = "failed" /\ syncPc' \in {"attempt", "synced", "abort"}

\* _do_rsync probes a mirror.  It does not answer, or is out of date; it has what
\* the location has, which ends the loop; or it has something newer.
MutDoRsync ==
  /\ syncPc = "attempt"
  /\ \/ AttemptFails /\ same' = FALSE /\ UNCHANGED mirror
     \/ \E m \in 1..server :
          \/ m = stamp /\ syncPc' = "synced" /\ result' = "current" /\ UNCHANGED <<same, mirror>>
          \/ /\ m # stamp /\ syncPc' = (IF ready THEN "load" ELSE "clean")
             /\ same' = FALSE /\ mirror' = m /\ UNCHANGED result
  /\ UNCHANGED <<rcuDisk, canonical, migrating, ready, stamp, rcuEnv>>
DoRsync ==
  /\ syncPc = "attempt"
  /\ \/ AttemptFails /\ same' = FALSE /\ UNCHANGED mirror
     \/ \E m \in 1..server :
          \/ m = stamp /\ syncPc' = "synced" /\ result' = "current" /\ UNCHANGED <<same, mirror>>
          \/ /\ m > stamp /\ syncPc' = (IF ready THEN "load" ELSE "clean")
             /\ same' = FALSE /\ mirror' = m /\ UNCHANGED result
  /\ UNCHANGED <<rcuDisk, canonical, migrating, ready, stamp, rcuEnv>>

\* What uses download_dir first calls init_update: an attempt with a mirror, or
\* else the end of the loop.
AfterInit == IF mirror # 0 THEN "load" ELSE "synced"

\* init_update: what an earlier sync has left is removed.
InitUpdate ==
  /\ syncPc = "clean"
  /\ update' = NoCopy
  /\ \/ canonical # 0 /\ syncPc' = "copy" /\ UNCHANGED ready
     \/ canonical = 0 /\ user = "dir" /\ syncPc' = "migrate" /\ UNCHANGED ready
     \/ canonical = 0 /\ user # "dir" /\ syncPc' = AfterInit /\ ready' = TRUE
  /\ migrating' = FALSE
  /\ UNCHANGED <<user, dir, latest, latestNew, userNew, snaps, expired, canonical, rsyncProc, rcuEnv>>

\* rsync --link-dest fills the update from the latest snapshot.
CopyStarts ==
  /\ RcuGoto("copy", "copying") /\ update' = Copy(Partial, 0)
  /\ UNCHANGED <<user, dir, latest, latestNew, userNew, snaps, expired, rcuProcRest, rcuEnv>>
CopyEnds ==
  /\ RcuGoto("copying", AfterInit) /\ update' = snaps[canonical] /\ ready' = TRUE
  /\ UNCHANGED <<user, dir, latest, latestNew, userNew, snaps, expired, canonical, migrating,
                 rsyncProc, rcuEnv>>

\* _migrate: the user's directory becomes the update, by a rename, or by a copy
\* and a removal when it is on another device.
MigrateByRename ==
  /\ RcuGoto("migrate", "commit") /\ migrating' = TRUE
  /\ update' = dir /\ user' = "none" /\ dir' = NoCopy
  /\ UNCHANGED <<latest, latestNew, userNew, snaps, expired, canonical, ready, rsyncProc, rcuEnv>>
MigrateByCopy ==
  /\ \/ RcuGoto("migrate", "mcopy") /\ update' = Copy(Partial, 0) /\ UNCHANGED <<user, dir>>
     \/ RcuGoto("mcopy", "mremove") /\ update' = dir /\ UNCHANGED <<user, dir>>
     \/ /\ RcuGoto("mremove", "mremoving")
        /\ \E c \in {0, dir.chk} : dir' = Copy(Rest, c)
        /\ UNCHANGED <<user, update>>
     \/ RcuGoto("mremoving", "commit") /\ user' = "none" /\ dir' = NoCopy /\ UNCHANGED update
  /\ migrating' = TRUE
  /\ UNCHANGED <<latest, latestNew, userNew, snaps, expired, canonical, ready, rsyncProc, rcuEnv>>

\* The transfer of what the mirror has.  It succeeds; it does not begin; or it
\* stops somewhere, and the timestamp of the location is removed.  The value that
\* has been read from there is used by the next attempt all the same.
Download ==
  /\ syncPc = "load" /\ mirror' = 0
  /\ \/ /\ update' = Copy(mirror, mirror) /\ result' = "whole" /\ syncPc' = "synced"
        /\ UNCHANGED <<dir, snaps>>
     \/ AttemptFails /\ UNCHANGED <<update, dir, snaps>>
     \/ /\ AttemptFails
        /\ \E f \in {update.files, Partial, mirror}, c \in {update.chk, mirror} : update' = Copy(f, c)
        /\ IF user = "link" THEN snaps' = [snaps EXCEPT ![latest].chk = 0] /\ UNCHANGED dir
           ELSE dir' = [dir EXCEPT !.chk = 0] /\ UNCHANGED snaps
  /\ UNCHANGED <<user, latest, latestNew, userNew, expired, canonical, migrating, ready,
                 stamp, same, rcuEnv>>

\* After the loop.  Unless every attempt found the location current, download_dir
\* is asked for; where the last attempt has succeeded the update is committed,
\* which a Manifest that does not agree with its files prevents.  A verification
\* that fails may leave the update, or have other reasons.
Synced ==
  /\ \/ /\ syncPc = "synced" /\ (same \/ ready) /\ result # "failed" /\ verify
        /\ Ended
     \/ /\ \/ RcuGoto("synced", "clean") /\ ~ same /\ ~ ready
           \/ /\ RcuGoto("synced", "abort") /\ (same \/ ready)
              /\ result = "failed" \/ same \/ verify
           \/ /\ RcuGoto("synced", "commit") /\ ~ same /\ ready /\ result # "failed"
              /\ verify => update.files > Empty
        /\ UNCHANGED rcuProcRest
  /\ UNCHANGED <<rcuDisk, rcuEnv>>

AbortUpdate ==
  /\ syncPc = "abort" /\ Ended
  /\ update' = (IF ready THEN NoCopy ELSE update)
  /\ UNCHANGED <<user, dir, latest, latestNew, userNew, snaps, expired, rcuEnv>>

\* commit_update.  The update becomes the snapshot with the next number, or
\* rename raises because no mirror has filled it since the migration.
NewId == 1 + (IF snaps = << >> THEN 0 ELSE Max(DOMAIN snaps))
CommitSnapshot ==
  /\ \/ RcuGoto("commit", "raised") /\ update.files = Absent /\ UNCHANGED <<snaps, update, skipped>>
     \/ /\ RcuGoto("commit", "unlink") /\ update.files # Absent
        /\ snaps' = [n \in DOMAIN snaps \cup {NewId} |-> IF n = NewId THEN update ELSE snaps[n]]
        /\ update' = NoCopy
        /\ skipped' = IF result = "current" /\ ~ migrating THEN skipped \cup {NewId} ELSE skipped
  /\ UNCHANGED <<user, dir, latest, latestNew, userNew, expired, rcuProcRest,
                 verify, server, syncs, crashes, lates>>

\* A latest.new that a crash has left is removed, a new one is made and renamed.
CommitLatest ==
  /\ \/ RcuGoto("unlink", "symlink") /\ latestNew' = 0 /\ UNCHANGED <<latest, lates>>
     \/ /\ RcuGoto("symlink", "rename") /\ latestNew = 0
        /\ latestNew' = Max(DOMAIN snaps) /\ UNCHANGED <<latest, lates>>
     \/ /\ RcuGoto("rename", "point") /\ latestNew' = 0
        /\ latest' = latestNew /\ lates' = Append(lates, latestNew)
  /\ UNCHANGED <<user, dir, userNew, snaps, update, expired, rcuProcRest,
                 verify, server, syncs, crashes, skipped>>

\* What follows the commit: the rest of init_update, or the collection.
AfterCommit == IF migrating THEN "clean" ELSE "collect"

\* The user's location is made a link, unless it is one.  A rename of a link to
\* the name of a directory fails.
CommitUser ==
  /\ \/ RcuGoto("point", AfterCommit) /\ user = "link" /\ UNCHANGED <<user, userNew>>
     \/ RcuGoto("point", "usymlink") /\ user # "link" /\ userNew' = FALSE /\ UNCHANGED user
     \/ RcuGoto("usymlink", "urename") /\ userNew' = TRUE /\ UNCHANGED user
     \/ RcuGoto("urename", AfterCommit) /\ user = "none" /\ user' = "link" /\ userNew' = FALSE
     \/ RcuGoto("urename", "raised") /\ user = "dir" /\ UNCHANGED <<user, userNew>>
  /\ UNCHANGED <<dir, latest, latestNew, snaps, update, expired, rcuProcRest, rcuEnv>>

\* garbage_collection: all but the newest are removed once they are too old.
MutCollectable == {n \in DOMAIN snaps : Cardinality({m \in DOMAIN snaps : m > n}) > Spare - 1}
Collectable == {n \in DOMAIN snaps : Cardinality({m \in DOMAIN snaps : m > n}) > Spare}
Collect ==
  /\ syncPc = "collect"
  /\ LET old == Collectable \cap expired
     IN  IF old = {} THEN Ended /\ UNCHANGED <<snaps, expired>>
         ELSE LET n == Min(old)
              IN  /\ snaps' = [m \in DOMAIN snaps \ {n} |-> snaps[m]]
                  /\ expired' = expired \ {n}
                  /\ UNCHANGED rcuProc
  /\ UNCHANGED <<user, dir, latest, latestNew, userNew, update, rcuEnv>>

\* A command fails (RepoStorageException): the sync is given up, and what
\* abort_update may know is removed.
Fails ==
  /\ syncPc \in {"copying", "mcopy", "mremoving"} /\ Ended
  /\ UNCHANGED <<rcuDisk, rcuEnv>>

\* emerge dies, or has raised OSError; the disk stays as it is.
CrashSync ==
  /\ syncPc # "idle"
  /\ \/ crashes < MaxCrashes /\ crashes' = crashes + 1
     \/ syncPc = "raised" /\ UNCHANGED crashes
  /\ Ended
  /\ UNCHANGED <<rcuDisk, verify, server, syncs, lates, skipped>>

Sync ==
  \/ InitUpdate \/ CopyStarts \/ CopyEnds \/ MigrateByRename \/ MigrateByCopy
  \/ DoRsync \/ Download \/ Synced \/ AbortUpdate \/ CommitSnapshot \/ CommitLatest \/ CommitUser
  \/ Collect \/ Fails

RcuNext == StartSync \/ Sync \/ ServerUpdates \/ Expire \/ CrashSync

RcuSpec == RcuInit /\ [][RcuNext]_rcuVars

RcuTypeOK ==
  /\ user \in {"none", "dir", "link"} /\ dir \in Content /\ update \in Content
  /\ latest \in Nat /\ latestNew \in Nat /\ userNew \in BOOLEAN
  /\ \A n \in DOMAIN snaps : n \in Nat \ {0} /\ snaps[n] \in Content
  /\ expired \subseteq DOMAIN snaps
  /\ stamp \in 0..MaxVersions /\ mirror \in 0..MaxVersions /\ result \in {"current", "whole", "failed"}
  /\ ready \in BOOLEAN /\ same \in BOOLEAN /\ migrating \in BOOLEAN /\ verify \in BOOLEAN
  /\ skipped \subseteq Nat \ {0}

-----------------------------------------------------------------------------
(* Properties                                                              *)

\* What a process that opens the repository now finds.
Visible == CASE user = "link" -> snaps[latest].files
             [] user = "dir"  -> dir.files
             [] OTHER         -> Absent

\* "Updates occur by atomic replacement of the symlink": wherever emerge dies and
\* whatever the mirrors do, what is found behind the link is never a collected
\* snapshot, and an unfinished update only where nothing is verified and a mirror
\* that failed half-way was followed by one that has what the location had.  (A
\* crash while _migrate removes the user's directory does leave the rest of it for
\* the next sync to migrate.)
AlwaysWhole ==
  user = "link" =>
    /\ latest \in DOMAIN snaps
    /\ snaps[latest].files = Partial => ~ verify /\ latest \in skipped

\* The timestamp of a whole snapshot is its own or has been removed, so that no
\* sync takes it for current when it is not; again but for such a commit.
StampTrue ==
  \A n \in DOMAIN snaps \ skipped : snaps[n].files > Empty => snaps[n].chk \in {0, snaps[n].files}

\* No mirror brings an earlier version back, nor does a snapshot that a crash has
\* left half committed, as long as the sync knew the timestamp of what it replaces;
\* but for an unfinished update, which only a sync that verifies keeps out.
NeverBack ==
  [][user = "link" =>
       /\ user' = "link"
       /\ \/ Visible' >= Visible
          \/ stamp # Visible
          \/ ~ verify /\ latest' \in skipped]_rcuVars

\* "This protects the previous latest snapshot from being removed immediately
\* after a new version becomes available": the last Spare snapshots that have
\* been the latest are kept for those who resolved them, unless a crash has left
\* a snapshot that never was the latest, which then counts as a spare one.
PreviousKept ==
  LET n == Len(lates)
  IN  \A i \in 1..n :
        /\ n - i <= Spare
        /\ \A m \in DOMAIN snaps : m > lates[i] => m \in ToSet(lates)
        => lates[i] \in DOMAIN snaps

\* What readers of the repository rely on.
SnapshotsKept == AlwaysWhole /\ StampTrue /\ PreviousKept
=============================================================================
