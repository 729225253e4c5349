----------------------------- MODULE StoreProofs -----------------------------
(***************************************************************************)
(* What several processes keep in one directory.  Repository snapshots:    *)
(* for any number of syncs, attempts, versions, crashes and spare          *)
(* snapshots, what is found behind the link of a repository is whole and   *)
(* never an earlier version, but where a sync that does not verify commits *)
(* what a mirror left unfinished or the timestamp was lost; and the last   *)
(* snapshots are kept (SnapshotsKept and NeverBack).                       *)
(* Binary packages: the index of $PKGDIR is true and no build is           *)
(* overwritten by another (IndexTrue and InstancesKept).                   *)
(***************************************************************************)
EXTENDS HardlinkRCU, BinTree, FiniteSetTheorems, SequenceTheorems, WellFoundedInduction, TLAPS

Pcs == {"idle", "attempt", "load", "synced", "clean", "copy", "copying", "migrate", "mcopy",
        "mremove", "mremoving", "commit", "abort", "unlink", "symlink", "rename", "point",
        "usymlink", "urename", "collect", "raised"}

RcuTyped ==
  /\ RcuTypeOK
  /\ server \in 1..MaxVersions /\ lates \in Seq(Nat) /\ canonical \in Nat /\ syncPc \in Pcs

\* t is the snapshot with the highest number.
Newest(t) == t \in DOMAIN snaps /\ \A m \in DOMAIN snaps : m <= t

\* What is found in the user's directory, as is what _migrate makes of it: not an
\* unfinished update, and with no timestamp but its own.
Sound(c) == c.files >= Rest /\ (c.files > Empty => c.chk \in {0, c.files})
AllWhole ==
  /\ \A n \in DOMAIN snaps : snaps[n].files = Partial => ~ verify /\ n \in skipped
  /\ StampTrue
  /\ user = "dir" => Sound(dir)
  /\ syncPc \in {"mremove", "mremoving"} \/ (syncPc = "commit" /\ migrating) => Sound(update)
  /\ syncPc \in {"migrate", "mcopy", "mremove", "mremoving"} => user = "dir"
  /\ syncPc = "commit" /\ migrating => user = "none"

\* The update of a sync: it is what it was copied from or came from a mirror with
\* a later timestamp, and is whole if the last attempt says so.
Fetched(f) == f \in {Absent, Partial, snaps[latest].files} \/ f > stamp
UpdateFits ==
  /\ mirror # 0 => mirror > stamp
  /\ syncPc = "load" => ready /\ mirror # 0
  /\ result = "whole" => ready
  /\ ready => ~ migrating
  /\ syncPc \in {"clean", "copy", "copying", "migrate", "mcopy", "mremove", "mremoving"} => ~ ready
  /\ ready /\ user = "link" /\ syncPc \in {"load", "attempt", "synced", "commit"} => Fetched(update.files)
  /\ syncPc \in {"synced", "commit"} /\ result = "whole" => update.chk = update.files /\ update.files > stamp
  /\ syncPc = "commit" /\ ~ migrating =>
       ready /\ result \in {"current", "whole"} /\ (verify => update.files > Empty)

\* Numbers grow, and there is a newest snapshot as soon as there is one.
Numbered ==
  /\ snaps = << >> \/ \E t \in Nat : Newest(t)
  /\ snaps = << >> => lates = << >> /\ latest = 0
  /\ \A i, k \in 1..Len(lates) : i < k => lates[i] < lates[k]
  /\ \A t \in Nat, k \in 1..Len(lates) : Newest(t) => lates[k] <= t

\* The latest snapshot is there, and the one that is being made the latest is newer
\* and may take its place.
Pending == {"unlink", "symlink", "rename"}
MayReplace(t) ==
  \/ snaps[latest].files <= snaps[t].files
  \/ stamp # snaps[latest].files
  \/ ~ verify /\ t \in skipped
LatestThere ==
  /\ latest = 0 \/ latest \in DOMAIN snaps
  /\ user = "link" => latest # 0
  /\ syncPc \in Pending => \E t \in Nat :
       /\ Newest(t) /\ \A k \in 1..Len(lates) : lates[k] < t
       /\ syncPc = "rename" => latestNew = t
       /\ user = "link" => MayReplace(t)
  /\ syncPc \in {"point", "usymlink", "urename", "collect"} => Newest(latest)

\* PreviousKept, where the snapshot that is about to be the latest is one that has been.
OthersWereLatest(i) ==
  \A m \in DOMAIN snaps : m > lates[i] =>
    m \in ToSet(lates) \/ (syncPc \in Pending /\ Newest(m))
LastKept ==
  \A i \in 1..Len(lates) :
    Len(lates) - i <= Spare /\ OthersWereLatest(i) => lates[i] \in DOMAIN snaps

\* The snapshot that an update is copied from is the latest one.
CopyThere ==
  /\ syncPc \in {"attempt", "load", "synced", "clean", "copy", "copying"} => canonical \in {0, latest}
  /\ syncPc \in {"copy", "copying"} => canonical # 0
  /\ migrating \/ syncPc \in {"migrate", "mcopy", "mremove", "mremoving"} => canonical = 0

IInv == RcuTyped /\ CopyThere /\ AllWhole /\ UpdateFits /\ Numbered /\ LatestThere /\ LastKept

-----------------------------------------------------------------------------
\* A set of numbers has a least element ...
LEMMA LeastOne ==
  ASSUME NEW S, S \subseteq Nat, S # {}
  PROVE  \E x \in S : \A y \in S : x <= y
<1>1. PICK R : IsWellFoundedOn(R, Nat) /\ (\A x, y \in Nat : x < y => <<x, y>> \in R)
  <2>1. IsWellFoundedOn(OpToRel(<, Nat), Nat) BY NatLessThanWellFounded
  <2>2. \A x, y \in Nat : x < y => <<x, y>> \in OpToRel(<, Nat)
    BY DEF OpToRel
  <2> QED BY <2>1, <2>2
<1>2. PICK x \in S : \A y \in S : ~ (<<y, x>> \in R)
  <2>1. IsWellFoundedOn(R, Nat)
    BY <1>1
  <2>2. \A T : T \subseteq Nat /\ T # {} => \E x \in T : \A y \in T : ~ (<<y, x>> \in R)
    BY <2>1, WFMin, Zenon
  <2> QED BY <2>2
<1>3. ASSUME NEW y \in S PROVE x <= y
  <2>1. x \in Nat /\ y \in Nat OBVIOUS
  <2>2. ~ (y < x) BY <1>1, <1>2, <2>1
  <2> QED BY <2>1, <2>2
<1> QED BY <1>3

\* ... which Min finds.
LEMMA MinIn ==
  ASSUME NEW S, S \subseteq Nat, S # {}
  PROVE  Min(S) \in S
BY LeastOne DEF Min

\* Max finds the greatest element.
LEMMA MaxIs ==
  ASSUME NEW S, S \subseteq Nat, NEW t \in S, \A y \in S : y <= t
  PROVE  Max(S) = t
<1>1. \E x \in S : \A y \in S : x >= y
  <2>1. \A y \in S : t >= y OBVIOUS
  <2> QED BY <2>1
<1>2. Max(S) \in S /\ \A y \in S : Max(S) >= y
  BY <1>1 DEF Max
<1>3. Max(S) \in Nat /\ t \in Nat /\ Max(S) >= t /\ Max(S) <= t BY <1>2
<1> QED BY <1>3

\* What the assumption says of the bounds.
LEMMA Bounds ==
  MaxVersions \in Nat /\ MaxVersions > 0 /\ Spare \in Nat
BY RcuAssumption

\* What a directory may hold.
LEMMA CopyIn ==
  ASSUME NEW f \in Absent..MaxVersions, NEW c \in 0..MaxVersions
  PROVE  Copy(f, c) \in Content /\ Copy(f, c).files = f /\ Copy(f, c).chk = c
BY Bounds DEF Copy, Content, Absent

\* What a directory that is not there holds.
LEMMA NoCopyIn == NoCopy \in Content /\ NoCopy.files = Absent /\ NoCopy.chk = 0
BY Bounds DEF Copy, NoCopy, Content, Absent

-----------------------------------------------------------------------------
\* Steps that leave the snapshots where they are, and what has been the latest.
Same == DOMAIN snaps' = DOMAIN snaps /\ UNCHANGED <<latest, lates>>
SameSnaps == UNCHANGED <<snaps, latest, lates>>
\* Nothing that is said of their numbers changes ...
LEMMA NumberedSame == ASSUME Numbered, SameSnaps PROVE Numbered'
BY DEF Numbered, SameSnaps, Newest

\* ... which leaves the kept ones alone, too.
LEMMA LastKeptSame ==
  ASSUME LastKept, Same, syncPc' \in Pending => syncPc \in Pending
  PROVE  LastKept'
BY DEF LastKept, Same, OthersWereLatest, Newest

\* A step of a sync before its commit, or outside of one, that changes no snapshot.
Quiet == {"idle", "attempt", "load", "synced", "clean", "copy", "copying", "migrate", "mcopy",
          "mremove", "mremoving", "commit", "abort", "raised"}
LEMMA QuietFacts ==
  ASSUME IInv, SameSnaps, UNCHANGED <<verify, skipped>>, syncPc' \in Quiet
  PROVE  /\ Numbered' /\ LastKept' /\ StampTrue'
         /\ \A n \in DOMAIN snaps' : snaps'[n].files = Partial => ~ verify' /\ n \in skipped'
         /\ (user' = "link" => user = "link") => LatestThere'
<1>1. Numbered' /\ LastKept'
  BY NumberedSame, LastKeptSame DEF IInv, SameSnaps, Same, Quiet, Pending
<1>2. StampTrue' /\ \A n \in DOMAIN snaps' : snaps'[n].files = Partial => ~ verify' /\ n \in skipped'
  BY DEF IInv, AllWhole, StampTrue, SameSnaps
<1>3. (user' = "link" => user = "link") => LatestThere'
  BY DEF IInv, LatestThere, SameSnaps, Quiet, Pending
<1> QED BY <1>1, <1>2, <1>3

\* The process ends.
LEMMA EndedKeeps ==
  ASSUME IInv, Ended, UNCHANGED <<user, dir, latest, latestNew, userNew, snaps, expired,
                                  verify, server, lates, skipped>>,
         update' \in Content
  PROVE  IInv'
<1>1. syncPc' = "idle" /\ SameSnaps
  BY DEF Ended, SameSnaps
<1>2. RcuTyped'
  <2>1. ready' \in BOOLEAN /\ same' \in BOOLEAN /\ migrating' \in BOOLEAN
    BY Zenon DEF Ended
  <2>2. /\ stamp' \in 0..MaxVersions /\ mirror' \in 0..MaxVersions /\ canonical' \in Nat
        /\ result' \in {"current", "whole", "failed"} /\ syncPc' \in Pcs
    BY Bounds DEF Ended, Pcs
  <2> QED BY <2>1, <2>2 DEF IInv, RcuTyped, RcuTypeOK
<1>3. Numbered' /\ LastKept' /\ LatestThere' /\ StampTrue'
      /\ \A n \in DOMAIN snaps' : snaps'[n].files = Partial => ~ verify' /\ n \in skipped'
  BY <1>1, QuietFacts DEF Quiet
<1>4. AllWhole' /\ CopyThere' /\ UpdateFits'
  BY <1>1, <1>3 DEF IInv, AllWhole, CopyThere, UpdateFits, Ended, Sound
<1> QED BY <1>2, <1>3, <1>4 DEF IInv

\* The start of a sync.
LEMMA StartKeeps == ASSUME IInv, StartSync PROVE IInv'
<1>1. /\ syncPc' = "attempt" /\ canonical' = latest /\ migrating' = FALSE /\ ready' = FALSE
      /\ same' = TRUE /\ mirror' = 0 /\ result' = "failed"
      /\ UNCHANGED <<latest, latestNew, userNew, snaps, update, expired, verify, server, lates, skipped>>
  BY DEF StartSync, RcuGoto
<1>2. \/ user = "none" /\ user' = "dir" /\ dir' = Copy(Empty, 0) /\ stamp' = 0
      \/ user # "none" /\ UNCHANGED <<user, dir>> /\ stamp' = Live.chk
  BY DEF StartSync
<1>3. Copy(Empty, 0) \in Content /\ Sound(Copy(Empty, 0))
  BY Bounds, CopyIn DEF Sound, Empty, Absent, Rest
<1>4. user # "none" => Live \in Content
  BY DEF IInv, RcuTyped, RcuTypeOK, Live, LatestThere
<1>5. user' \in {"none", "dir", "link"} /\ dir' \in Content /\ stamp' \in 0..MaxVersions
  BY <1>2, <1>3, <1>4, Bounds DEF IInv, RcuTyped, RcuTypeOK, Content
<1>6. RcuTyped'
  <2>1. ready' \in BOOLEAN /\ same' \in BOOLEAN /\ migrating' \in BOOLEAN
    BY <1>1, Zenon
  <2>2. /\ mirror' \in 0..MaxVersions /\ canonical' \in Nat
        /\ result' \in {"current", "whole", "failed"} /\ syncPc' \in Pcs
    BY <1>1, Bounds DEF IInv, RcuTyped, RcuTypeOK, Pcs
  <2> QED BY <1>1, <1>5, <2>1, <2>2 DEF IInv, RcuTyped, RcuTypeOK
<1>7. /\ Numbered' /\ LastKept' /\ LatestThere' /\ StampTrue'
      /\ \A n \in DOMAIN snaps' : snaps'[n].files = Partial => ~ verify' /\ n \in skipped'
  BY <1>1, <1>2, QuietFacts DEF SameSnaps, Quiet
<1>8. user' = "dir" => Sound(dir')
  BY <1>2, <1>3 DEF IInv, AllWhole
<1>9. AllWhole' /\ CopyThere' /\ UpdateFits'
  BY <1>1, <1>7, <1>8 DEF AllWhole, CopyThere, UpdateFits, Sound
<1> QED BY <1>6, <1>7, <1>9 DEF IInv

\* A sync until its commit.
LEMMA QuietKeeps ==
  ASSUME IInv,
         \/ InitUpdate \/ CopyStarts \/ CopyEnds \/ MigrateByRename \/ MigrateByCopy
         \/ DoRsync \/ (Synced /\ ~ Ended)
  PROVE  IInv'
<1> USE DEF IInv, RcuGoto, rcuDisk, rcuEnv, rcuProc, rcuProcRest, rsyncProc, AfterInit, AttemptFails
<1>1. /\ SameSnaps /\ syncPc' \in Quiet /\ syncPc' # "raised"
      /\ UNCHANGED <<latestNew, userNew, expired, verify, server, skipped>>
      /\ user' = user \/ user' = "none"
  BY DEF InitUpdate, CopyStarts, CopyEnds, MigrateByRename, MigrateByCopy, DoRsync, Synced,
         SameSnaps, Quiet
<1>2. /\ Numbered' /\ LastKept' /\ LatestThere' /\ StampTrue'
      /\ \A n \in DOMAIN snaps' : snaps'[n].files = Partial => ~ verify' /\ n \in skipped'
  BY <1>1, QuietFacts
<1>3. /\ Copy(Partial, 0) \in Content /\ NoCopy \in Content /\ NoCopy.files = Absent
      /\ \A c \in 0..MaxVersions : Copy(Rest, c) \in Content /\ Sound(Copy(Rest, c))
  BY Bounds, CopyIn, NoCopyIn DEF Absent, Partial, Rest, Empty, Sound
<1> USE DEF RcuTyped, RcuTypeOK, CopyThere, AllWhole, UpdateFits, Pcs, SameSnaps
<1>4. CASE InitUpdate
  <2>1. RcuTyped'
    BY <1>1, <1>3, <1>4 DEF InitUpdate
  <2>2. AllWhole' /\ CopyThere'
    BY <1>1, <1>2, <1>4 DEF InitUpdate
  <2>3. UpdateFits'
    BY <1>1, <1>3, <1>4 DEF InitUpdate, Fetched
  <2> QED BY <1>2, <2>1, <2>2, <2>3
<1>5. CASE CopyStarts
  BY <1>1, <1>2, <1>3, <1>5 DEF CopyStarts
<1>6. CASE CopyEnds
  <2>1. canonical = latest /\ latest \in DOMAIN snaps
    BY <1>6 DEF CopyEnds, LatestThere
  <2>2. RcuTyped'
    BY <1>1, <1>6, <2>1 DEF CopyEnds
  <2>3. AllWhole' /\ CopyThere'
    BY <1>1, <1>2, <1>6 DEF CopyEnds
  <2>4. UpdateFits'
    BY <1>1, <1>6, <2>1 DEF CopyEnds, Fetched
  <2> QED BY <1>2, <2>2, <2>3, <2>4
<1>7. CASE MigrateByRename
  <2>1. RcuTyped'
    BY <1>1, <1>3, <1>7 DEF MigrateByRename
  <2>2. AllWhole' /\ CopyThere'
    BY <1>1, <1>2, <1>7 DEF MigrateByRename
  <2>3. UpdateFits'
    BY <1>1, <1>7 DEF MigrateByRename
  <2> QED BY <1>2, <2>1, <2>2, <2>3
<1>8. CASE MigrateByCopy
  <2>1. /\ UNCHANGED <<canonical, ready, stamp, same, mirror, result>> /\ migrating' = TRUE
        /\ \/ syncPc = "migrate" /\ syncPc' = "mcopy" /\ update' = Copy(Partial, 0) /\ UNCHANGED <<user, dir>>
           \/ syncPc = "mcopy" /\ syncPc' = "mremove" /\ update' = dir /\ UNCHANGED <<user, dir>>
           \/ /\ syncPc = "mremove" /\ syncPc' = "mremoving" /\ UNCHANGED <<user, update>>
              /\ \E c \in 0..MaxVersions : dir' = Copy(Rest, c)
           \/ /\ syncPc = "mremoving" /\ syncPc' = "commit" /\ user' = "none" /\ dir' = NoCopy
              /\ UNCHANGED update
    BY <1>8, Bounds DEF MigrateByCopy, Content
  <2>2. RcuTyped'
    BY <1>1, <1>3, <2>1
  <2>3. AllWhole' /\ CopyThere'
    BY <1>1, <1>2, <1>3, <2>1
  <2>4. UpdateFits'
    BY <1>1, <2>1
  <2> QED BY <1>2, <2>2, <2>3, <2>4
<1>9. CASE DoRsync
  <2>1. /\ syncPc = "attempt" /\ UNCHANGED <<user, dir, update, canonical, migrating, ready, stamp>>
        /\ same' \in BOOLEAN
        /\ \/ /\ result' = "failed" /\ syncPc' \in {"attempt", "synced", "abort"} /\ mirror' = mirror
           \/ result' = "current" /\ syncPc' = "synced" /\ mirror' = mirror
           \/ \E m \in 1..server :
                /\ m > stamp /\ mirror' = m /\ result' = result
                /\ syncPc' = (IF ready THEN "load" ELSE "clean")
    BY <1>9 DEF DoRsync
  <2>2. RcuTyped'
    BY <1>1, <2>1, Bounds
  <2>3. AllWhole' /\ CopyThere'
    BY <1>1, <1>2, <2>1
  <2>4. UpdateFits'
    BY <1>1, <2>1 DEF Fetched
  <2> QED BY <1>2, <2>2, <2>3, <2>4
<1>10. CASE Synced /\ ~ Ended
  <2>1. /\ syncPc = "synced" /\ UNCHANGED <<user, dir, update, canonical, migrating, ready, rsyncProc>>
        /\ \/ syncPc' = "clean" /\ ~ ready
           \/ syncPc' = "abort"
           \/ syncPc' = "commit" /\ ready /\ result # "failed" /\ (verify => update.files > Empty)
    BY <1>10 DEF Synced
  <2>2. RcuTyped'
    BY <1>1, <2>1
  <2>3. AllWhole' /\ CopyThere'
    BY <1>1, <1>2, <2>1
  <2>4. UpdateFits'
    BY <1>1, <2>1 DEF Fetched
  <2> QED BY <1>2, <2>2, <2>3, <2>4
<1> QED BY <1>4, <1>5, <1>6, <1>7, <1>8, <1>9, <1>10

\* A transfer, which may remove the timestamp of the location.
LEMMA DownloadKeeps == ASSUME IInv, Download PROVE IInv'
<1> USE DEF IInv
<1> DEFINE Untouched == UNCHANGED <<dir, snaps>>
           InLink == user = "link" /\ snaps' = [snaps EXCEPT ![latest].chk = 0] /\ dir' = dir
           InDir  == user # "link" /\ dir' = [dir EXCEPT !.chk = 0] /\ snaps' = snaps
<1>1. /\ syncPc = "load" /\ mirror' = 0 /\ syncPc' \in {"attempt", "synced", "abort"}
      /\ UNCHANGED <<user, latest, latestNew, userNew, expired, canonical, migrating, ready, stamp, same,
                     verify, server, lates, skipped>>
      /\ Untouched \/ InLink \/ InDir
  BY DEF Download, AttemptFails, rcuEnv
<1>2. \/ update' = Copy(mirror, mirror) /\ result' = "whole" /\ syncPc' = "synced"
      \/ /\ result' = "failed"
         /\ \/ update' = update
            \/ \E f \in {update.files, Partial, mirror}, c \in {update.chk, mirror} : update' = Copy(f, c)
  BY DEF Download, AttemptFails
<1>3. /\ mirror \in 1..MaxVersions /\ mirror > stamp /\ stamp \in Nat /\ ready
      /\ update.files \in Absent..MaxVersions /\ update.chk \in 0..MaxVersions /\ update \in Content
  BY <1>1, Bounds DEF RcuTyped, RcuTypeOK, UpdateFits, Content, Absent
<1>4. /\ update' \in Content /\ result' \in {"whole", "failed"}
      /\ result' = "whole" => /\ update'.chk = update'.files /\ update'.files > stamp
                              /\ syncPc' = "synced"
      /\ update'.files \in {update.files, Partial, mirror}
  <2>1. /\ Partial \in Absent..MaxVersions /\ mirror \in Absent..MaxVersions /\ mirror \in 0..MaxVersions
    BY <1>3, Bounds DEF Partial, Absent
  <2>2. \A f \in {update.files, Partial, mirror}, c \in {update.chk, mirror} :
          Copy(f, c) \in Content /\ Copy(f, c).files = f /\ Copy(f, c).chk = c
    BY <1>3, <2>1, CopyIn
  <2> QED BY <1>2, <1>3, <2>2
<1>5. /\ DOMAIN snaps' = DOMAIN snaps
      /\ \A n \in DOMAIN snaps : /\ snaps'[n] \in Content /\ snaps'[n].files = snaps[n].files
                                /\ snaps'[n].chk \in {0, snaps[n].chk}
      /\ dir' \in Content /\ dir'.files = dir.files /\ dir'.chk \in {0, dir.chk}
  <2>1. \A c \in Content : /\ [c EXCEPT !.chk = 0] \in Content
                           /\ [c EXCEPT !.chk = 0].files = c.files /\ [c EXCEPT !.chk = 0].chk = 0
    BY Bounds DEF Content
  <2>2. dir \in Content /\ \A n \in DOMAIN snaps : snaps[n] \in Content
    BY DEF RcuTyped, RcuTypeOK
  <2>3. CASE Untouched
    BY <2>2, <2>3
  <2>4. CASE InLink
    BY <2>1, <2>2, <2>4
  <2>5. CASE InDir
    BY <2>1, <2>2, <2>5
  <2> QED BY <1>1, <2>3, <2>4, <2>5
<1>6. RcuTyped'
  BY <1>1, <1>4, <1>5, Bounds DEF RcuTyped, RcuTypeOK, Pcs
<1>7. Same /\ LastKept'
  BY <1>1, <1>5, LastKeptSame DEF Same, Pending
<1>8. Numbered'
  <2>1. CASE snaps' = snaps
    BY <1>1, <2>1, NumberedSame DEF SameSnaps
  <2>2. CASE InLink
    <3>1. latest \in DOMAIN snaps /\ latest \in DOMAIN snaps'
      BY <1>5, <2>2 DEF LatestThere
    <3>2. snaps # << >> /\ snaps' # << >>
      BY <3>1
    <3>3. \A t : Newest(t)' <=> Newest(t)
      BY <1>5 DEF Newest
    <3> QED BY <1>1, <3>2, <3>3 DEF Numbered
  <2> QED BY <1>1, <2>1, <2>2
<1>9. LatestThere'
  BY <1>1, <1>5 DEF LatestThere, Pending
<1>10. AllWhole'
  <2>1. user' = "dir" => Sound(dir')
    BY <1>1, <1>5 DEF AllWhole, Sound
  <2>2. StampTrue'
    BY <1>1, <1>5 DEF AllWhole, StampTrue
  <2> QED BY <1>1, <1>5, <2>1, <2>2 DEF AllWhole
<1>11. CopyThere'
  BY <1>1 DEF CopyThere
<1>12. UpdateFits'
  <2>1. user = "link" => Fetched(update.files)'
    <3>1. user = "link" => Fetched(update.files) /\ snaps'[latest].files = snaps[latest].files
      BY <1>1, <1>3, <1>5 DEF UpdateFits, LatestThere
    <3> QED BY <1>1, <1>3, <1>4, <3>1 DEF Fetched
  <2> QED BY <1>1, <1>3, <1>4, <2>1 DEF UpdateFits
<1> QED BY <1>6, <1>7, <1>8, <1>9, <1>10, <1>11, <1>12

\* Steps of the environment.
LEMMA EnvKeeps ==
  ASSUME IInv, ServerUpdates \/ Expire
  PROVE  IInv'
<1> USE DEF IInv, rcuDisk, rcuEnv, rcuProc, rcuProcRest, rsyncProc
<1>1. /\ SameSnaps /\ syncPc' = syncPc
      /\ UNCHANGED <<user, dir, latestNew, userNew, update, canonical, migrating, ready, stamp, same,
                     mirror, result, verify, skipped>>
      /\ server' \in 1..MaxVersions /\ expired' \subseteq DOMAIN snaps
  BY Bounds DEF ServerUpdates, Expire, SameSnaps, RcuTyped, RcuTypeOK
<1>2. Numbered' /\ LastKept'
  BY <1>1, NumberedSame, LastKeptSame DEF SameSnaps, Same
<1>3. RcuTyped'
  BY <1>1 DEF RcuTyped, RcuTypeOK, SameSnaps
<1>4. AllWhole' /\ CopyThere' /\ UpdateFits'
  BY <1>1 DEF AllWhole, StampTrue, Sound, CopyThere, UpdateFits, Fetched, SameSnaps
<1>5. LatestThere'
  BY <1>1 DEF LatestThere, MayReplace, Newest, SameSnaps
<1> QED BY <1>2, <1>3, <1>4, <1>5

-----------------------------------------------------------------------------
\* The number of the next snapshot is greater than any.
LEMMA NewIdFresh ==
  ASSUME RcuTyped, Numbered
  PROVE  /\ NewId \in Nat \ {0} /\ \A m \in DOMAIN snaps : m < NewId
         /\ \A k \in 1..Len(lates) : lates[k] < NewId
<1> USE DEF RcuTyped, RcuTypeOK, Numbered, Newest
<1>1. CASE snaps = << >>
  <2>1. NewId = 1 /\ DOMAIN snaps = {} /\ Len(lates) = 0
    BY <1>1 DEF NewId
  <2> QED BY <2>1
<1>2. CASE snaps # << >>
  <2>1. PICK t \in Nat : Newest(t)
    BY <1>2
  <2>2. Max(DOMAIN snaps) = t
    BY <2>1, MaxIs
  <2>3. NewId = t + 1
    BY <1>2, <2>2 DEF NewId
  <2>4. \A k \in 1..Len(lates) : lates[k] \in Nat /\ lates[k] <= t
    BY <2>1
  <2> QED BY <2>1, <2>3, <2>4
<1> QED BY <1>1, <1>2

\* commit_update makes the update a snapshot, which is not yet the latest.
LEMMA CommitSnapshotKeeps == ASSUME IInv, CommitSnapshot PROVE IInv'
<1> USE DEF IInv, RcuGoto, rcuProcRest, rsyncProc
<1>1. /\ syncPc = "commit"
      /\ UNCHANGED <<user, dir, userNew, latest, latestNew, expired, canonical, migrating, ready, stamp,
                     same, mirror, result, verify, server, lates>>
  BY DEF CommitSnapshot
<1>2. CASE syncPc' = "raised" /\ UNCHANGED <<snaps, update, skipped>>
  <2>1. /\ Numbered' /\ LastKept' /\ LatestThere' /\ StampTrue'
        /\ \A n \in DOMAIN snaps' : snaps'[n].files = Partial => ~ verify' /\ n \in skipped'
    BY <1>1, <1>2, QuietFacts DEF SameSnaps, Quiet
  <2>2. RcuTyped' /\ CopyThere'
    BY <1>1, <1>2 DEF RcuTyped, RcuTypeOK, CopyThere, Pcs
  <2>3. AllWhole' /\ UpdateFits'
    BY <1>1, <1>2, <2>1 DEF AllWhole, UpdateFits, Sound
  <2> QED BY <2>1, <2>2, <2>3
<1>3. CASE syncPc' = "unlink" /\ update' = NoCopy
  <2>1. /\ snaps' = [n \in DOMAIN snaps \cup {NewId} |-> IF n = NewId THEN update ELSE snaps[n]]
        /\ update.files # Absent
        /\ skipped' = IF result = "current" /\ ~ migrating THEN skipped \cup {NewId} ELSE skipped
    BY <1>3 DEF CommitSnapshot
  <2>2. PICK id \in Nat \ {0} :
          /\ \A m \in DOMAIN snaps : m < id
          /\ \A k \in 1..Len(lates) : lates[k] < id
          /\ DOMAIN snaps' = DOMAIN snaps \cup {id} /\ snaps'[id] = update
          /\ \A m \in DOMAIN snaps : snaps'[m] = snaps[m]
          /\ skipped \subseteq skipped' /\ skipped' \subseteq Nat \ {0}
          /\ result = "current" /\ ~ migrating => id \in skipped'
    <3>1. NewId \in Nat \ {0} /\ skipped \subseteq Nat \ {0}
      BY NewIdFresh DEF RcuTyped, RcuTypeOK
    <3> QED BY <2>1, <3>1, NewIdFresh
  <2>3. DOMAIN snaps \subseteq Nat
    BY DEF RcuTyped, RcuTypeOK
  <2>4. Newest(id)' /\ \A t \in Nat : Newest(t)' => t = id
    BY <2>2, <2>3 DEF Newest
  <2>5. NoCopy \in Content /\ update \in Content
    BY NoCopyIn DEF RcuTyped, RcuTypeOK
  <2>6. RcuTyped'
    <3>1. (\A n \in DOMAIN snaps' : n \in Nat \ {0} /\ snaps'[n] \in Content) /\ expired' \subseteq DOMAIN snaps'
      BY <1>1, <2>2, <2>5 DEF RcuTyped, RcuTypeOK
    <3>2. syncPc' \in Pcs /\ update' \in Content /\ skipped' \subseteq Nat \ {0}
      BY <1>3, <2>2, <2>5 DEF Pcs
    <3> QED BY <1>1, <3>1, <3>2 DEF RcuTyped, RcuTypeOK
  <2>7. update.files \in Int /\ update.chk \in Nat /\ stamp \in Nat
    BY <2>5, Bounds DEF RcuTyped, RcuTypeOK, Content, Absent
  <2>8. /\ update.files = Partial => ~ verify /\ id \in skipped'
        /\ update.files > Empty => id \in skipped' \/ update.chk \in {0, update.files}
        /\ user = "link" => Fetched(update.files) /\ ~ migrating
    <3>1. CASE migrating
      BY <1>1, <2>7, <3>1 DEF AllWhole, Sound, Rest, Partial
    <3>2. CASE ~ migrating
      <4>1. ready /\ result \in {"current", "whole"} /\ (verify => update.files > Empty)
        BY <1>1, <3>2 DEF UpdateFits
      <4>2. user = "link" => Fetched(update.files)
        BY <1>1, <4>1 DEF UpdateFits
      <4>3. CASE result = "current"
        BY <2>2, <2>7, <3>2, <4>1, <4>2, <4>3 DEF Empty, Partial
      <4>4. CASE result = "whole"
        BY <1>1, <2>7, <3>2, <4>2, <4>4 DEF UpdateFits, Partial
      <4> QED BY <4>1, <4>3, <4>4
    <3> QED BY <3>1, <3>2 DEF RcuTyped, RcuTypeOK
  <2>9. AllWhole'
    <3>1. StampTrue'
      BY <2>2, <2>8 DEF AllWhole, StampTrue
    <3>2. \A n \in DOMAIN snaps' : snaps'[n].files = Partial => ~ verify' /\ n \in skipped'
      BY <1>1, <2>2, <2>8 DEF AllWhole
    <3> QED BY <1>1, <1>3, <3>1, <3>2 DEF AllWhole, Sound
  <2>10. CopyThere' /\ UpdateFits'
    BY <1>1, <1>3 DEF CopyThere, UpdateFits
  <2>11. Numbered'
    <3>1. snaps' # << >>
      BY <2>2
    <3>2. \A k \in 1..Len(lates) : lates[k] <= id
      BY <2>2 DEF RcuTyped
    <3> QED BY <1>1, <2>2, <2>4, <3>1, <3>2 DEF Numbered
  <2>12. user = "link" => MayReplace(id)'
    <3> SUFFICES ASSUME user = "link" PROVE MayReplace(id)'
      OBVIOUS
    <3>1. /\ latest \in DOMAIN snaps /\ snaps'[latest] = snaps[latest] /\ snaps'[id] = update
          /\ snaps[latest].files \in Int
      BY <2>2, Bounds DEF LatestThere, RcuTyped, RcuTypeOK, Content, Absent
    <3>2. ready /\ result \in {"current", "whole"} /\ (verify => update.files > Empty)
      BY <1>1, <2>8 DEF UpdateFits
    <3>3. CASE result = "whole"
      <4>1. update.files > stamp
        BY <1>1, <3>3 DEF UpdateFits
      <4> QED BY <1>1, <2>7, <3>1, <4>1 DEF MayReplace
    <3>4. CASE result = "current" /\ ~ verify
      BY <1>1, <2>2, <2>8, <3>4 DEF MayReplace
    <3>5. CASE verify
      <4>1. update.files = snaps[latest].files \/ update.files > stamp
        BY <2>7, <2>8, <3>2, <3>5 DEF Fetched, Absent, Partial, Empty
      <4> QED BY <1>1, <2>7, <3>1, <4>1 DEF MayReplace
    <3> QED BY <3>2, <3>3, <3>4, <3>5
  <2>13. LatestThere'
    BY <1>1, <1>3, <2>2, <2>4, <2>12 DEF LatestThere, Pending
  <2>14. LastKept'
    BY <1>1, <1>3, <2>2, <2>3, <2>4 DEF LastKept, OthersWereLatest, Pending
  <2> QED BY <2>6, <2>9, <2>10, <2>11, <2>13, <2>14
<1> QED BY <1>2, <1>3 DEF CommitSnapshot

\* commit_update makes it the latest: latest.new is replaced and renamed.
LEMMA CommitLatestKeeps == ASSUME IInv, CommitLatest PROVE IInv'
<1> USE DEF IInv, RcuGoto, rcuProcRest, rsyncProc
<1>1. UNCHANGED <<user, dir, userNew, snaps, update, expired, canonical, migrating, ready, stamp, same,
                  mirror, result, verify, server, skipped>>
  BY DEF CommitLatest
<1>2. syncPc \in Pending
  BY DEF CommitLatest, Pending
<1>3. PICK t \in Nat : /\ Newest(t) /\ \A k \in 1..Len(lates) : lates[k] < t
                       /\ syncPc = "rename" => latestNew = t
                       /\ user = "link" => MayReplace(t)
  BY <1>2 DEF LatestThere
<1>4. Max(DOMAIN snaps) = t
  BY <1>3, MaxIs DEF Newest, RcuTyped, RcuTypeOK
<1>5. Newest(t)'
  BY <1>1, <1>3 DEF Newest
<1>6. AllWhole' /\ CopyThere' /\ UpdateFits'
  <2>1. syncPc' \in {"symlink", "rename", "point"}
    BY DEF CommitLatest
  <2> QED BY <1>1, <2>1 DEF AllWhole, StampTrue, Sound, CopyThere, UpdateFits
<1>7. CASE syncPc \in {"unlink", "symlink"}
  <2>1. /\ syncPc' \in {"symlink", "rename"} /\ SameSnaps /\ latestNew' \in Nat
        /\ syncPc' = "rename" => latestNew' = t
    BY <1>1, <1>3, <1>4, <1>7 DEF CommitLatest, SameSnaps, Newest
  <2>2. Numbered' /\ LastKept'
    BY <1>2, <2>1, NumberedSame, LastKeptSame DEF SameSnaps, Same
  <2>3. RcuTyped'
    BY <1>1, <2>1 DEF RcuTyped, RcuTypeOK, SameSnaps, Pcs
  <2>4. user' = "link" => MayReplace(t)'
    BY <1>1, <1>3, <2>1 DEF MayReplace, SameSnaps
  <2>5. LatestThere'
    BY <1>1, <1>3, <1>5, <2>1, <2>4 DEF LatestThere, SameSnaps, Pending
  <2> QED BY <1>6, <2>2, <2>3, <2>5
<1>8. CASE syncPc = "rename"
  <2>1. syncPc' = "point" /\ latest' = t /\ lates' = Append(lates, t) /\ latestNew' = 0
    BY <1>3, <1>8 DEF CommitLatest
  <2>2. /\ lates \in Seq(Nat) /\ lates' \in Seq(Nat) /\ Len(lates') = Len(lates) + 1
        /\ (\A k \in 1..Len(lates) : lates'[k] = lates[k]) /\ lates'[Len(lates) + 1] = t
    BY <2>1, AppendProperties DEF RcuTyped
  <2>3. RcuTyped'
    BY <1>1, <2>1, <2>2 DEF RcuTyped, RcuTypeOK, Pcs
  <2>4. LatestThere'
    BY <1>1, <1>3, <1>5, <2>1 DEF LatestThere, Newest, Pending, RcuTyped, RcuTypeOK
  <2>5. Numbered'
    <3>1. snaps' # << >>
      BY <1>5 DEF Newest
    <3>2. ASSUME NEW i \in 1..Len(lates'), NEW k \in 1..Len(lates'), i < k
          PROVE  lates'[i] < lates'[k]
      <4>1. CASE k = Len(lates) + 1
        <5>1. Len(lates) \in Nat
          BY <2>2, LenProperties
        <5>2. i \in 1..Len(lates)
          BY <2>2, <3>2, <4>1, <5>1
        <5>3. lates'[i] = lates[i] /\ lates'[k] = t
          BY <2>2, <4>1, <5>2
        <5> QED BY <1>3, <5>2, <5>3
      <4>2. CASE k \in 1..Len(lates)
        <5>1. i \in 1..Len(lates)
          BY <2>2, <3>2, <4>2
        <5>2. lates[i] < lates[k]
          BY <3>2, <4>2, <5>1 DEF Numbered
        <5> QED BY <2>2, <4>2, <5>1, <5>2
      <4> QED BY <2>2, <4>1, <4>2
    <3>3. ASSUME NEW k \in 1..Len(lates') PROVE lates'[k] <= t
      <4>1. CASE k = Len(lates) + 1
        BY <2>2, <4>1
      <4>2. CASE k \in 1..Len(lates)
        <5>1. lates[k] \in Nat /\ lates[k] < t
          BY <1>3, <2>2, <4>2
        <5> QED BY <2>2, <4>2, <5>1
      <4> QED BY <2>2, <4>1, <4>2
    <3>4. \A s \in Nat : Newest(s)' => s = t
      BY <1>5 DEF Newest
    <3> QED BY <1>5, <3>1, <3>2, <3>3, <3>4 DEF Numbered
  <2>6. LastKept'
    <3> SUFFICES ASSUME NEW i \in 1..Len(lates'), Len(lates') - i <= Spare, OthersWereLatest(i)'
                 PROVE  lates'[i] \in DOMAIN snaps'
      BY DEF LastKept
    <3>1. CASE i = Len(lates')
      BY <1>5, <2>2, <3>1 DEF Newest
    <3>2. CASE i \in 1..Len(lates)
      <4>1. Len(lates) - i <= Spare /\ lates'[i] = lates[i]
        BY <2>2, <3>2, Bounds
      <4>2. ToSet(lates') = ToSet(lates) \cup {t}
        <5>1. DOMAIN lates' = DOMAIN lates \cup {Len(lates) + 1} /\ DOMAIN lates = 1..Len(lates)
          BY <2>2
        <5>2. \A k \in DOMAIN lates : lates'[k] = lates[k]
          BY <2>2, <5>1
        <5> QED BY <2>2, <5>1, <5>2 DEF ToSet
      <4>3. OthersWereLatest(i)
        BY <1>1, <1>2, <1>3, <2>1, <4>1, <4>2 DEF OthersWereLatest, Pending
      <4> QED BY <1>1, <3>2, <4>1, <4>3 DEF LastKept
    <3> QED BY <2>2, <3>1, <3>2
  <2> QED BY <1>6, <2>3, <2>4, <2>5, <2>6
<1> QED BY <1>2, <1>7, <1>8 DEF Pending

\* The user's location becomes a link, or the sync ends with an error.
LEMMA CommitUserKeeps == ASSUME IInv, CommitUser PROVE IInv'
<1> USE DEF IInv, RcuGoto, AfterCommit, rcuEnv, rcuProcRest, rsyncProc
<1>1. /\ UNCHANGED <<dir, latest, latestNew, snaps, update, expired, canonical, migrating, ready, stamp,
                     same, mirror, result, verify, server, lates, skipped>>
      /\ syncPc \in {"point", "usymlink", "urename"}
      /\ syncPc' \in {"clean", "collect", "usymlink", "urename", "raised"}
      /\ syncPc' = "clean" => migrating
      /\ user' = user \/ user' = "link"
      /\ userNew' \in BOOLEAN
  BY DEF CommitUser, RcuTyped, RcuTypeOK
<1>2. Numbered' /\ LastKept'
  BY <1>1, NumberedSame, LastKeptSame DEF SameSnaps, Same, Pending
<1>3. RcuTyped'
  BY <1>1 DEF RcuTyped, RcuTypeOK, Pcs
<1>4. AllWhole' /\ CopyThere' /\ UpdateFits'
  BY <1>1 DEF AllWhole, StampTrue, Sound, CopyThere, UpdateFits
<1>5. Newest(latest) /\ latest # 0
  BY <1>1 DEF LatestThere, Newest, RcuTyped, RcuTypeOK
<1>6. LatestThere'
  BY <1>1, <1>5 DEF LatestThere, Newest, Pending
<1> QED BY <1>2, <1>3, <1>4, <1>6

-----------------------------------------------------------------------------
\* No more snapshots than Len(lates) - i come after the i-th of those that have been
\* the latest, as long as all that come after have been the latest as well.
LEMMA FewAfter ==
  ASSUME RcuTyped, Numbered, NEW i \in 1..Len(lates), NEW S, S \subseteq ToSet(lates),
         \A m \in S : m > lates[i]
  PROVE  IsFiniteSet(S) /\ Cardinality(S) <= Len(lates) - i
<1> USE DEF RcuTyped
<1> DEFINE K == (i + 1)..Len(lates)
           T == {lates[k] : k \in K}
<1>1. IsFiniteSet(K) /\ Cardinality(K) = Len(lates) - i
  BY FS_Interval
<1>2. IsFiniteSet(T) /\ Cardinality(T) <= Cardinality(K)
  <2>1. [k \in K |-> lates[k]] \in Surjection(K, T)
    BY DEF Surjection
  <2> QED BY <1>1, <2>1, FS_Surjection
<1>3. S \subseteq T
  <2> SUFFICES ASSUME NEW m \in S PROVE m \in T
    OBVIOUS
  <2>1. PICK k \in 1..Len(lates) : lates[k] = m
    BY DEF ToSet
  <2>2. ~ (k < i) /\ k # i
    BY <2>1 DEF Numbered
  <2> QED BY <2>1, <2>2
<1>4. IsFiniteSet(S) /\ Cardinality(S) <= Cardinality(T) /\ Cardinality(T) \in Nat
      /\ Cardinality(S) \in Nat
  BY <1>2, <1>3, FS_Subset, FS_CardinalityType
<1> QED BY <1>1, <1>2, <1>4

\* garbage_collection removes one of the older snapshots, if any.
LEMMA CollectTakes ==
  ASSUME IInv, Collect
  PROVE  \/ Ended /\ UNCHANGED <<snaps, expired>>
         \/ \E n \in Collectable :
              /\ snaps' = [m \in DOMAIN snaps \ {n} |-> snaps[m]] /\ n # latest
              /\ expired' = expired \ {n} /\ UNCHANGED rcuProc
<1> USE DEF IInv
<1>1. CASE Collectable \cap expired = {}
  BY <1>1 DEF Collect
<1>2. CASE Collectable \cap expired # {}
  <2>1. PICK n \in Collectable :
          /\ snaps' = [m \in DOMAIN snaps \ {n} |-> snaps[m]]
          /\ expired' = expired \ {n} /\ UNCHANGED rcuProc
    <3>1. Min(Collectable \cap expired) \in Collectable
      <4>1. Collectable \cap expired \subseteq Nat
        BY DEF RcuTyped, RcuTypeOK, Collectable
      <4> QED BY <1>2, <4>1, MinIn
    <3> QED BY <1>2, <3>1 DEF Collect
  <2>2. n # latest
    <3>1. Newest(latest)
      BY DEF Collect, LatestThere
    <3>2. {m \in DOMAIN snaps : m > latest} = {}
      BY <3>1 DEF Newest, RcuTyped, RcuTypeOK
    <3> QED BY <3>2, FS_EmptySet, Bounds DEF Collectable
  <2> QED BY <2>1, <2>2
<1> QED BY <1>1, <1>2

\* garbage_collection.
LEMMA CollectKeeps == ASSUME IInv, Collect PROVE IInv'
<1> USE DEF IInv, rcuEnv
<1>1. /\ syncPc = "collect"
      /\ UNCHANGED <<user, dir, userNew, latest, latestNew, update, verify, server, lates, skipped>>
  BY DEF Collect
<1>2. CASE Ended /\ UNCHANGED <<snaps, expired>>
  BY <1>1, <1>2, EndedKeeps DEF RcuTyped, RcuTypeOK
<1>3. ASSUME NEW n \in Collectable,
             snaps' = [m \in DOMAIN snaps \ {n} |-> snaps[m]], n # latest,
             expired' = expired \ {n}, UNCHANGED rcuProc
      PROVE  IInv'
  <2>1. /\ snaps' = [m \in DOMAIN snaps \ {n} |-> snaps[m]] /\ expired' = expired \ {n}
        /\ UNCHANGED <<syncPc, canonical, migrating, ready, stamp, same, mirror, result>>
    BY <1>3 DEF rcuProc, rcuProcRest, rsyncProc
  <2>2. n \in DOMAIN snaps /\ Cardinality({m \in DOMAIN snaps : m > n}) > Spare
    BY <2>1 DEF Collectable
  <2>3. /\ DOMAIN snaps' = DOMAIN snaps \ {n}
        /\ \A m \in DOMAIN snaps' : snaps'[m] = snaps[m]
    BY <2>1
  <2>4. DOMAIN snaps \subseteq Nat \ {0} /\ latest \in Nat /\ lates \in Seq(Nat)
    BY DEF RcuTyped, RcuTypeOK
  <2>5. Newest(latest) /\ latest # n
    BY <1>1, <1>3 DEF LatestThere
  <2>6. Newest(latest)'
    BY <1>1, <2>3, <2>5 DEF Newest
  <2>7. RcuTyped' /\ CopyThere' /\ UpdateFits'
    BY <1>1, <2>1, <2>3 DEF RcuTyped, RcuTypeOK, CopyThere, UpdateFits
  <2>8. AllWhole'
    BY <1>1, <2>1, <2>3 DEF AllWhole, StampTrue, Sound
  <2>9. LatestThere'
    BY <1>1, <2>1, <2>4, <2>5, <2>6 DEF LatestThere, Pending, Newest
  <2>10. Numbered'
    <3>1. snaps' # << >>
      BY <2>6 DEF Newest
    <3>2. \A t \in Nat : Newest(t)' => t = latest
      BY <1>1, <2>4, <2>6 DEF Newest
    <3> QED BY <1>1, <2>4, <2>5, <2>6, <3>1, <3>2 DEF Numbered
  <2>11. LastKept'
    <3> SUFFICES ASSUME NEW i \in 1..Len(lates), Len(lates) - i <= Spare,
                        OthersWereLatest(i)', lates[i] \notin DOMAIN snaps'
                 PROVE  FALSE
      BY <1>1 DEF LastKept
    <3> DEFINE S == {m \in DOMAIN snaps : m > n}
    <3>1. \A m \in DOMAIN snaps \ {n} : m > lates[i] => m \in ToSet(lates)
      BY <1>1, <2>1, <2>3 DEF OthersWereLatest, Pending
    <3>2. lates[i] \in Nat /\ n \in Nat
      BY <2>2, <2>4
    <3>3. n >= lates[i]
      <4>1. CASE lates[i] \in DOMAIN snaps
        BY <2>3, <3>2, <4>1
      <4>2. CASE lates[i] \notin DOMAIN snaps
        <5>1. ~ OthersWereLatest(i)
          BY <4>2 DEF LastKept
        <5> QED BY <1>1, <2>4, <3>1, <3>2, <5>1 DEF OthersWereLatest, Pending
      <4> QED BY <4>1, <4>2
    <3>4. S \subseteq ToSet(lates) /\ \A m \in S : m > lates[i]
      BY <2>4, <3>1, <3>2, <3>3
    <3>5. Cardinality(S) <= Len(lates) - i /\ Cardinality(S) \in Nat
      <4> HIDE DEF S
      <4> QED BY <3>4, FewAfter, FS_CardinalityType
    <3> QED BY <2>2, <2>4, <3>5, Bounds
  <2> QED BY <2>7, <2>8, <2>9, <2>10, <2>11
<1> QED BY <1>2, <1>3, CollectTakes

-----------------------------------------------------------------------------
\* The invariant holds at first ...
LEMMA InitIInv == RcuInit => IInv
<1> SUFFICES ASSUME RcuInit PROVE IInv
  OBVIOUS
<1> USE DEF RcuInit
<1>1. DOMAIN snaps = {} /\ Len(lates) = 0 /\ lates \in Seq(Nat)
  OBVIOUS
<1>2. RcuTyped
  <2>1. Copy(1, 1) \in Content /\ NoCopy \in Content /\ 1 \in 1..MaxVersions
    BY Bounds, CopyIn, NoCopyIn DEF Absent
  <2>2. RcuTypeOK
    <3>1. ready \in BOOLEAN /\ same \in BOOLEAN /\ migrating \in BOOLEAN /\ verify \in BOOLEAN
      BY Zenon
    <3>2. userNew \in BOOLEAN /\ expired \subseteq DOMAIN snaps /\ skipped \subseteq Nat \ {0}
      BY Zenon
    <3> QED BY <1>1, <2>1, <3>1, <3>2, Bounds DEF RcuTypeOK
  <2> QED BY <1>1, <2>1, <2>2 DEF RcuTyped, Pcs
<1>3. AllWhole /\ CopyThere /\ UpdateFits
  <2>1. Sound(dir)
    BY Bounds, CopyIn DEF Sound, Absent, Rest, Empty
  <2> QED BY <1>1, <2>1 DEF AllWhole, StampTrue, CopyThere, UpdateFits
<1>4. Numbered /\ LatestThere /\ LastKept
  BY <1>1 DEF Numbered, LatestThere, LastKept, Pending
<1> QED BY <1>2, <1>3, <1>4 DEF IInv

\* ... and every step keeps it.
LEMMA StepIInv == IInv /\ [RcuNext]_rcuVars => IInv'
<1> SUFFICES ASSUME IInv, [RcuNext]_rcuVars PROVE IInv'
  OBVIOUS
<1>1. CASE AbortUpdate \/ (Synced /\ Ended) \/ Fails \/ CrashSync
  <2>1. /\ Ended
        /\ UNCHANGED <<user, dir, latest, latestNew, userNew, snaps, expired, verify, server, lates, skipped>>
        /\ update' \in {update, NoCopy}
    BY <1>1 DEF AbortUpdate, Synced, Fails, CrashSync, rcuDisk, rcuEnv
  <2>2. update' \in Content
    <3>1. update \in Content
      BY DEF IInv, RcuTyped, RcuTypeOK
    <3> QED BY <2>1, <3>1, NoCopyIn
  <2> QED BY <2>1, <2>2, EndedKeeps
<1>2. CASE RcuNext
  BY <1>1, <1>2, StartKeeps, QuietKeeps, DownloadKeeps, EnvKeeps, CommitSnapshotKeeps, CommitLatestKeeps,
     CommitUserKeeps, CollectKeeps DEF RcuNext, Sync
<1>3. CASE UNCHANGED rcuVars
  BY <1>3 DEF rcuVars, rcuDisk, rcuProc, rcuProcRest, rsyncProc, rcuEnv, IInv, RcuTyped, RcuTypeOK,
      CopyThere, AllWhole, StampTrue, Sound, UpdateFits, Fetched, Numbered, LatestThere, MayReplace,
      LastKept, OthersWereLatest, Newest
<1> QED BY <1>2, <1>3

\* The inductive invariant holds in every state of every behaviour.
THEOREM RcuInvariant == RcuSpec => []IInv
BY InitIInv, StepIInv, PTL DEF RcuSpec

\* "Updates occur by atomic replacement of the symlink", and "this protects the previous
\* latest snapshot from being removed immediately": wherever emerge dies and whatever the
\* mirrors do, what is found behind the link is whole, unless a sync that does not verify
\* has found the location current after a transfer that stopped; timestamps are true; and
\* the last Spare snapshots that have been the latest are kept (hardlink_rcu.py:33-52).
THEOREM SnapshotsAreKept == RcuSpec => []SnapshotsKept
<1>1. IInv => SnapshotsKept
  <2> SUFFICES ASSUME IInv PROVE SnapshotsKept
    OBVIOUS
  <2>1. AlwaysWhole /\ StampTrue
    BY DEF IInv, AlwaysWhole, LatestThere, AllWhole
  <2>2. PreviousKept
    BY DEF IInv, LastKept, OthersWereLatest, PreviousKept
  <2> QED BY <2>1, <2>2 DEF SnapshotsKept
<1> QED BY <1>1, RcuInvariant, PTL

\* What is found behind the link stays, or a later version takes its place: as long as the
\* sync knew the timestamp of what it replaces, and but for the unfinished update that a
\* sync may commit that does not verify (rsync.py:386-411, 482).
THEOREM VersionsNeverGoBack == RcuSpec => NeverBack
<1> DEFINE Kept == \/ Visible' >= Visible
                   \/ stamp # Visible
                   \/ ~ verify /\ latest' \in skipped
<1>1. IInv /\ [RcuNext]_rcuVars => [user = "link" => user' = "link" /\ Kept]_rcuVars
  <2> SUFFICES ASSUME IInv, RcuNext, user = "link"
               PROVE  user' = "link" /\ Kept
    OBVIOUS
  <2> USE DEF IInv
  <2>1. latest \in DOMAIN snaps /\ snaps[latest].files \in Int /\ latest \in Nat \ {0}
    BY Bounds DEF LatestThere, RcuTyped, RcuTypeOK, Content, Absent
  <2>2. user' = "link"
    BY DEF RcuNext, Sync, StartSync, InitUpdate, CopyStarts, CopyEnds, MigrateByRename, MigrateByCopy,
         DoRsync, Download, Synced, AbortUpdate, CommitSnapshot, CommitLatest, CommitUser, Collect, Fails,
         CrashSync, ServerUpdates, Expire, rcuDisk, RcuGoto, AllWhole
  <2>3. Visible = snaps[latest].files /\ Visible' = snaps'[latest'].files
    BY <2>2 DEF Visible
  <2>4. CASE latest' = latest /\ snaps'[latest].files = snaps[latest].files
    BY <2>1, <2>2, <2>3, <2>4
  <2>5. CASE CommitLatest /\ syncPc = "rename"
    <3>1. PICK t \in Nat : Newest(t) /\ latestNew = t /\ MayReplace(t)
      BY <2>5 DEF LatestThere, Pending
    <3>2. latest' = t /\ snaps' = snaps
      BY <2>5, <3>1 DEF CommitLatest, RcuGoto
    <3>3. snaps[t].files \in Int
      BY <3>1, Bounds DEF Newest, RcuTyped, RcuTypeOK, Content, Absent
    <3> QED BY <2>1, <2>2, <2>3, <3>1, <3>2, <3>3 DEF MayReplace
  <2>6. ~ (CommitLatest /\ syncPc = "rename") => latest' = latest /\ snaps'[latest].files = snaps[latest].files
    <3>1. CASE CommitSnapshot
      <4>1. NewId # latest
        BY <2>1, NewIdFresh
      <4> QED BY <2>1, <3>1, <4>1 DEF CommitSnapshot
    <3>2. CASE Collect
      BY <2>1, <3>2, CollectTakes DEF Collect
    <3>3. CASE Download
      <4>1. latest' = latest /\ (snaps' = snaps \/ snaps' = [snaps EXCEPT ![latest].chk = 0])
        BY <3>3 DEF Download
      <4>2. snaps[latest] \in Content
        BY <2>1 DEF RcuTyped, RcuTypeOK
      <4> QED BY <2>1, <4>1, <4>2 DEF Content
    <3>4. \/ CommitSnapshot \/ Collect \/ Download \/ (CommitLatest /\ syncPc = "rename")
          \/ snaps' = snaps /\ latest' = latest
      BY DEF RcuNext, Sync, StartSync, InitUpdate, CopyStarts, CopyEnds, MigrateByRename, MigrateByCopy,
           DoRsync, Synced, AbortUpdate, CommitLatest, CommitUser, Fails, CrashSync, ServerUpdates, Expire,
           rcuDisk, RcuGoto
    <3> QED BY <3>1, <3>2, <3>3, <3>4
  <2> QED BY <2>4, <2>5, <2>6
<1> QED BY <1>1, RcuInvariant, PTL DEF RcuSpec, NeverBack

-----------------------------------------------------------------------------
(***************************************************************************)
(* Binary packages: the index of $PKGDIR and the files in it, for any      *)
(* number of processes, build ids, operations and deaths.                  *)
(***************************************************************************)
Places == {"idle", "walk", "scan", "relock", "rescan", "probe", "create", "make", "inject",
           "move", "write", "choose", "open", "rewrite", "stat", "remove", "unindex", "unlink"}
Operations == {"none", "build", "fetch", "package", "update"}
Contents == [meta : Nat, image : Nat, rev : Nat]
Entries  == [meta : Nat, of : Contents]
Trees    == [at : Places, op : Operations, populated : BOOLEAN, known : [Ids -> Entries],
             listing : SUBSET Ids, target : Ids, pkg : Contents]

BinTyped ==
  /\ setting \in [multi : BOOLEAN, trusted : BOOLEAN, signed : BOOLEAN]
  /\ file \in [Ids -> Contents] /\ index \in [Ids -> Entries]
  /\ indexLock \in Users \cup {NoUser}
  /\ tree \in [Users -> Trees]
  /\ count \in [work : Nat, builds : Nat, updates : Nat, deaths : Nat]
  /\ stray \subseteq Ids /\ added \subseteq Nat

\* Which operations pass where.
Course ==
  \A u \in Users :
    /\ tree[u].at \in {"probe", "create", "make", "move"} => tree[u].op # "update"
    /\ tree[u].at \in {"choose", "open", "rewrite", "stat", "remove", "unindex", "unlink"}
       => tree[u].op = "update"
    /\ tree[u].op = "update" /\ setting.signed =>
         tree[u].at \notin {"rewrite", "stat", "inject", "write"}
    /\ tree[u].at \in {"remove", "unindex", "unlink"} => setting.signed
    /\ tree[u].at \in {"probe", "create"} => setting.multi

\* What is done with the lock of the index.
HasLock(u) ==
  \/ tree[u].at \in {"rescan", "move", "write", "unindex", "unlink"}
  \/ tree[u].op = "package" /\ tree[u].at \in {"probe", "create"}
LockTaken == \A u \in Users : HasLock(u) => indexLock = u

\* A package that has been made is not in its place yet.
HasMade(u) ==
  tree[u].op # "update" /\ \/ tree[u].at \in {"inject", "move", "write"}
                           \/ tree[u].op = "package" /\ tree[u].at \in {"probe", "create"}
MadeWhole ==
  \A u \in Users :
    HasMade(u) => Complete(tree[u].pkg) /\ tree[u].pkg.meta = tree[u].pkg.image

\* It is in its place, and remains there until its entry has been written.
MovedThere ==
  \A u \in Users : tree[u].op # "update" /\ tree[u].at = "write" =>
    /\ Complete(file[tree[u].target])
    /\ setting.multi => file[tree[u].target].image = tree[u].pkg.image

\* A package that is being updated remains, and so does its image.
Updating(u) == tree[u].op = "update" /\ tree[u].at \in {"rewrite", "stat", "inject", "write"}
UpdatedThere ==
  \A u \in Users : Updating(u) =>
    /\ Complete(file[tree[u].target])
    /\ setting.multi => tree[u].pkg.meta = file[tree[u].target].image

\* The number of a package belongs to the process that has created the empty file.
HasNumber(u) ==
  /\ tree[u].op # "update"
  /\ tree[u].at = "move" \/ (tree[u].op # "package" /\ tree[u].at \in {"make", "inject"})
NumberHeld ==
  setting.multi /\ ~setting.signed =>
    /\ \A u \in Users : HasNumber(u) => file[tree[u].target] = Placeholder
    /\ \A u, v \in Users :
         HasNumber(u) /\ HasNumber(v) /\ tree[u].target = tree[v].target => u = v

\* A removal has taken the entry away already.
Unindexed == \A u \in Users : tree[u].at = "unlink" => index[tree[u].target] = NoEntry

MetaKnown ==
  setting.multi =>
    \A u \in Users, q \in Ids : tree[u].known[q].meta = tree[u].known[q].of.image

BinInv ==
  /\ BinTyped /\ Course /\ LockTaken /\ MadeWhole /\ MovedThere /\ UpdatedThere
  /\ NumberHeld /\ Unindexed /\ MetaKnown
  /\ IndexTrue /\ InstancesKept /\ 0 \notin added

-----------------------------------------------------------------------------
\* Constants and records have their types.
LEMMA BinTypes ==
  /\ 1 \in Ids /\ Ids \subseteq Nat
  /\ Missing \in Contents /\ Placeholder \in Contents /\ NoEntry \in Entries
  /\ Fresh \in Trees
  /\ \A n \in Nat : Pkg(n) \in Contents
  /\ \A n \in Nat, x \in Contents : Entry(n, x) \in Entries
<1>1. 1 \in Ids /\ Ids \subseteq Nat
  BY BinTreeAssumption DEF Ids
<1>2. Missing \in Contents /\ Placeholder \in Contents /\ \A n \in Nat : Pkg(n) \in Contents
  BY DEF Missing, Placeholder, Contents, Pkg
<1>3. NoEntry \in Entries /\ \A n \in Nat, x \in Contents : Entry(n, x) \in Entries
  BY <1>2 DEF NoEntry, Entry, Entries
<1> QED BY <1>1, <1>2, <1>3 DEF Fresh, Trees, Places, Operations

\* The types of the fields that the proofs look at.
LEMMA Fields ==
  /\ \A x \in Contents : x.meta \in Nat /\ x.image \in Nat /\ x.rev \in Nat
  /\ \A r \in Trees : r.target \in Ids /\ r.pkg \in Contents /\ r.known \in [Ids -> Entries]
BY DEF Contents, Trees

\* populate finds true entries.
LEMMA FoundIs ==
  ASSUME BinTyped, NEW paths
  PROVE  /\ Found(paths) \in [Ids -> Entries]
         /\ \A q \in Ids :
              /\ q \in paths /\ Complete(file[q]) => Found(paths)[q].of = file[q]
              /\ q \notin paths \/ ~Complete(file[q]) => Found(paths)[q] = NoEntry
         /\ MetadataTrue /\ setting.multi =>
              \A q \in Ids : Found(paths)[q].meta = Found(paths)[q].of.image
<1> USE DEF BinTyped
<1>1. \A q \in Ids : Found(paths)[q] =
        IF q \notin paths \/ ~Complete(file[q]) THEN NoEntry
        ELSE IF Matched(q) THEN index[q] ELSE Entry(file[q].meta, file[q])
  BY DEF Found
<1>2. \A q \in Ids : Entry(file[q].meta, file[q]) \in Entries
  BY BinTypes DEF Contents
<1>3. Found(paths) \in [Ids -> Entries]
  BY <1>2, BinTypes DEF Found
<1>4. NoEntry.meta = 0 /\ NoEntry.of.image = 0
  BY DEF NoEntry, Entry, Missing, Pkg
<1>5. \A q \in Ids : Entry(file[q].meta, file[q]).of = file[q] /\ Entry(file[q].meta, file[q]).meta = file[q].meta
  BY DEF Entry
<1> QED BY <1>1, <1>3, <1>4, <1>5 DEF Matched, MetadataTrue

\* The number that is tried next is one of Ids.
LEMMA NumberIn ==
  /\ \A u : Candidates(u) # {} => Min(Candidates(u)) \in Ids
  /\ \A n : Unused(n) # {} => Min(Unused(n)) \in Ids
<1>1. \A n : Unused(n) \subseteq Ids
  BY DEF Unused
<1>2. \A u : Candidates(u) \subseteq Ids
  BY <1>1, BinTypes DEF Candidates
<1> QED BY <1>1, <1>2, MinIn, BinTypes

\* Changes of what a process knows keep its type.
LEMMA TreeWith ==
  ASSUME NEW t \in [Users -> Trees], NEW u \in Users
  PROVE  /\ \A place \in Places : [t EXCEPT ![u].at = place] \in [Users -> Trees]
         /\ \A q \in Ids, place \in Places :
              [t EXCEPT ![u].target = q, ![u].at = place] \in [Users -> Trees]
         /\ \A q \in Ids : [t EXCEPT ![u].target = q] \in [Users -> Trees]
         /\ \A x \in Contents, place \in Places :
              [t EXCEPT ![u].pkg = x, ![u].at = place] \in [Users -> Trees]
<1>1. ASSUME NEW place \in Places PROVE [t EXCEPT ![u].at = place] \in [Users -> Trees]
  BY DEF Trees
<1>2. ASSUME NEW q \in Ids PROVE [t EXCEPT ![u].target = q] \in [Users -> Trees]
  BY DEF Trees
<1>3. ASSUME NEW q \in Ids, NEW place \in Places
      PROVE  [t EXCEPT ![u].target = q, ![u].at = place] \in [Users -> Trees]
  <2>1. [[t[u] EXCEPT !.target = q] EXCEPT !.at = place] \in Trees
    BY DEF Trees
  <2> QED BY <2>1
<1>4. ASSUME NEW x \in Contents, NEW place \in Places
      PROVE  [t EXCEPT ![u].pkg = x, ![u].at = place] \in [Users -> Trees]
  <2>1. [[t[u] EXCEPT !.pkg = x] EXCEPT !.at = place] \in Trees
    BY DEF Trees
  <2> QED BY <2>1
<1> QED BY <1>1, <1>2, <1>3, <1>4

\* At first everything has its type.
LEMMA BinInitTyped == BinTreeInit => BinTyped
BY BinTypes, BinTreeAssumption DEF BinTreeInit, BinTyped, NoUser

\* A process that is gone leaves everything well typed.
LEMMA GoneTyped ==
  ASSUME BinTyped, NEW u \in Users, Gone(u)
  PROVE  /\ tree' \in [Users -> Trees] /\ indexLock' \in Users \cup {NoUser} /\ stray' \subseteq Ids
BY BinTypes DEF BinTyped, Gone

\* And so does every step.
LEMMA BinNextTyped ==
  ASSUME BinTyped, [BinTreeNext]_binVars
  PROVE  BinTyped'
<1> USE BinTypes DEF BinTyped, binDisk, binHist
<1>1. CASE UNCHANGED binVars
  BY <1>1 DEF binVars
<1>2. ASSUME NEW u \in Users, NEW op \in {"build", "fetch", "package", "update"}, Begin(u, op)
      PROVE  BinTyped'
  BY <1>2 DEF Begin, At, FirstStep, Trees, Places, Operations
<1>3. ASSUME NEW u \in Users, Walk(u) PROVE BinTyped'
  BY <1>3 DEF Walk, At, Populated, FirstStep, Trees, Places, Operations
<1>4. ASSUME NEW u \in Users, Scan(u) PROVE BinTyped'
  BY <1>4, FoundIs, GoneTyped DEF Scan, At, Populated, FirstStep, Trees, Places, Operations
<1>5. ASSUME NEW u \in Users, Relock(u) PROVE BinTyped'
  BY <1>5, TreeWith DEF Relock, TakeLock, Goto, Places
<1>6. ASSUME NEW u \in Users, Rescan(u) PROVE BinTyped'
  BY <1>6, FoundIs DEF Rescan, Rescanned, At, Populated, FirstStep, Trees, Places, Operations
<1>7. ASSUME NEW u \in Users, Probe(u) PROVE BinTyped'
  <2> DEFINE q == Min(Candidates(u))
  <2>1. q \in Ids
    BY <1>7, NumberIn DEF Probe
  <2>2. tree' = [tree EXCEPT ![u].target = q, ![u].at = "create"]
    BY <1>7 DEF Probe
  <2> HIDE DEF q
  <2>3. tree' \in [Users -> Trees]
    BY <2>1, <2>2, TreeWith DEF Places
  <2> QED BY <1>7, <2>3 DEF Probe
<1>8. ASSUME NEW u \in Users, Create(u) PROVE BinTyped'
  <2>1. CASE Taken(tree[u].target)
    <3> DEFINE q == Min(Unused(NextId(u)))
    <3>1. q \in Ids
      BY <1>8, <2>1, NumberIn DEF Create
    <3>2. tree' = [tree EXCEPT ![u].target = q]
      BY <1>8, <2>1 DEF Create
    <3> HIDE DEF q
    <3>3. tree' \in [Users -> Trees]
      BY <3>1, <3>2 DEF Trees
    <3> QED BY <1>8, <2>1, <3>3 DEF Create
  <2>2. CASE ~Taken(tree[u].target)
    <3>1. PICK place \in {"move", "make"} : tree' = [tree EXCEPT ![u].at = place]
      BY <1>8, <2>2 DEF Create, Goto
    <3>2. tree' \in [Users -> Trees]
      BY <3>1, TreeWith DEF Places
    <3>3. file' \in [Ids -> Contents]
      BY <1>8, <2>2 DEF Create
    <3> QED BY <1>8, <3>2, <3>3 DEF Create
  <2> QED BY <2>1, <2>2
<1>9. ASSUME NEW u \in Users, Make(u) PROVE BinTyped'
  BY <1>9, SMTT(40) DEF Make, At, Trees, Places
<1>10. ASSUME NEW u \in Users, MakeFails(u) PROVE BinTyped'
  BY <1>10 DEF MakeFails, Done, At, Trees, Places
<1>11. ASSUME NEW u \in Users, Inject(u) PROVE BinTyped'
  <2>1. PICK place \in Places : TakeLock(u, "inject", place)
    <3>1. \E place \in {"write", "probe", "move"} :
             place = CASE tree[u].op = "update" -> "write"
                       [] tree[u].op = "package" /\ setting.multi -> "probe"
                       [] OTHER -> "move"
      OBVIOUS
    <3> QED BY <1>11, <3>1 DEF Inject, Places
  <2> QED BY <2>1 DEF TakeLock, Goto, Trees
<1>12. ASSUME NEW u \in Users, Move(u) PROVE BinTyped'
  <2>1. tree' = [tree EXCEPT ![u].at = "write"]
    BY <1>12 DEF Move, Goto
  <2>2. tree \in [Users -> Trees] /\ "write" \in Places
    BY DEF Places
  <2>3. tree' \in [Users -> Trees]
    BY ONLY <2>1, <2>2, TreeWith, u \in Users
  <2>4. tree[u] \in Trees
    OBVIOUS
  <2>5. tree[u].target \in Ids /\ tree[u].pkg \in Contents
    BY ONLY <2>4 DEF Trees
  <2>6. file' \in [Ids -> Contents]
    BY <1>12, <2>5 DEF Move
  <2> QED BY <1>12, <2>3, <2>6 DEF Move
<1>13. ASSUME NEW u \in Users, Write(u) PROVE BinTyped'
  <2> DEFINE q == tree[u].target
             e == Entry(tree[u].pkg.meta, file[q])
             known == [tree[u].known EXCEPT ![q] = e]
  <2>1. q \in Ids /\ e \in Entries /\ file[q].image \in Nat
    BY DEF Trees, Contents
  <2>2. CASE file[q] = Missing
    BY <1>13, <2>2, GoneTyped DEF Write
  <2>3. CASE file[q] # Missing
    <3>1. index' = [index EXCEPT ![q] = e] /\ Done(u, known)
      BY <1>13, <2>3 DEF Write, Loaded
    <3>2. known \in [Ids -> Entries]
      BY <2>1 DEF Trees
    <3> HIDE DEF q, e, known
    <3>3. tree' \in [Users -> Trees]
      BY <3>1, <3>2 DEF Done, Trees
    <3>4. index' \in [Ids -> Entries]
      BY <2>1, <3>1
    <3> QED BY <1>13, <2>1, <2>3, <3>3, <3>4 DEF Write, q
  <2> QED BY <2>2, <2>3
<1>14. ASSUME NEW u \in Users, ChoosePkg(u) PROVE BinTyped'
  <2>1. CASE Done(u, tree[u].known)
    BY <1>14, <2>1 DEF ChoosePkg, Done, Trees
  <2>2. CASE \E q \in Known(u) : tree' = [tree EXCEPT ![u].target = q, ![u].at = "open"]
    <3>1. PICK q \in Ids : tree' = [tree EXCEPT ![u].target = q, ![u].at = "open"]
      BY <2>2 DEF Known
    <3>2. tree' \in [Users -> Trees]
      BY <3>1, TreeWith DEF Places
    <3> QED BY <1>14, <3>2 DEF ChoosePkg
  <2> QED BY <1>14, <2>1, <2>2 DEF ChoosePkg
<1>15. ASSUME NEW u \in Users, Open(u) PROVE BinTyped'
  BY <1>15, GoneTyped DEF Open, At, Trees, Places
<1>16. ASSUME NEW u \in Users, Rewrite(u) PROVE BinTyped'
  <2> DEFINE q == tree[u].target
             x == [meta |-> tree[u].pkg.meta, image |-> file[q].image, rev |-> count.updates + 1]
  <2>1. CASE ~Complete(file[q])
    BY <1>16, <2>1, GoneTyped DEF Rewrite
  <2>2. CASE Complete(file[q])
    <3>1. q \in Ids /\ x \in Contents
      <4>1. tree[u] \in Trees /\ count.updates \in Nat
        OBVIOUS
      <4>2. q \in Ids /\ tree[u].pkg.meta \in Nat
        BY <4>1, Fields
      <4>3. file[q].image \in Nat
        BY <4>2, Fields
      <4>4. count.updates + 1 \in Nat
        BY <4>1
      <4> QED BY <4>2, <4>3, <4>4 DEF Contents
    <3>2. file' = [file EXCEPT ![q] = x] /\ tree' = [tree EXCEPT ![u].at = "stat"]
      BY <1>16, <2>2 DEF Rewrite, Goto
    <3> HIDE DEF q, x
    <3>3. file' \in [Ids -> Contents]
      BY <3>1, <3>2
    <3>4. tree \in [Users -> Trees] /\ "stat" \in Places
      BY DEF Places
    <3>5. tree' \in [Users -> Trees]
      BY ONLY <3>2, <3>4, TreeWith, u \in Users
    <3> QED BY <1>16, <2>2, <3>3, <3>5 DEF Rewrite, q
  <2> QED BY <2>1, <2>2
<1>17. ASSUME NEW u \in Users, Stat(u) PROVE BinTyped'
  <2> DEFINE q == tree[u].target
  <2>1. q \in Ids /\ file[q] \in Contents
    BY DEF Trees
  <2>2. CASE Complete(file[q])
    <3>1. tree' = [tree EXCEPT ![u].pkg = file[q], ![u].at = "inject"]
      BY <1>17, <2>2 DEF Stat
    <3> DEFINE x == file[q]
    <3>2. x \in Contents /\ "inject" \in Places /\ tree \in [Users -> Trees]
      BY <2>1 DEF Places
    <3> HIDE DEF q, x
    <3>3. [tree EXCEPT ![u].pkg = x, ![u].at = "inject"] \in [Users -> Trees]
      BY ONLY <3>2, TreeWith, u \in Users
    <3>4. tree' \in [Users -> Trees]
      BY ONLY <3>1, <3>3 DEF x
    <3> QED BY <1>17, <2>2, <3>4 DEF Stat, q
  <2>3. CASE ~Complete(file[q])
    <3>1. tree' = [tree EXCEPT ![u] = [Fresh EXCEPT !.populated = TRUE, !.known = tree[u].known]]
      BY <1>17, <2>3 DEF Stat, Done
    <3>2. tree' \in [Users -> Trees]
      BY <3>1 DEF Trees
    <3> QED BY <1>17, <2>1, <2>3, <3>2 DEF Stat
  <2> QED BY <2>2, <2>3
<1>18. ASSUME NEW u \in Users, LockToRemove(u) PROVE BinTyped'
  BY <1>18, TreeWith DEF LockToRemove, TakeLock, Goto, Places
<1>19. ASSUME NEW u \in Users, Unindex(u) PROVE BinTyped'
  BY <1>19 DEF Unindex, At, Trees, Places
<1>20. ASSUME NEW u \in Users, Unlink(u) PROVE BinTyped'
  BY <1>20 DEF Unlink, Done, At, Trees
<1>21. ASSUME NEW u \in Users, Exit(u) PROVE BinTyped'
  BY <1>21, GoneTyped DEF Exit
<1>22. ASSUME NEW u \in Users, Kill(u) PROVE BinTyped'
  BY <1>22, GoneTyped DEF Kill
<1> QED BY <1>1, <1>2, <1>3, <1>4, <1>5, <1>6, <1>7, <1>8, <1>9, <1>10, <1>11, <1>12,
           <1>13, <1>14, <1>15, <1>16, <1>17, <1>18, <1>19, <1>20, <1>21, <1>22
        DEF BinTreeNext

-----------------------------------------------------------------------------
\* What a step leaves of the process that makes it, and of the others.
Now(u, at, op, target, pkg, known) ==
  /\ \A v \in Users : v # u => tree'[v] = tree[v]
  /\ tree'[u].at = at /\ tree'[u].op = op /\ tree'[u].target = target
  /\ tree'[u].pkg = pkg /\ tree'[u].known = known
Left(u, known) == Now(u, "idle", "none", 1, Missing, known)
Unknown == [q \in Ids |-> NoEntry]
\* What it leaves on the disk when it is gone.
LetGo(u) ==
  /\ indexLock' = (IF indexLock = u THEN NoUser ELSE indexLock)
  /\ stray' = stray \cup {q \in Ids : InFlight(u, q)}

\* What the assignments to tree in the actions make of the process.
LEMMA NowIs ==
  ASSUME tree \in [Users -> Trees], NEW u \in Users
  PROVE  LET r == tree[u] IN
         /\ \A place : tree' = [tree EXCEPT ![u].at = place]
              => Now(u, place, r.op, r.target, r.pkg, r.known)
         /\ \A place, q : tree' = [tree EXCEPT ![u].target = q, ![u].at = place]
              => Now(u, place, r.op, q, r.pkg, r.known)
         /\ \A q : tree' = [tree EXCEPT ![u].target = q]
              => Now(u, r.at, r.op, q, r.pkg, r.known)
         /\ \A place, x : tree' = [tree EXCEPT ![u].pkg = x, ![u].at = place]
              => Now(u, place, r.op, r.target, x, r.known)
         /\ \A place, l : tree' = [tree EXCEPT ![u].listing = l, ![u].at = place]
              => Now(u, place, r.op, r.target, r.pkg, r.known)
         /\ \A place, l, k : tree' = [tree EXCEPT ![u].known = k, ![u].listing = l, ![u].at = place]
              => Now(u, place, r.op, r.target, r.pkg, k)
         /\ \A place, q : tree' = [tree EXCEPT ![u].known[q] = NoEntry, ![u].at = place]
              => Now(u, place, r.op, r.target, r.pkg, [r.known EXCEPT ![q] = NoEntry])
         /\ \A place, o, q : tree' = [tree EXCEPT ![u].op = o, ![u].target = q, ![u].at = place]
              => Now(u, place, o, q, r.pkg, r.known)
         /\ \A f : Populated(u, f) => Now(u, FirstStep(r.op), r.op, r.target, r.pkg, f)
         /\ \A k : Done(u, k) => Left(u, k)
         /\ Gone(u) => Left(u, Unknown)
<1> USE DEF Now, Left, Trees
<1> DEFINE r == tree[u]
<1>1. \A place : tree' = [tree EXCEPT ![u].at = place]
              => Now(u, place, r.op, r.target, r.pkg, r.known)
  OBVIOUS
<1>2. \A place, q : tree' = [tree EXCEPT ![u].target = q, ![u].at = place]
              => Now(u, place, r.op, q, r.pkg, r.known)
  OBVIOUS
<1>3. \A q : tree' = [tree EXCEPT ![u].target = q]
              => Now(u, r.at, r.op, q, r.pkg, r.known)
  OBVIOUS
<1>4. \A place, x : tree' = [tree EXCEPT ![u].pkg = x, ![u].at = place]
              => Now(u, place, r.op, r.target, x, r.known)
  OBVIOUS
<1>5. \A place, l : tree' = [tree EXCEPT ![u].listing = l, ![u].at = place]
              => Now(u, place, r.op, r.target, r.pkg, r.known)
  OBVIOUS
<1>6. \A place, l, k : tree' = [tree EXCEPT ![u].known = k, ![u].listing = l, ![u].at = place]
              => Now(u, place, r.op, r.target, r.pkg, k)
  OBVIOUS
<1>7. \A place, q : tree' = [tree EXCEPT ![u].known[q] = NoEntry, ![u].at = place]
              => Now(u, place, r.op, r.target, r.pkg, [r.known EXCEPT ![q] = NoEntry])
  OBVIOUS
<1>8. \A place, o, q : tree' = [tree EXCEPT ![u].op = o, ![u].target = q, ![u].at = place]
              => Now(u, place, o, q, r.pkg, r.known)
  OBVIOUS
<1>9. \A f : Populated(u, f) => Now(u, FirstStep(r.op), r.op, r.target, r.pkg, f)
  BY DEF Populated
<1>10. \A k : Done(u, k) => Left(u, k)
  BY DEF Done, Fresh
<1>11. Gone(u) => Left(u, Unknown)
  BY DEF Gone, Fresh, Unknown
<1> QED BY <1>1, <1>2, <1>3, <1>4, <1>5, <1>6, <1>7, <1>8, <1>9, <1>10, <1>11

\* What each action does to the process that takes it.
LEMMA BinMoves ==
  ASSUME BinTyped, NEW u \in Users
  PROVE  LET r == tree[u] IN
         /\ \A op : Begin(u, op) =>
              Now(u, IF r.populated THEN FirstStep(op) ELSE "walk", op, 1, r.pkg, r.known)
         /\ Walk(u) =>
              \/ Now(u, FirstStep(r.op), r.op, r.target, r.pkg, index)
              \/ Now(u, "scan", r.op, r.target, r.pkg, r.known)
         /\ Scan(u) =>
              \/ Gone(u) /\ Left(u, Unknown)
              \/ Now(u, "relock", r.op, r.target, r.pkg, Found(r.listing)) /\ UNCHANGED <<indexLock, stray>>
              \/ Now(u, FirstStep(r.op), r.op, r.target, r.pkg, Found(r.listing)) /\ UNCHANGED <<indexLock, stray>>
         /\ Relock(u) =>
              Now(u, "rescan", r.op, r.target, r.pkg, r.known)
         /\ Rescan(u) =>
              Now(u, FirstStep(r.op), r.op, r.target, r.pkg, Found(Ids))
         /\ Probe(u) =>
              Now(u, "create", r.op, Min(Candidates(u)), r.pkg, r.known)
         /\ Create(u) =>
              IF Taken(r.target) THEN Now(u, "create", r.op, Min(Unused(NextId(u))), r.pkg, r.known)
              ELSE Now(u, IF r.op = "package" THEN "move" ELSE "make", r.op, r.target, r.pkg, r.known)
         /\ Make(u) =>
              Now(u, "inject", r.op, r.target, Pkg(count.builds + 1), r.known)
         /\ MakeFails(u) =>
              Left(u, r.known)
         /\ Inject(u) =>
              /\ indexLock = NoUser /\ indexLock' = u
              /\ \/ r.op = "update" /\ Now(u, "write", r.op, r.target, r.pkg, r.known)
                 \/ r.op = "package" /\ setting.multi /\ Now(u, "probe", r.op, r.target, r.pkg, r.known)
                 \/ r.op # "update" /\ (r.op = "package" => ~setting.multi) /\ Now(u, "move", r.op, r.target, r.pkg, r.known)
         /\ Move(u) =>
              Now(u, "write", r.op, r.target, r.pkg, r.known)
         /\ Write(u) =>
              IF file[r.target] = Missing THEN Gone(u) /\ Left(u, Unknown)
              ELSE Left(u, [r.known EXCEPT ![r.target] = Entry(r.pkg.meta, file[r.target])])
         /\ ChoosePkg(u) =>
              \/ Left(u, r.known)
              \/ \E q \in Ids : file[q] # Missing /\ Now(u, "open", r.op, q, r.pkg, r.known)
         /\ Open(u) =>
              IF ~Complete(file[r.target]) THEN Gone(u) /\ Left(u, Unknown)
              ELSE Now(u, IF setting.signed THEN "remove" ELSE "rewrite", r.op, r.target, file[r.target], r.known)
         /\ Rewrite(u) =>
              IF ~Complete(file[r.target]) THEN Gone(u) /\ Left(u, Unknown)
              ELSE Now(u, "stat", r.op, r.target, r.pkg, r.known)
         /\ Stat(u) =>
              IF Complete(file[r.target]) THEN Now(u, "inject", r.op, r.target, file[r.target], r.known)
              ELSE Left(u, r.known)
         /\ LockToRemove(u) =>
              Now(u, "unindex", r.op, r.target, r.pkg, r.known)
         /\ Unindex(u) =>
              Now(u, "unlink", r.op, r.target, r.pkg, [r.known EXCEPT ![r.target] = NoEntry])
         /\ Unlink(u) =>
              Left(u, r.known)
         /\ Exit(u) =>
              Left(u, Unknown)
         /\ Kill(u) =>
              Left(u, Unknown)
<1> DEFINE r == tree[u]
<1>0. tree \in [Users -> Trees]
  BY DEF BinTyped
<1>1. ASSUME NEW op, Begin(u, op)
      PROVE  Now(u, IF r.populated THEN FirstStep(op) ELSE "walk", op, 1, r.pkg, r.known)
  BY <1>0, <1>1, NowIs DEF Begin
<1>2. ASSUME Walk(u)
      PROVE  \/ Now(u, FirstStep(r.op), r.op, r.target, r.pkg, index)
             \/ Now(u, "scan", r.op, r.target, r.pkg, r.known)
  BY <1>0, <1>2, NowIs DEF Walk, At
<1>3. ASSUME Scan(u)
      PROVE  \/ Gone(u) /\ Left(u, Unknown)
             \/ Now(u, "relock", r.op, r.target, r.pkg, Found(r.listing)) /\ UNCHANGED <<indexLock, stray>>
             \/ Now(u, FirstStep(r.op), r.op, r.target, r.pkg, Found(r.listing)) /\ UNCHANGED <<indexLock, stray>>
  BY <1>0, <1>3, NowIs DEF Scan, At
<1>4. ASSUME Relock(u)
      PROVE  Now(u, "rescan", r.op, r.target, r.pkg, r.known)
  BY <1>0, <1>4, NowIs DEF Relock, TakeLock, Goto, At
<1>5. ASSUME Rescan(u)
      PROVE  Now(u, FirstStep(r.op), r.op, r.target, r.pkg, Found(Ids))
  BY <1>0, <1>5, NowIs DEF Rescan, Rescanned, At
<1>6. ASSUME Probe(u)
      PROVE  Now(u, "create", r.op, Min(Candidates(u)), r.pkg, r.known)
  BY <1>0, <1>6, NowIs DEF Probe, At
<1>7. ASSUME Create(u)
      PROVE  IF Taken(r.target) THEN Now(u, "create", r.op, Min(Unused(NextId(u))), r.pkg, r.known)
             ELSE Now(u, IF r.op = "package" THEN "move" ELSE "make", r.op, r.target, r.pkg, r.known)
  BY <1>0, <1>7, NowIs DEF Create, Goto, At
<1>8. ASSUME Make(u)
      PROVE  Now(u, "inject", r.op, r.target, Pkg(count.builds + 1), r.known)
  BY <1>0, <1>8, NowIs DEF Make, At
<1>9. ASSUME MakeFails(u)
      PROVE  Left(u, r.known)
  BY <1>0, <1>9, NowIs DEF MakeFails, At
<1>10. ASSUME Inject(u)
      PROVE  /\ indexLock = NoUser /\ indexLock' = u
             /\ \/ r.op = "update" /\ Now(u, "write", r.op, r.target, r.pkg, r.known)
                \/ r.op = "package" /\ setting.multi /\ Now(u, "probe", r.op, r.target, r.pkg, r.known)
                \/ r.op # "update" /\ (r.op = "package" => ~setting.multi) /\ Now(u, "move", r.op, r.target, r.pkg, r.known)
  BY <1>0, <1>10, NowIs DEF Inject, TakeLock, Goto, At
<1>11. ASSUME Move(u)
      PROVE  Now(u, "write", r.op, r.target, r.pkg, r.known)
  BY <1>0, <1>11, NowIs DEF Move, Goto, At
<1>12. ASSUME Write(u)
      PROVE  IF file[r.target] = Missing THEN Gone(u) /\ Left(u, Unknown)
             ELSE Left(u, [r.known EXCEPT ![r.target] = Entry(r.pkg.meta, file[r.target])])
  BY <1>0, <1>12, NowIs DEF Write, At
<1>13. ASSUME ChoosePkg(u)
      PROVE  \/ Left(u, r.known)
             \/ \E q \in Ids : file[q] # Missing /\ Now(u, "open", r.op, q, r.pkg, r.known)
  BY <1>0, <1>13, NowIs DEF ChoosePkg, Known, At
<1>14. ASSUME Open(u)
      PROVE  IF ~Complete(file[r.target]) THEN Gone(u) /\ Left(u, Unknown)
             ELSE Now(u, IF setting.signed THEN "remove" ELSE "rewrite", r.op, r.target, file[r.target], r.known)
  BY <1>0, <1>14, NowIs DEF Open, At
<1>15. ASSUME Rewrite(u)
      PROVE  IF ~Complete(file[r.target]) THEN Gone(u) /\ Left(u, Unknown)
             ELSE Now(u, "stat", r.op, r.target, r.pkg, r.known)
  BY <1>0, <1>15, NowIs DEF Rewrite, Goto, At
<1>16. ASSUME Stat(u)
      PROVE  IF Complete(file[r.target]) THEN Now(u, "inject", r.op, r.target, file[r.target], r.known)
             ELSE Left(u, r.known)
  BY <1>0, <1>16, NowIs DEF Stat, At
<1>17. ASSUME LockToRemove(u)
      PROVE  Now(u, "unindex", r.op, r.target, r.pkg, r.known)
  BY <1>0, <1>17, NowIs DEF LockToRemove, TakeLock, Goto, At
<1>18. ASSUME Unindex(u)
      PROVE  Now(u, "unlink", r.op, r.target, r.pkg, [r.known EXCEPT ![r.target] = NoEntry])
  BY <1>0, <1>18, NowIs DEF Unindex, At
<1>19. ASSUME Unlink(u)
      PROVE  Left(u, r.known)
  BY <1>0, <1>19, NowIs DEF Unlink, At
<1>20. ASSUME Exit(u)
      PROVE  Left(u, Unknown)
  BY <1>0, <1>20, NowIs DEF Exit, At
<1>21. ASSUME Kill(u)
      PROVE  Left(u, Unknown)
  BY <1>0, <1>21, NowIs DEF Kill, At
<1> QED BY <1>1, <1>2, <1>3, <1>4, <1>5, <1>6, <1>7, <1>8, <1>9, <1>10, <1>11, <1>12, <1>13,
   <1>14, <1>15, <1>16, <1>17, <1>18, <1>19, <1>20, <1>21

\* What each action does to the disk, and to the lock.
LEMMA BinDisks ==
  ASSUME BinTyped, NEW u \in Users
  PROVE  /\ \A op : Begin(u, op) =>
              /\ At(u, "idle")
              /\ UNCHANGED <<setting, file, index, indexLock, stray, added>>
         /\ Walk(u) =>
              /\ At(u, "walk")
              /\ UNCHANGED <<setting, file, index, indexLock, stray, added>>
         /\ Scan(u) =>
              /\ At(u, "scan")
              /\ UNCHANGED <<setting, file, index, added>>
              /\ \/ UNCHANGED <<indexLock, stray>>
                 \/ LetGo(u)
         /\ Relock(u) =>
              /\ At(u, "relock")
              /\ indexLock = NoUser /\ indexLock' = u
              /\ UNCHANGED <<setting, file, index, stray, added>>
         /\ Rescan(u) =>
              /\ At(u, "rescan")
              /\ index' = IF Outdated(Ids) THEN Found(Ids) ELSE index
              /\ indexLock' = NoUser /\ stray' = {}
              /\ UNCHANGED <<setting, file, added>>
         /\ Probe(u) =>
              /\ At(u, "probe") /\ Min(Candidates(u)) \in Ids
              /\ UNCHANGED <<setting, file, index, indexLock, stray, added>>
         /\ Create(u) =>
              /\ At(u, "create")
              /\ file' = IF Taken(tree[u].target) THEN file ELSE [file EXCEPT ![tree[u].target] = Placeholder]
              /\ Taken(tree[u].target) => Min(Unused(NextId(u))) \in Ids
              /\ UNCHANGED <<setting, index, indexLock, stray, added>>
         /\ Make(u) =>
              /\ At(u, "make") /\ count.builds \in Nat
              /\ UNCHANGED <<setting, file, index, indexLock, stray, added>>
         /\ MakeFails(u) =>
              /\ At(u, "make")
              /\ UNCHANGED <<setting, file, index, indexLock, stray, added>>
         /\ Inject(u) =>
              /\ At(u, "inject")
              /\ indexLock = NoUser /\ indexLock' = u
              /\ UNCHANGED <<setting, file, index, stray, added>>
         /\ Move(u) =>
              /\ At(u, "move")
              /\ file' = [file EXCEPT ![tree[u].target] = tree[u].pkg]
              /\ UNCHANGED <<setting, index, indexLock, stray, added>>
         /\ Write(u) =>
              /\ At(u, "write")
              /\ UNCHANGED <<setting, file>>
              /\ IF file[tree[u].target] = Missing
                   THEN /\ UNCHANGED <<index, added>> /\ LetGo(u)
                   ELSE /\ index' = [index EXCEPT ![tree[u].target] = Entry(tree[u].pkg.meta, file[tree[u].target])]
                        /\ indexLock' = NoUser /\ stray' = stray \ {tree[u].target}
                        /\ added' = added \cup {file[tree[u].target].image}
         /\ ChoosePkg(u) =>
              /\ At(u, "choose")
              /\ UNCHANGED <<setting, file, index, indexLock, stray, added>>
         /\ Open(u) =>
              /\ At(u, "open")
              /\ UNCHANGED <<setting, file, index, added>>
              /\ IF Complete(file[tree[u].target]) THEN UNCHANGED <<indexLock, stray>>
                   ELSE LetGo(u)
         /\ Rewrite(u) =>
              /\ At(u, "rewrite")
              /\ UNCHANGED <<setting, index, added>>
              /\ IF Complete(file[tree[u].target])
                   THEN /\ UNCHANGED <<indexLock, stray>>
                        /\ file' = [file EXCEPT ![tree[u].target] = [meta |-> tree[u].pkg.meta,
                               image |-> file[tree[u].target].image, rev |-> count.updates + 1]]
                   ELSE UNCHANGED file /\ LetGo(u)
         /\ Stat(u) =>
              /\ At(u, "stat")
              /\ UNCHANGED <<setting, file, index, indexLock, added>>
              /\ stray' = IF Complete(file[tree[u].target]) THEN stray ELSE stray \cup {tree[u].target}
         /\ LockToRemove(u) =>
              /\ At(u, "remove")
              /\ indexLock = NoUser /\ indexLock' = u
              /\ UNCHANGED <<setting, file, index, stray, added>>
         /\ Unindex(u) =>
              /\ At(u, "unindex")
              /\ index' = [index EXCEPT ![tree[u].target] = NoEntry]
              /\ added' = added \ {file[tree[u].target].image}
              /\ UNCHANGED <<setting, file, indexLock, stray>>
         /\ Unlink(u) =>
              /\ At(u, "unlink")
              /\ file' = [file EXCEPT ![tree[u].target] = Missing]
              /\ indexLock' = NoUser
              /\ UNCHANGED <<setting, index, stray, added>>
         /\ Exit(u) =>
              /\ At(u, "idle")
              /\ UNCHANGED <<setting, file, index, added>>
              /\ LetGo(u)
         /\ Kill(u) =>
              /\ UNCHANGED <<setting, file, index, added>>
              /\ LetGo(u)
<1> USE DEF binDisk, binHist, LetGo
<1>1. ASSUME NEW op, Begin(u, op)
      PROVE  At(u, "idle") /\ UNCHANGED <<setting, file, index, indexLock, stray, added>>
  BY <1>1 DEF Begin
<1>2. ASSUME Walk(u)
      PROVE  /\ At(u, "walk")
             /\ UNCHANGED <<setting, file, index, indexLock, stray, added>>
  BY <1>2 DEF Walk
<1>3. ASSUME Scan(u)
      PROVE  /\ At(u, "scan")
             /\ UNCHANGED <<setting, file, index, added>>
             /\ \/ UNCHANGED <<indexLock, stray>>
                \/ LetGo(u)
  BY <1>3 DEF Scan, Gone
<1>4. ASSUME Relock(u)
      PROVE  /\ At(u, "relock")
             /\ indexLock = NoUser /\ indexLock' = u
             /\ UNCHANGED <<setting, file, index, stray, added>>
  BY <1>4 DEF Relock, TakeLock
<1>5. ASSUME Rescan(u)
      PROVE  /\ At(u, "rescan")
             /\ index' = IF Outdated(Ids) THEN Found(Ids) ELSE index
             /\ indexLock' = NoUser /\ stray' = {}
             /\ UNCHANGED <<setting, file, added>>
  BY <1>5 DEF Rescan, Rescanned
<1>6. ASSUME Probe(u)
      PROVE  /\ At(u, "probe") /\ Min(Candidates(u)) \in Ids
             /\ UNCHANGED <<setting, file, index, indexLock, stray, added>>
  BY <1>6, NumberIn DEF Probe
<1>7. ASSUME Create(u)
      PROVE  /\ At(u, "create")
             /\ file' = IF Taken(tree[u].target) THEN file ELSE [file EXCEPT ![tree[u].target] = Placeholder]
             /\ Taken(tree[u].target) => Min(Unused(NextId(u))) \in Ids
             /\ UNCHANGED <<setting, index, indexLock, stray, added>>
  BY <1>7, NumberIn DEF Create
<1>8. ASSUME Make(u)
      PROVE  /\ At(u, "make") /\ count.builds \in Nat
             /\ UNCHANGED <<setting, file, index, indexLock, stray, added>>
  BY <1>8 DEF Make, BinTyped
<1>9. ASSUME MakeFails(u)
      PROVE  /\ At(u, "make")
             /\ UNCHANGED <<setting, file, index, indexLock, stray, added>>
  BY <1>9 DEF MakeFails
<1>10. ASSUME Inject(u)
      PROVE  /\ At(u, "inject")
             /\ indexLock = NoUser /\ indexLock' = u
             /\ UNCHANGED <<setting, file, index, stray, added>>
  BY <1>10 DEF Inject, TakeLock
<1>11. ASSUME Move(u)
      PROVE  /\ At(u, "move")
             /\ file' = [file EXCEPT ![tree[u].target] = tree[u].pkg]
             /\ UNCHANGED <<setting, index, indexLock, stray, added>>
  BY <1>11 DEF Move
<1>12. ASSUME Write(u)
      PROVE  /\ At(u, "write")
             /\ UNCHANGED <<setting, file>>
             /\ IF file[tree[u].target] = Missing
                  THEN /\ UNCHANGED <<index, added>> /\ LetGo(u)
                  ELSE /\ index' = [index EXCEPT ![tree[u].target] = Entry(tree[u].pkg.meta, file[tree[u].target])]
                       /\ indexLock' = NoUser /\ stray' = stray \ {tree[u].target}
                       /\ added' = added \cup {file[tree[u].target].image}
  BY <1>12 DEF Write, Gone, Loaded
<1>13. ASSUME ChoosePkg(u)
      PROVE  /\ At(u, "choose")
             /\ UNCHANGED <<setting, file, index, indexLock, stray, added>>
  BY <1>13 DEF ChoosePkg
<1>14. ASSUME Open(u)
      PROVE  /\ At(u, "open")
             /\ UNCHANGED <<setting, file, index, added>>
             /\ IF Complete(file[tree[u].target]) THEN UNCHANGED <<indexLock, stray>>
                  ELSE LetGo(u)
  BY <1>14 DEF Open, Gone
<1>15. ASSUME Rewrite(u)
      PROVE  /\ At(u, "rewrite")
             /\ UNCHANGED <<setting, index, added>>
             /\ IF Complete(file[tree[u].target])
                  THEN /\ UNCHANGED <<indexLock, stray>>
                       /\ file' = [file EXCEPT ![tree[u].target] = [meta |-> tree[u].pkg.meta,
                              image |-> file[tree[u].target].image, rev |-> count.updates + 1]]
                  ELSE UNCHANGED file /\ LetGo(u)
  BY <1>15 DEF Rewrite, Gone
<1>16. ASSUME Stat(u)
      PROVE  /\ At(u, "stat")
             /\ UNCHANGED <<setting, file, index, indexLock, added>>
             /\ stray' = IF Complete(file[tree[u].target]) THEN stray ELSE stray \cup {tree[u].target}
  BY <1>16 DEF Stat
<1>17. ASSUME LockToRemove(u)
      PROVE  /\ At(u, "remove")
             /\ indexLock = NoUser /\ indexLock' = u
             /\ UNCHANGED <<setting, file, index, stray, added>>
  BY <1>17 DEF LockToRemove, TakeLock
<1>18. ASSUME Unindex(u)
      PROVE  /\ At(u, "unindex")
             /\ index' = [index EXCEPT ![tree[u].target] = NoEntry]
             /\ added' = added \ {file[tree[u].target].image}
             /\ UNCHANGED <<setting, file, indexLock, stray>>
  BY <1>18 DEF Unindex
<1>19. ASSUME Unlink(u)
      PROVE  /\ At(u, "unlink")
             /\ file' = [file EXCEPT ![tree[u].target] = Missing]
             /\ indexLock' = NoUser
             /\ UNCHANGED <<setting, index, stray, added>>
  BY <1>19 DEF Unlink
<1>20. ASSUME Exit(u)
      PROVE  /\ At(u, "idle")
             /\ UNCHANGED <<setting, file, index, added>>
             /\ LetGo(u)
  BY <1>20 DEF Exit, Gone
<1>21. ASSUME Kill(u)
      PROVE  /\ UNCHANGED <<setting, file, index, added>>
             /\ LetGo(u)
  BY <1>21 DEF Kill, Gone
<1> QED BY <1>1, <1>2, <1>3, <1>4, <1>5, <1>6, <1>7, <1>8, <1>9, <1>10, <1>11, <1>12, <1>13,
   <1>14, <1>15, <1>16, <1>17, <1>18, <1>19, <1>20, <1>21

\* Every step keeps the invariant.
LEMMA BinNextKeeps ==
  ASSUME BinInv, [BinTreeNext]_binVars
  PROVE  BinInv'
<1>1. BinTyped /\ BinTyped'
  BY BinNextTyped DEF BinInv
<1> USE DEF Now, Left, LetGo, At, FirstStep, Course, Complete, Missing, Placeholder, Pkg, Taken, Entry, NoEntry
<1>2. /\ tree \in [Users -> Trees] /\ file \in [Ids -> Contents] /\ index \in [Ids -> Entries]
      /\ \A u \in Users : tree[u].target \in Ids /\ tree[u].pkg \in Contents /\ tree[u].known \in [Ids -> Entries]
      /\ \A q \in Ids : file[q] \in Contents /\ file[q].image \in Nat
  BY <1>1, Fields DEF BinTyped
<1>3. CASE UNCHANGED binVars
  BY <1>1, <1>3 DEF BinInv, LockTaken, HasLock, MadeWhole, HasMade, MovedThere, UpdatedThere,
    Updating, NumberHeld, HasNumber, Unindexed, MetaKnown, IndexTrue, FilesIndexed, NothingDangles,
    MetadataTrue, InstancesKept, InFlight, binVars, binDisk, binHist
<1>4. ASSUME NEW u \in Users, NEW op \in Operations \ {"none"}, Begin(u, op)
      PROVE  BinInv'
  <2> DEFINE r == tree[u]
  <2>1. Now(u, IF r.populated THEN FirstStep(op) ELSE "walk", op, 1, r.pkg, r.known)
    BY <1>1, <1>4, BinMoves
  <2>2. At(u, "idle") /\ UNCHANGED <<setting, file, index, indexLock, stray, added>>
    BY <1>1, <1>4, BinDisks
  <2>3. (Course /\ LockTaken /\ MadeWhole)'
    BY <1>2, <2>1, <2>2 DEF BinInv, LockTaken, HasLock, MadeWhole, HasMade
  <2>4. (MovedThere /\ UpdatedThere)'
    BY <1>2, <2>1, <2>2 DEF BinInv, IndexTrue, MovedThere, UpdatedThere, Updating, MetadataTrue
  <2>5. NumberHeld'
    BY <1>2, <2>1, <2>2 DEF BinInv, NumberHeld, HasNumber
  <2>6. Unindexed'
    BY <1>2, <2>1, <2>2 DEF BinInv, Unindexed, LockTaken, HasLock
  <2>7. MetaKnown'
    BY <2>1, <2>2 DEF BinInv, MetaKnown, Unknown
  <2>8. FilesIndexed'
    BY <1>2, <2>1, <2>2 DEF BinInv, IndexTrue, FilesIndexed, InFlight, LockTaken, HasLock,
       MovedThere, Unindexed
  <2>9. (NothingDangles /\ MetadataTrue /\ InstancesKept /\ 0 \notin added)'
    BY <2>2 DEF BinInv, IndexTrue, NothingDangles, MetadataTrue, InstancesKept
  <2> QED BY <1>1, <2>3, <2>4, <2>5, <2>6, <2>7, <2>8, <2>9 DEF BinInv, IndexTrue
<1>5. ASSUME NEW u \in Users, Walk(u)
      PROVE  BinInv'
  <2> DEFINE r == tree[u]
  <2>1. \/ Now(u, FirstStep(r.op), r.op, r.target, r.pkg, index)
        \/ Now(u, "scan", r.op, r.target, r.pkg, r.known)
    BY <1>1, <1>5, BinMoves
  <2>2. /\ At(u, "walk")
        /\ UNCHANGED <<setting, file, index, indexLock, stray, added>>
    BY <1>1, <1>5, BinDisks
  <2>3. (Course /\ LockTaken /\ MadeWhole)'
    BY <1>2, <2>1, <2>2 DEF BinInv, LockTaken, HasLock, MadeWhole, HasMade
  <2>4. (MovedThere /\ UpdatedThere)'
    BY <1>2, <2>1, <2>2 DEF BinInv, IndexTrue, MovedThere, UpdatedThere, Updating, MetadataTrue
  <2>5. NumberHeld'
    BY <1>2, <2>1, <2>2 DEF BinInv, NumberHeld, HasNumber
  <2>6. Unindexed'
    BY <1>2, <2>1, <2>2 DEF BinInv, Unindexed, LockTaken, HasLock
  <2>7. MetaKnown'
    BY <1>2, <2>1, <2>2 DEF BinInv, IndexTrue, MetaKnown, MetadataTrue, Unknown
  <2>8. FilesIndexed'
    BY <1>2, <2>1, <2>2 DEF BinInv, IndexTrue, FilesIndexed, InFlight, LockTaken, HasLock,
       MovedThere, Unindexed
  <2>9. (NothingDangles /\ MetadataTrue /\ InstancesKept /\ 0 \notin added)'
    BY <2>2 DEF BinInv, IndexTrue, NothingDangles, MetadataTrue, InstancesKept
  <2> QED BY <1>1, <2>3, <2>4, <2>5, <2>6, <2>7, <2>8, <2>9 DEF BinInv, IndexTrue
<1>6. ASSUME NEW u \in Users, Scan(u)
      PROVE  BinInv'
  <2> DEFINE r == tree[u]
  <2>1. \/ Gone(u) /\ Left(u, Unknown)
        \/ Now(u, "relock", r.op, r.target, r.pkg, Found(r.listing)) /\ UNCHANGED <<indexLock, stray>>
        \/ Now(u, FirstStep(r.op), r.op, r.target, r.pkg, Found(r.listing)) /\ UNCHANGED <<indexLock, stray>>
    BY <1>1, <1>6, BinMoves
  <2>2. /\ At(u, "scan")
        /\ UNCHANGED <<setting, file, index, added>>
        /\ \/ UNCHANGED <<indexLock, stray>>
           \/ LetGo(u)
    BY <1>1, <1>6, BinDisks
  <2>3. (Course /\ LockTaken /\ MadeWhole)'
    BY <1>2, <2>1, <2>2 DEF BinInv, LockTaken, HasLock, MadeWhole, HasMade
  <2>4. (MovedThere /\ UpdatedThere)'
    BY <1>2, <2>1, <2>2, SMTT(40) DEF BinInv, IndexTrue, MovedThere, UpdatedThere, Updating, MetadataTrue
  <2>5. NumberHeld'
    BY <1>2, <2>1, <2>2 DEF BinInv, NumberHeld, HasNumber
  <2>6. Unindexed'
    BY <1>2, <2>1, <2>2 DEF BinInv, Unindexed, LockTaken, HasLock
  <2>7. MetaKnown'
    BY <1>2, <2>1, <2>2, FoundIs DEF BinInv, IndexTrue, MetaKnown, MetadataTrue, Unknown
  <2>8. FilesIndexed'
    BY <1>2, <2>1, <2>2 DEF BinInv, IndexTrue, FilesIndexed, InFlight, LockTaken, HasLock,
       MovedThere, Unindexed
  <2>9. (NothingDangles /\ MetadataTrue /\ InstancesKept /\ 0 \notin added)'
    BY <2>2 DEF BinInv, IndexTrue, NothingDangles, MetadataTrue, InstancesKept
  <2> QED BY <1>1, <2>3, <2>4, <2>5, <2>6, <2>7, <2>8, <2>9 DEF BinInv, IndexTrue
<1>7. ASSUME NEW u \in Users, Relock(u)
      PROVE  BinInv'
  <2> DEFINE r == tree[u]
  <2>1. Now(u, "rescan", r.op, r.target, r.pkg, r.known)
    BY <1>1, <1>7, BinMoves
  <2>2. /\ At(u, "relock")
        /\ indexLock = NoUser /\ indexLock' = u
        /\ UNCHANGED <<setting, file, index, stray, added>>
    BY <1>1, <1>7, BinDisks
  <2>3. (Course /\ LockTaken /\ MadeWhole)'
    BY <1>2, <2>1, <2>2, BinTreeAssumption
       DEF BinInv, LockTaken, HasLock, MadeWhole, HasMade, NoUser
  <2>4. (MovedThere /\ UpdatedThere)'
    BY <1>2, <2>1, <2>2 DEF BinInv, IndexTrue, MovedThere, UpdatedThere, Updating, MetadataTrue
  <2>5. NumberHeld'
    BY <1>2, <2>1, <2>2 DEF BinInv, NumberHeld, HasNumber
  <2>6. Unindexed'
    BY <1>2, <2>1, <2>2 DEF BinInv, Unindexed, LockTaken, HasLock
  <2>7. MetaKnown'
    BY <2>1, <2>2 DEF BinInv, MetaKnown, Unknown
  <2>8. FilesIndexed'
    BY <1>2, <2>1, <2>2 DEF BinInv, IndexTrue, FilesIndexed, InFlight, LockTaken, HasLock,
       MovedThere, Unindexed
  <2>9. (NothingDangles /\ MetadataTrue /\ InstancesKept /\ 0 \notin added)'
    BY <2>2 DEF BinInv, IndexTrue, NothingDangles, MetadataTrue, InstancesKept
  <2> QED BY <1>1, <2>3, <2>4, <2>5, <2>6, <2>7, <2>8, <2>9 DEF BinInv, IndexTrue
<1>8. ASSUME NEW u \in Users, Rescan(u)
      PROVE  BinInv'
  <2> DEFINE r == tree[u]
  <2>1. Now(u, FirstStep(r.op), r.op, r.target, r.pkg, Found(Ids))
    BY <1>1, <1>8, BinMoves
  <2>2. /\ At(u, "rescan")
        /\ index' = IF Outdated(Ids) THEN Found(Ids) ELSE index
        /\ indexLock' = NoUser /\ stray' = {}
        /\ UNCHANGED <<setting, file, added>>
    BY <1>1, <1>8, BinDisks
  <2>3. Course'
    BY <1>2, <2>1, <2>2 DEF BinInv
  <2>4. LockTaken'
    BY <1>2, <2>1, <2>2 DEF BinInv, LockTaken, HasLock
  <2>5. MadeWhole'
    BY <1>2, <2>1, <2>2 DEF BinInv, MadeWhole, HasMade
  <2>6. MovedThere'
    BY <1>2, <2>1, <2>2 DEF BinInv, MovedThere, LockTaken, HasLock, MadeWhole, HasMade
  <2>7. UpdatedThere'
    BY <1>2, <2>1, <2>2 DEF BinInv, IndexTrue, UpdatedThere, Updating, MadeWhole, HasMade,
       NumberHeld, HasNumber, MetadataTrue
  <2>8. NumberHeld'
    BY <1>2, <2>1, <2>2 DEF BinInv, NumberHeld, HasNumber, UpdatedThere, Updating, LockTaken,
       HasLock, MadeWhole, HasMade
  <2>9. Unindexed'
    BY <1>2, <2>1, <2>2 DEF BinInv, Unindexed, LockTaken, HasLock
  <2>10. MetaKnown'
    BY <1>2, <2>1, <2>2, FoundIs DEF BinInv, IndexTrue, MetaKnown, MetadataTrue, Unknown
  <2>11. FilesIndexed'
    BY <1>2, <2>1, <2>2, FoundIs DEF BinInv, IndexTrue, FilesIndexed, InFlight, LockTaken,
       HasLock, MovedThere, Unindexed, Outdated, Matched
  <2>12. NothingDangles'
    BY <1>2, <2>1, <2>2, FoundIs DEF BinInv, IndexTrue, NothingDangles, Unindexed, MadeWhole,
       HasMade, MovedThere
  <2>13. MetadataTrue'
    BY <1>2, <2>1, <2>2, FoundIs DEF BinInv, IndexTrue, MetadataTrue, MadeWhole, HasMade,
       MovedThere, UpdatedThere, Updating
  <2>14. (InstancesKept /\ 0 \notin added)'
    BY <1>2, <2>1, <2>2 DEF BinInv, InstancesKept, NumberHeld, HasNumber, UpdatedThere, Updating,
       MovedThere
  <2> QED BY <1>1, <2>3, <2>4, <2>5, <2>6, <2>7, <2>8, <2>9, <2>10, <2>11, <2>12, <2>13,
     <2>14 DEF BinInv, IndexTrue
<1>9. ASSUME NEW u \in Users, Probe(u)
      PROVE  BinInv'
  <2> DEFINE r == tree[u]
  <2>1. Now(u, "create", r.op, Min(Candidates(u)), r.pkg, r.known)
    BY <1>1, <1>9, BinMoves
  <2>2. /\ At(u, "probe") /\ Min(Candidates(u)) \in Ids
        /\ UNCHANGED <<setting, file, index, indexLock, stray, added>>
    BY <1>1, <1>9, BinDisks
  <2>3. (Course /\ LockTaken /\ MadeWhole)'
    BY <1>2, <2>1, <2>2 DEF BinInv, LockTaken, HasLock, MadeWhole, HasMade
  <2>4. (MovedThere /\ UpdatedThere)'
    BY <1>2, <2>1, <2>2 DEF BinInv, IndexTrue, MovedThere, UpdatedThere, Updating, MetadataTrue
  <2>5. NumberHeld'
    BY <1>2, <2>1, <2>2 DEF BinInv, NumberHeld, HasNumber
  <2>6. Unindexed'
    BY <1>2, <2>1, <2>2 DEF BinInv, Unindexed, LockTaken, HasLock
  <2>7. MetaKnown'
    BY <2>1, <2>2 DEF BinInv, MetaKnown, Unknown
  <2>8. FilesIndexed'
    BY <1>2, <2>1, <2>2 DEF BinInv, IndexTrue, FilesIndexed, InFlight, LockTaken, HasLock,
       MovedThere, Unindexed
  <2>9. (NothingDangles /\ MetadataTrue /\ InstancesKept /\ 0 \notin added)'
    BY <2>2 DEF BinInv, IndexTrue, NothingDangles, MetadataTrue, InstancesKept
  <2> QED BY <1>1, <2>3, <2>4, <2>5, <2>6, <2>7, <2>8, <2>9 DEF BinInv, IndexTrue
<1>10. ASSUME NEW u \in Users, Create(u)
      PROVE  BinInv'
  <2> DEFINE r == tree[u]
  <2>1. IF Taken(r.target) THEN Now(u, "create", r.op, Min(Unused(NextId(u))), r.pkg, r.known)
        ELSE Now(u, IF r.op = "package" THEN "move" ELSE "make", r.op, r.target, r.pkg, r.known)
    BY <1>1, <1>10, BinMoves
  <2>2. /\ At(u, "create")
        /\ file' = IF Taken(tree[u].target) THEN file ELSE [file EXCEPT ![tree[u].target] = Placeholder]
        /\ Taken(tree[u].target) => Min(Unused(NextId(u))) \in Ids
        /\ UNCHANGED <<setting, index, indexLock, stray, added>>
    BY <1>1, <1>10, BinDisks
  <2>3. Course'
    BY <1>2, <2>1, <2>2 DEF BinInv
  <2>4. LockTaken'
    BY <1>2, <2>1, <2>2 DEF BinInv, LockTaken, HasLock
  <2>5. MadeWhole'
    BY <1>2, <2>1, <2>2 DEF BinInv, MadeWhole, HasMade
  <2>6. MovedThere'
    BY <1>2, <2>1, <2>2 DEF BinInv, MovedThere, LockTaken, HasLock, MadeWhole, HasMade
  <2>7. UpdatedThere'
    BY <1>2, <2>1, <2>2 DEF BinInv, IndexTrue, UpdatedThere, Updating, MadeWhole, HasMade,
       NumberHeld, HasNumber, MetadataTrue
  <2>8. NumberHeld'
    BY <1>2, <2>1, <2>2 DEF BinInv, NumberHeld, HasNumber, UpdatedThere, Updating, LockTaken,
       HasLock, MadeWhole, HasMade
  <2>9. Unindexed'
    BY <1>2, <2>1, <2>2 DEF BinInv, Unindexed, LockTaken, HasLock
  <2>10. MetaKnown'
    BY <2>1, <2>2 DEF BinInv, MetaKnown, Unknown
  <2>11. FilesIndexed'
    BY <1>2, <2>1, <2>2 DEF BinInv, IndexTrue, FilesIndexed, InFlight, LockTaken, HasLock,
       MovedThere, Unindexed
  <2>12. NothingDangles'
    BY <1>2, <2>1, <2>2 DEF BinInv, IndexTrue, NothingDangles, Unindexed, MadeWhole, HasMade,
       MovedThere
  <2>13. MetadataTrue'
    BY <1>2, <2>1, <2>2 DEF BinInv, IndexTrue, MetadataTrue, MadeWhole, HasMade, MovedThere,
       UpdatedThere, Updating
  <2>14. (InstancesKept /\ 0 \notin added)'
    BY <1>2, <2>1, <2>2 DEF BinInv, InstancesKept, NumberHeld, HasNumber, UpdatedThere, Updating,
       MovedThere
  <2> QED BY <1>1, <2>3, <2>4, <2>5, <2>6, <2>7, <2>8, <2>9, <2>10, <2>11, <2>12, <2>13,
     <2>14 DEF BinInv, IndexTrue
<1>11. ASSUME NEW u \in Users, Make(u)
      PROVE  BinInv'
  <2> DEFINE r == tree[u]
  <2>1. Now(u, "inject", r.op, r.target, Pkg(count.builds + 1), r.known)
    BY <1>1, <1>11, BinMoves
  <2>2. /\ At(u, "make") /\ count.builds \in Nat
        /\ UNCHANGED <<setting, file, index, indexLock, stray, added>>
    BY <1>1, <1>11, BinDisks
  <2>3. (Course /\ LockTaken /\ MadeWhole)'
    BY <1>2, <2>1, <2>2 DEF BinInv, LockTaken, HasLock, MadeWhole, HasMade
  <2>4. (MovedThere /\ UpdatedThere)'
    BY <1>2, <2>1, <2>2 DEF BinInv, IndexTrue, MovedThere, UpdatedThere, Updating, MetadataTrue
  <2>5. NumberHeld'
    BY <1>2, <2>1, <2>2 DEF BinInv, NumberHeld, HasNumber
  <2>6. Unindexed'
    BY <1>2, <2>1, <2>2 DEF BinInv, Unindexed, LockTaken, HasLock
  <2>7. MetaKnown'
    BY <2>1, <2>2 DEF BinInv, MetaKnown, Unknown
  <2>8. FilesIndexed'
    BY <1>2, <2>1, <2>2 DEF BinInv, IndexTrue, FilesIndexed, InFlight, LockTaken, HasLock,
       MovedThere, Unindexed
  <2>9. (NothingDangles /\ MetadataTrue /\ InstancesKept /\ 0 \notin added)'
    BY <2>2 DEF BinInv, IndexTrue, NothingDangles, MetadataTrue, InstancesKept
  <2> QED BY <1>1, <2>3, <2>4, <2>5, <2>6, <2>7, <2>8, <2>9 DEF BinInv, IndexTrue
<1>12. ASSUME NEW u \in Users, MakeFails(u)
      PROVE  BinInv'
  <2> DEFINE r == tree[u]
  <2>1. Left(u, r.known)
    BY <1>1, <1>12, BinMoves
  <2>2. /\ At(u, "make")
        /\ UNCHANGED <<setting, file, index, indexLock, stray, added>>
    BY <1>1, <1>12, BinDisks
  <2>3. (Course /\ LockTaken /\ MadeWhole)'
    BY <1>2, <2>1, <2>2 DEF BinInv, LockTaken, HasLock, MadeWhole, HasMade
  <2>4. (MovedThere /\ UpdatedThere)'
    BY <1>2, <2>1, <2>2 DEF BinInv, IndexTrue, MovedThere, UpdatedThere, Updating, MetadataTrue
  <2>5. NumberHeld'
    BY <1>2, <2>1, <2>2 DEF BinInv, NumberHeld, HasNumber
  <2>6. Unindexed'
    BY <1>2, <2>1, <2>2 DEF BinInv, Unindexed, LockTaken, HasLock
  <2>7. MetaKnown'
    BY <2>1, <2>2 DEF BinInv, MetaKnown, Unknown
  <2>8. FilesIndexed'
    BY <1>2, <2>1, <2>2 DEF BinInv, IndexTrue, FilesIndexed, InFlight, LockTaken, HasLock,
       MovedThere, Unindexed
  <2>9. (NothingDangles /\ MetadataTrue /\ InstancesKept /\ 0 \notin added)'
    BY <2>2 DEF BinInv, IndexTrue, NothingDangles, MetadataTrue, InstancesKept
  <2> QED BY <1>1, <2>3, <2>4, <2>5, <2>6, <2>7, <2>8, <2>9 DEF BinInv, IndexTrue
<1>13. ASSUME NEW u \in Users, Inject(u)
      PROVE  BinInv'
  <2> DEFINE r == tree[u]
  <2>1. /\ indexLock = NoUser /\ indexLock' = u
        /\ \/ r.op = "update" /\ Now(u, "write", r.op, r.target, r.pkg, r.known)
           \/ r.op = "package" /\ setting.multi /\ Now(u, "probe", r.op, r.target, r.pkg, r.known)
           \/ r.op # "update" /\ (r.op = "package" => ~setting.multi) /\ Now(u, "move", r.op, r.target, r.pkg, r.known)
    BY <1>1, <1>13, BinMoves
  <2>2. /\ At(u, "inject")
        /\ indexLock = NoUser /\ indexLock' = u
        /\ UNCHANGED <<setting, file, index, stray, added>>
    BY <1>1, <1>13, BinDisks
  <2>3. (Course /\ LockTaken /\ MadeWhole)'
    BY <1>2, <2>1, <2>2, BinTreeAssumption
       DEF BinInv, LockTaken, HasLock, MadeWhole, HasMade, NoUser
  <2>4. (MovedThere /\ UpdatedThere)'
    BY <1>2, <2>1, <2>2 DEF BinInv, IndexTrue, MovedThere, UpdatedThere, Updating, MetadataTrue
  <2>5. NumberHeld'
    BY <1>2, <2>1, <2>2 DEF BinInv, NumberHeld, HasNumber
  <2>6. Unindexed'
    BY <1>2, <2>1, <2>2 DEF BinInv, Unindexed, LockTaken, HasLock
  <2>7. MetaKnown'
    BY <2>1, <2>2 DEF BinInv, MetaKnown, Unknown
  <2>8. FilesIndexed'
    BY <1>2, <2>1, <2>2 DEF BinInv, IndexTrue, FilesIndexed, InFlight, LockTaken, HasLock,
       MovedThere, Unindexed
  <2>9. (NothingDangles /\ MetadataTrue /\ InstancesKept /\ 0 \notin added)'
    BY <2>2 DEF BinInv, IndexTrue, NothingDangles, MetadataTrue, InstancesKept
  <2> QED BY <1>1, <2>3, <2>4, <2>5, <2>6, <2>7, <2>8, <2>9 DEF BinInv, IndexTrue
<1>14. ASSUME NEW u \in Users, Move(u)
      PROVE  BinInv'
  <2> DEFINE r == tree[u]
  <2>1. Now(u, "write", r.op, r.target, r.pkg, r.known)
    BY <1>1, <1>14, BinMoves
  <2>2. /\ At(u, "move")
        /\ file' = [file EXCEPT ![tree[u].target] = tree[u].pkg]
        /\ UNCHANGED <<setting, index, indexLock, stray, added>>
    BY <1>1, <1>14, BinDisks
  <2>3. Course'
    BY <1>2, <2>1, <2>2 DEF BinInv
  <2>4. LockTaken'
    BY <1>2, <2>1, <2>2 DEF BinInv, LockTaken, HasLock
  <2>5. MadeWhole'
    BY <1>2, <2>1, <2>2 DEF BinInv, MadeWhole, HasMade
  <2>6. MovedThere'
    BY <1>2, <2>1, <2>2 DEF BinInv, MovedThere, LockTaken, HasLock, MadeWhole, HasMade
  <2>7. UpdatedThere'
    BY <1>2, <2>1, <2>2 DEF BinInv, IndexTrue, UpdatedThere, Updating, MadeWhole, HasMade,
       NumberHeld, HasNumber, MetadataTrue
  <2>8. NumberHeld'
    BY <1>2, <2>1, <2>2 DEF BinInv, NumberHeld, HasNumber, UpdatedThere, Updating, LockTaken,
       HasLock, MadeWhole, HasMade
  <2>9. Unindexed'
    BY <1>2, <2>1, <2>2 DEF BinInv, Unindexed, LockTaken, HasLock
  <2>10. MetaKnown'
    BY <2>1, <2>2 DEF BinInv, MetaKnown, Unknown
  <2>11. FilesIndexed'
    BY <1>2, <2>1, <2>2 DEF BinInv, IndexTrue, FilesIndexed, InFlight, LockTaken, HasLock,
       MovedThere, Unindexed
  <2>12. NothingDangles'
    BY <1>2, <2>1, <2>2 DEF BinInv, IndexTrue, NothingDangles, Unindexed, MadeWhole, HasMade,
       MovedThere
  <2>13. MetadataTrue'
    BY <1>2, <2>1, <2>2 DEF BinInv, IndexTrue, MetadataTrue, MadeWhole, HasMade, MovedThere,
       UpdatedThere, Updating
  <2>14. (InstancesKept /\ 0 \notin added)'
    BY <1>2, <2>1, <2>2 DEF BinInv, InstancesKept, NumberHeld, HasNumber, UpdatedThere, Updating,
       MovedThere
  <2> QED BY <1>1, <2>3, <2>4, <2>5, <2>6, <2>7, <2>8, <2>9, <2>10, <2>11, <2>12, <2>13,
     <2>14 DEF BinInv, IndexTrue
<1>15. ASSUME NEW u \in Users, Write(u)
      PROVE  BinInv'
  <2> DEFINE r == tree[u]
  <2>1. IF file[r.target] = Missing THEN Gone(u) /\ Left(u, Unknown)
        ELSE Left(u, [r.known EXCEPT ![r.target] = Entry(r.pkg.meta, file[r.target])])
    BY <1>1, <1>15, BinMoves
  <2>2. /\ At(u, "write")
        /\ UNCHANGED <<setting, file>>
        /\ IF file[tree[u].target] = Missing
             THEN /\ UNCHANGED <<index, added>> /\ LetGo(u)
             ELSE /\ index' = [index EXCEPT ![tree[u].target] = Entry(tree[u].pkg.meta, file[tree[u].target])]
                  /\ indexLock' = NoUser /\ stray' = stray \ {tree[u].target}
                  /\ added' = added \cup {file[tree[u].target].image}
    BY <1>1, <1>15, BinDisks
  <2>3. Course'
    BY <1>2, <2>1, <2>2 DEF BinInv
  <2>4. LockTaken'
    BY <1>2, <2>1, <2>2 DEF BinInv, LockTaken, HasLock
  <2>5. MadeWhole'
    BY <1>2, <2>1, <2>2 DEF BinInv, MadeWhole, HasMade
  <2>6. MovedThere'
    BY <1>2, <2>1, <2>2 DEF BinInv, MovedThere, LockTaken, HasLock, MadeWhole, HasMade
  <2>7. UpdatedThere'
    BY <1>2, <2>1, <2>2 DEF BinInv, IndexTrue, UpdatedThere, Updating, MadeWhole, HasMade,
       NumberHeld, HasNumber, MetadataTrue
  <2>8. NumberHeld'
    BY <1>2, <2>1, <2>2 DEF BinInv, NumberHeld, HasNumber, UpdatedThere, Updating, LockTaken,
       HasLock, MadeWhole, HasMade
  <2>9. Unindexed'
    BY <1>2, <2>1, <2>2 DEF BinInv, Unindexed, LockTaken, HasLock
  <2>10. MetaKnown'
    BY <1>2, <2>1, <2>2, SMTT(40) DEF BinInv, IndexTrue, MetaKnown, MetadataTrue, Unknown, UpdatedThere,
       Updating, MovedThere, MadeWhole, HasMade
  <2>11. FilesIndexed'
    BY <1>2, <2>1, <2>2 DEF BinInv, IndexTrue, FilesIndexed, InFlight, LockTaken, HasLock,
       MovedThere, Unindexed
  <2>12. NothingDangles'
    BY <1>2, <2>1, <2>2 DEF BinInv, IndexTrue, NothingDangles, Unindexed, MadeWhole, HasMade,
       MovedThere, UpdatedThere, Updating
  <2>13. MetadataTrue'
    BY <1>2, <2>1, <2>2 DEF BinInv, IndexTrue, MetadataTrue, MadeWhole, HasMade, MovedThere,
       UpdatedThere, Updating
  <2>14. (InstancesKept /\ 0 \notin added)'
    BY <1>2, <2>1, <2>2 DEF BinInv, InstancesKept, NumberHeld, HasNumber, UpdatedThere, Updating,
       MovedThere
  <2> QED BY <1>1, <2>3, <2>4, <2>5, <2>6, <2>7, <2>8, <2>9, <2>10, <2>11, <2>12, <2>13,
     <2>14 DEF BinInv, IndexTrue
<1>16. ASSUME NEW u \in Users, ChoosePkg(u)
      PROVE  BinInv'
  <2> DEFINE r == tree[u]
  <2>1. \/ Left(u, r.known)
        \/ \E q \in Ids : file[q] # Missing /\ Now(u, "open", r.op, q, r.pkg, r.known)
    BY <1>1, <1>16, BinMoves
  <2>2. /\ At(u, "choose")
        /\ UNCHANGED <<setting, file, index, indexLock, stray, added>>
    BY <1>1, <1>16, BinDisks
  <2>3. (Course /\ LockTaken /\ MadeWhole)'
    BY <1>2, <2>1, <2>2 DEF BinInv, LockTaken, HasLock, MadeWhole, HasMade
  <2>4. (MovedThere /\ UpdatedThere)'
    BY <1>2, <2>1, <2>2 DEF BinInv, IndexTrue, MovedThere, UpdatedThere, Updating, MetadataTrue
  <2>5. NumberHeld'
    BY <1>2, <2>1, <2>2 DEF BinInv, NumberHeld, HasNumber
  <2>6. Unindexed'
    BY <1>2, <2>1, <2>2 DEF BinInv, Unindexed, LockTaken, HasLock
  <2>7. MetaKnown'
    BY <2>1, <2>2 DEF BinInv, MetaKnown, Unknown
  <2>8. FilesIndexed'
    BY <1>2, <2>1, <2>2 DEF BinInv, IndexTrue, FilesIndexed, InFlight, LockTaken, HasLock,
       MovedThere, Unindexed
  <2>9. (NothingDangles /\ MetadataTrue /\ InstancesKept /\ 0 \notin added)'
    BY <2>2 DEF BinInv, IndexTrue, NothingDangles, MetadataTrue, InstancesKept
  <2> QED BY <1>1, <2>3, <2>4, <2>5, <2>6, <2>7, <2>8, <2>9 DEF BinInv, IndexTrue
<1>17. ASSUME NEW u \in Users, Open(u)
      PROVE  BinInv'
  <2> DEFINE r == tree[u]
  <2>1. IF ~Complete(file[r.target]) THEN Gone(u) /\ Left(u, Unknown)
        ELSE Now(u, IF setting.signed THEN "remove" ELSE "rewrite", r.op, r.target, file[r.target], r.known)
    BY <1>1, <1>17, BinMoves
  <2>2. /\ At(u, "open")
        /\ UNCHANGED <<setting, file, index, added>>
        /\ IF Complete(file[tree[u].target]) THEN UNCHANGED <<indexLock, stray>>
             ELSE LetGo(u)
    BY <1>1, <1>17, BinDisks
  <2>3. (Course /\ LockTaken /\ MadeWhole)'
    BY <1>2, <2>1, <2>2 DEF BinInv, LockTaken, HasLock, MadeWhole, HasMade
  <2>4. (MovedThere /\ UpdatedThere)'
    BY <1>2, <2>1, <2>2 DEF BinInv, IndexTrue, MovedThere, UpdatedThere, Updating, MetadataTrue
  <2>5. NumberHeld'
    BY <1>2, <2>1, <2>2 DEF BinInv, NumberHeld, HasNumber
  <2>6. Unindexed'
    BY <1>2, <2>1, <2>2 DEF BinInv, Unindexed, LockTaken, HasLock
  <2>7. MetaKnown'
    BY <2>1, <2>2 DEF BinInv, MetaKnown, Unknown
  <2>8. FilesIndexed'
    BY <1>2, <2>1, <2>2 DEF BinInv, IndexTrue, FilesIndexed, InFlight, LockTaken, HasLock,
       MovedThere, Unindexed
  <2>9. (NothingDangles /\ MetadataTrue /\ InstancesKept /\ 0 \notin added)'
    BY <2>2 DEF BinInv, IndexTrue, NothingDangles, MetadataTrue, InstancesKept
  <2> QED BY <1>1, <2>3, <2>4, <2>5, <2>6, <2>7, <2>8, <2>9 DEF BinInv, IndexTrue
<1>18. ASSUME NEW u \in Users, Rewrite(u)
      PROVE  BinInv'
  <2> DEFINE r == tree[u]
  <2>1. IF ~Complete(file[r.target]) THEN Gone(u) /\ Left(u, Unknown)
        ELSE Now(u, "stat", r.op, r.target, r.pkg, r.known)
    BY <1>1, <1>18, BinMoves
  <2>2. /\ At(u, "rewrite")
        /\ UNCHANGED <<setting, index, added>>
        /\ IF Complete(file[tree[u].target])
             THEN /\ UNCHANGED <<indexLock, stray>>
                  /\ file' = [file EXCEPT ![tree[u].target] = [meta |-> tree[u].pkg.meta,
                         image |-> file[tree[u].target].image, rev |-> count.updates + 1]]
             ELSE UNCHANGED file /\ LetGo(u)
    BY <1>1, <1>18, BinDisks
  <2>3. Course'
    BY <1>2, <2>1, <2>2 DEF BinInv
  <2>4. LockTaken'
    BY <1>2, <2>1, <2>2 DEF BinInv, LockTaken, HasLock
  <2>5. MadeWhole'
    BY <1>2, <2>1, <2>2 DEF BinInv, MadeWhole, HasMade
  <2>6. MovedThere'
    BY <1>2, <2>1, <2>2 DEF BinInv, MovedThere, LockTaken, HasLock, MadeWhole, HasMade
  <2>7. UpdatedThere'
    BY <1>2, <2>1, <2>2, SMTT(40) DEF BinInv, IndexTrue, UpdatedThere, Updating, MadeWhole, HasMade,
       NumberHeld, HasNumber, MetadataTrue
  <2>8. NumberHeld'
    BY <1>2, <2>1, <2>2 DEF BinInv, NumberHeld, HasNumber, UpdatedThere, Updating, LockTaken,
       HasLock, MadeWhole, HasMade
  <2>9. Unindexed'
    BY <1>2, <2>1, <2>2 DEF BinInv, Unindexed, LockTaken, HasLock
  <2>10. MetaKnown'
    BY <2>1, <2>2 DEF BinInv, MetaKnown, Unknown
  <2>11. FilesIndexed'
    BY <1>2, <2>1, <2>2 DEF BinInv, IndexTrue, FilesIndexed, InFlight, LockTaken, HasLock,
       MovedThere, Unindexed
  <2>12. NothingDangles'
    BY <1>2, <2>1, <2>2 DEF BinInv, IndexTrue, NothingDangles, Unindexed, MadeWhole, HasMade,
       MovedThere
  <2>13. MetadataTrue'
    BY <1>2, <2>1, <2>2 DEF BinInv, IndexTrue, MetadataTrue, MadeWhole, HasMade, MovedThere,
       UpdatedThere, Updating
  <2>14. (InstancesKept /\ 0 \notin added)'
    BY <1>2, <2>1, <2>2 DEF BinInv, InstancesKept, NumberHeld, HasNumber, UpdatedThere, Updating,
       MovedThere
  <2> QED BY <1>1, <2>3, <2>4, <2>5, <2>6, <2>7, <2>8, <2>9, <2>10, <2>11, <2>12, <2>13,
     <2>14 DEF BinInv, IndexTrue
<1>19. ASSUME NEW u \in Users, Stat(u)
      PROVE  BinInv'
  <2> DEFINE r == tree[u]
  <2>1. IF Complete(file[r.target]) THEN Now(u, "inject", r.op, r.target, file[r.target], r.known)
        ELSE Left(u, r.known)
    BY <1>1, <1>19, BinMoves
  <2>2. /\ At(u, "stat")
        /\ UNCHANGED <<setting, file, index, indexLock, added>>
        /\ stray' = IF Complete(file[tree[u].target]) THEN stray ELSE stray \cup {tree[u].target}
    BY <1>1, <1>19, BinDisks
  <2>3. Course'
    BY <1>2, <2>1, <2>2 DEF BinInv
  <2>4. LockTaken'
    BY <1>2, <2>1, <2>2 DEF BinInv, LockTaken, HasLock
  <2>5. MadeWhole'
    BY <1>2, <2>1, <2>2 DEF BinInv, MadeWhole, HasMade
  <2>6. MovedThere'
    BY <1>2, <2>1, <2>2 DEF BinInv, MovedThere, LockTaken, HasLock, MadeWhole, HasMade
  <2>7. UpdatedThere'
    BY <1>2, <2>1, <2>2 DEF BinInv, IndexTrue, UpdatedThere, Updating, MadeWhole, HasMade,
       NumberHeld, HasNumber, MetadataTrue
  <2>8. NumberHeld'
    BY <1>2, <2>1, <2>2 DEF BinInv, NumberHeld, HasNumber, UpdatedThere, Updating, LockTaken,
       HasLock, MadeWhole, HasMade
  <2>9. Unindexed'
    BY <1>2, <2>1, <2>2 DEF BinInv, Unindexed, LockTaken, HasLock
  <2>10. MetaKnown'
    BY <2>1, <2>2 DEF BinInv, MetaKnown, Unknown
  <2>11. FilesIndexed'
    BY <1>2, <2>1, <2>2 DEF BinInv, IndexTrue, FilesIndexed, InFlight, LockTaken, HasLock,
       MovedThere, Unindexed
  <2>12. NothingDangles'
    BY <1>2, <2>1, <2>2 DEF BinInv, IndexTrue, NothingDangles, Unindexed, MadeWhole, HasMade,
       MovedThere
  <2>13. MetadataTrue'
    BY <1>2, <2>1, <2>2 DEF BinInv, IndexTrue, MetadataTrue, MadeWhole, HasMade, MovedThere,
       UpdatedThere, Updating
  <2>14. (InstancesKept /\ 0 \notin added)'
    BY <1>2, <2>1, <2>2 DEF BinInv, InstancesKept, NumberHeld, HasNumber, UpdatedThere, Updating,
       MovedThere
  <2> QED BY <1>1, <2>3, <2>4, <2>5, <2>6, <2>7, <2>8, <2>9, <2>10, <2>11, <2>12, <2>13,
     <2>14 DEF BinInv, IndexTrue
<1>20. ASSUME NEW u \in Users, LockToRemove(u)
      PROVE  BinInv'
  <2> DEFINE r == tree[u]
  <2>1. Now(u, "unindex", r.op, r.target, r.pkg, r.known)
    BY <1>1, <1>20, BinMoves
  <2>2. /\ At(u, "remove")
        /\ indexLock = NoUser /\ indexLock' = u
        /\ UNCHANGED <<setting, file, index, stray, added>>
    BY <1>1, <1>20, BinDisks
  <2>3. (Course /\ LockTaken /\ MadeWhole)'
    BY <1>2, <2>1, <2>2, BinTreeAssumption
       DEF BinInv, LockTaken, HasLock, MadeWhole, HasMade, NoUser
  <2>4. (MovedThere /\ UpdatedThere)'
    BY <1>2, <2>1, <2>2 DEF BinInv, IndexTrue, MovedThere, UpdatedThere, Updating, MetadataTrue
  <2>5. NumberHeld'
    BY <1>2, <2>1, <2>2 DEF BinInv, NumberHeld, HasNumber
  <2>6. Unindexed'
    BY <1>2, <2>1, <2>2 DEF BinInv, Unindexed, LockTaken, HasLock
  <2>7. MetaKnown'
    BY <2>1, <2>2 DEF BinInv, MetaKnown, Unknown
  <2>8. FilesIndexed'
    BY <1>2, <2>1, <2>2 DEF BinInv, IndexTrue, FilesIndexed, InFlight, LockTaken, HasLock,
       MovedThere, Unindexed
  <2>9. (NothingDangles /\ MetadataTrue /\ InstancesKept /\ 0 \notin added)'
    BY <2>2 DEF BinInv, IndexTrue, NothingDangles, MetadataTrue, InstancesKept
  <2> QED BY <1>1, <2>3, <2>4, <2>5, <2>6, <2>7, <2>8, <2>9 DEF BinInv, IndexTrue
<1>21. ASSUME NEW u \in Users, Unindex(u)
      PROVE  BinInv'
  <2> DEFINE r == tree[u]
  <2>1. Now(u, "unlink", r.op, r.target, r.pkg, [r.known EXCEPT ![r.target] = NoEntry])
    BY <1>1, <1>21, BinMoves
  <2>2. /\ At(u, "unindex")
        /\ index' = [index EXCEPT ![tree[u].target] = NoEntry]
        /\ added' = added \ {file[tree[u].target].image}
        /\ UNCHANGED <<setting, file, indexLock, stray>>
    BY <1>1, <1>21, BinDisks
  <2>3. Course'
    BY <1>2, <2>1, <2>2 DEF BinInv
  <2>4. LockTaken'
    BY <1>2, <2>1, <2>2 DEF BinInv, LockTaken, HasLock
  <2>5. MadeWhole'
    BY <1>2, <2>1, <2>2 DEF BinInv, MadeWhole, HasMade
  <2>6. MovedThere'
    BY <1>2, <2>1, <2>2 DEF BinInv, MovedThere, LockTaken, HasLock, MadeWhole, HasMade
  <2>7. UpdatedThere'
    BY <1>2, <2>1, <2>2 DEF BinInv, IndexTrue, UpdatedThere, Updating, MadeWhole, HasMade,
       NumberHeld, HasNumber, MetadataTrue
  <2>8. NumberHeld'
    BY <1>2, <2>1, <2>2 DEF BinInv, NumberHeld, HasNumber, UpdatedThere, Updating, LockTaken,
       HasLock, MadeWhole, HasMade
  <2>9. Unindexed'
    BY <1>2, <2>1, <2>2 DEF BinInv, Unindexed, LockTaken, HasLock
  <2>10. MetaKnown'
    BY <1>2, <2>1, <2>2 DEF BinInv, MetaKnown, Unknown
  <2>11. FilesIndexed'
    BY <1>2, <2>1, <2>2 DEF BinInv, IndexTrue, FilesIndexed, InFlight, LockTaken, HasLock,
       MovedThere, Unindexed
  <2>12. NothingDangles'
    BY <1>2, <2>1, <2>2 DEF BinInv, IndexTrue, NothingDangles, Unindexed, MadeWhole, HasMade,
       MovedThere
  <2>13. MetadataTrue'
    BY <1>2, <2>1, <2>2 DEF BinInv, IndexTrue, MetadataTrue, MadeWhole, HasMade, MovedThere,
       UpdatedThere, Updating
  <2>14. (InstancesKept /\ 0 \notin added)'
    BY <1>2, <2>1, <2>2 DEF BinInv, InstancesKept, NumberHeld, HasNumber, UpdatedThere, Updating,
       MovedThere
  <2> QED BY <1>1, <2>3, <2>4, <2>5, <2>6, <2>7, <2>8, <2>9, <2>10, <2>11, <2>12, <2>13,
     <2>14 DEF BinInv, IndexTrue
<1>22. ASSUME NEW u \in Users, Unlink(u)
      PROVE  BinInv'
  <2> DEFINE r == tree[u]
  <2>1. Left(u, r.known)
    BY <1>1, <1>22, BinMoves
  <2>2. /\ At(u, "unlink")
        /\ file' = [file EXCEPT ![tree[u].target] = Missing]
        /\ indexLock' = NoUser
        /\ UNCHANGED <<setting, index, stray, added>>
    BY <1>1, <1>22, BinDisks
  <2>3. Course'
    BY <1>2, <2>1, <2>2 DEF BinInv
  <2>4. LockTaken'
    BY <1>2, <2>1, <2>2 DEF BinInv, LockTaken, HasLock
  <2>5. MadeWhole'
    BY <1>2, <2>1, <2>2 DEF BinInv, MadeWhole, HasMade
  <2>6. MovedThere'
    BY <1>2, <2>1, <2>2 DEF BinInv, MovedThere, LockTaken, HasLock, MadeWhole, HasMade
  <2>7. UpdatedThere'
    BY <1>2, <2>1, <2>2 DEF BinInv, IndexTrue, UpdatedThere, Updating, MadeWhole, HasMade,
       NumberHeld, HasNumber, MetadataTrue
  <2>8. NumberHeld'
    BY <1>2, <2>1, <2>2 DEF BinInv, NumberHeld, HasNumber, UpdatedThere, Updating, LockTaken,
       HasLock, MadeWhole, HasMade
  <2>9. Unindexed'
    BY <1>2, <2>1, <2>2 DEF BinInv, Unindexed, LockTaken, HasLock
  <2>10. MetaKnown'
    BY <2>1, <2>2 DEF BinInv, MetaKnown, Unknown
  <2>11. FilesIndexed'
    BY <1>2, <2>1, <2>2 DEF BinInv, IndexTrue, FilesIndexed, InFlight, LockTaken, HasLock,
       MovedThere, Unindexed
  <2>12. NothingDangles'
    BY <1>2, <2>1, <2>2 DEF BinInv, IndexTrue, NothingDangles, Unindexed, MadeWhole, HasMade,
       MovedThere
  <2>13. MetadataTrue'
    BY <1>2, <2>1, <2>2 DEF BinInv, IndexTrue, MetadataTrue, MadeWhole, HasMade, MovedThere,
       UpdatedThere, Updating
  <2>14. (InstancesKept /\ 0 \notin added)'
    BY <1>2, <2>1, <2>2 DEF BinInv, InstancesKept, NumberHeld, HasNumber, UpdatedThere, Updating,
       MovedThere
  <2> QED BY <1>1, <2>3, <2>4, <2>5, <2>6, <2>7, <2>8, <2>9, <2>10, <2>11, <2>12, <2>13,
     <2>14 DEF BinInv, IndexTrue
<1>23. ASSUME NEW u \in Users, Exit(u)
      PROVE  BinInv'
  <2> DEFINE r == tree[u]
  <2>1. Left(u, Unknown)
    BY <1>1, <1>23, BinMoves
  <2>2. /\ At(u, "idle")
        /\ UNCHANGED <<setting, file, index, added>>
        /\ LetGo(u)
    BY <1>1, <1>23, BinDisks
  <2>3. (Course /\ LockTaken /\ MadeWhole)'
    BY <1>2, <2>1, <2>2 DEF BinInv, LockTaken, HasLock, MadeWhole, HasMade
  <2>4. (MovedThere /\ UpdatedThere)'
    BY <1>2, <2>1, <2>2 DEF BinInv, IndexTrue, MovedThere, UpdatedThere, Updating, MetadataTrue
  <2>5. NumberHeld'
    BY <1>2, <2>1, <2>2 DEF BinInv, NumberHeld, HasNumber
  <2>6. Unindexed'
    BY <1>2, <2>1, <2>2 DEF BinInv, Unindexed, LockTaken, HasLock
  <2>7. MetaKnown'
    BY <2>1, <2>2 DEF BinInv, MetaKnown, Unknown
  <2>8. FilesIndexed'
    BY <1>2, <2>1, <2>2 DEF BinInv, IndexTrue, FilesIndexed, InFlight, LockTaken, HasLock,
       MovedThere, Unindexed
  <2>9. (NothingDangles /\ MetadataTrue /\ InstancesKept /\ 0 \notin added)'
    BY <2>2 DEF BinInv, IndexTrue, NothingDangles, MetadataTrue, InstancesKept
  <2> QED BY <1>1, <2>3, <2>4, <2>5, <2>6, <2>7, <2>8, <2>9 DEF BinInv, IndexTrue
<1>24. ASSUME NEW u \in Users, Kill(u)
      PROVE  BinInv'
  <2> DEFINE r == tree[u]
  <2>1. Left(u, Unknown)
    BY <1>1, <1>24, BinMoves
  <2>2. /\ UNCHANGED <<setting, file, index, added>>
        /\ LetGo(u)
    BY <1>1, <1>24, BinDisks
  <2>3. (Course /\ LockTaken /\ MadeWhole)'
    BY <1>2, <2>1, <2>2 DEF BinInv, LockTaken, HasLock, MadeWhole, HasMade
  <2>4. (MovedThere /\ UpdatedThere)'
    BY <1>2, <2>1, <2>2 DEF BinInv, IndexTrue, MovedThere, UpdatedThere, Updating, MetadataTrue
  <2>5. NumberHeld'
    BY <1>2, <2>1, <2>2 DEF BinInv, NumberHeld, HasNumber
  <2>6. Unindexed'
    BY <1>2, <2>1, <2>2 DEF BinInv, Unindexed, LockTaken, HasLock
  <2>7. MetaKnown'
    BY <2>1, <2>2 DEF BinInv, MetaKnown, Unknown
  <2>8. FilesIndexed'
    BY <1>2, <2>1, <2>2 DEF BinInv, IndexTrue, FilesIndexed, InFlight, LockTaken, HasLock,
       MovedThere, Unindexed
  <2>9. (NothingDangles /\ MetadataTrue /\ InstancesKept /\ 0 \notin added)'
    BY <2>2 DEF BinInv, IndexTrue, NothingDangles, MetadataTrue, InstancesKept
  <2> QED BY <1>1, <2>3, <2>4, <2>5, <2>6, <2>7, <2>8, <2>9 DEF BinInv, IndexTrue
<1> QED BY <1>3, <1>4, <1>5, <1>6, <1>7, <1>8, <1>9, <1>10, <1>11, <1>12, <1>13, <1>14, <1>15,
   <1>16, <1>17, <1>18, <1>19, <1>20, <1>21, <1>22, <1>23, <1>24 DEF BinTreeNext, Operations

\* The invariant holds at first.
LEMMA BinInitInv == BinTreeInit => BinInv
<1> SUFFICES ASSUME BinTreeInit PROVE BinInv
  OBVIOUS
<1>1. BinTyped
  BY BinInitTyped
<1>2. \A u \in Users : tree[u] = Fresh
  BY DEF BinTreeInit
<1>3. \A q \in Ids : Fresh.known[q] = NoEntry
  BY DEF Fresh
<1>4. Fresh.at = "idle" /\ Fresh.op = "none"
  BY DEF Fresh
<1>5. IndexTrue
  BY <1>2, <1>4 DEF BinTreeInit, IndexTrue, FilesIndexed, NothingDangles, MetadataTrue, InFlight,
     At,
    Complete, Missing, Pkg, NoEntry, Entry
<1> QED BY <1>1, <1>2, <1>3, <1>4, <1>5 DEF BinInv, Course, LockTaken, HasLock, MadeWhole,
   HasMade, MovedThere,
      UpdatedThere, Updating, NumberHeld, HasNumber, Unindexed, MetaKnown, InstancesKept, BinTreeInit,
      NoEntry, Entry, Missing, Pkg

\* And therefore always.
LEMMA BinTreeAlways == BinTreeSpec => []BinInv
<1>1. BinTreeInit => BinInv
  BY BinInitInv
<1>2. BinInv /\ [BinTreeNext]_binVars => BinInv'
  BY BinNextKeeps
<1> QED BY <1>1, <1>2, PTL DEF BinTreeSpec

\* Whatever processes die or race, and however many they are, the index tells what
\* populate would find (binarytree.populate, inject, aux_update and remove).
THEOREM BinTreeIndexTrue == BinTreeSpec => []IndexTrue
<1>1. BinInv => IndexTrue
  BY DEF BinInv
<1> QED BY <1>1, BinTreeAlways, PTL

\* With a path for each build and nothing removed, a package that was added is not
\* overwritten by another one (binarytree._allocate_filename_multi and inject).
THEOREM BinTreeInstancesKept == BinTreeSpec => []InstancesKept
<1>1. BinInv => InstancesKept
  BY DEF BinInv
<1> QED BY <1>1, BinTreeAlways, PTL
=============================================================================
