--------------------------------- MODULE Fetch --------------------------------
(***************************************************************************)
(* async_fetch and the processes that run it: the parallel-fetch process,  *)
(* the fetchers of builds and of --fetchonly download the same distfiles   *)
(* into DISTDIR.  A file is downloaded beside its final name, checked and  *)
(* renamed; partial downloads are resumed, even those of a process that    *)
(* was killed; mirrors are tried one after the other, each after a look    *)
(* at its layout.conf, which is fetched as well.                           *)
(***************************************************************************)
EXTENDS Integers, Sequences, FiniteSets, SequencesExt, QueueLoop

CONSTANTS
  Fetchers,    \* processes
  NoFetcher,
  Kind,        \* Kind[p]: "normal", "fetchonly", "prefetch" (PORTAGE_PARALLEL_FETCHONLY)
  Distfiles,
  Digested,    \* the distfiles with digests; the others may be fetched without
  Locations,
  SrcUri,      \* SrcUri[f]: sequence of [loc, kind: "plain" or "mirror", over: "", "fetch", "mirror"]
  Local,       \* custom local mirrors, a sequence of locations
  Public,      \* GENTOO_MIRRORS, a sequence of locations
  Restricts,   \* the values of RESTRICT
  OnDisk,      \* bound: what DISTDIR may have in the beginning
  Served,      \* bound: what a command may leave when it does not resume
  OnRo,        \* bound: what a read-only distdir may have
  OnFsMirror,  \* bound: what a file system mirror may have
  MaxTries,    \* PORTAGE_FETCH_CHECKSUM_TRY_MIRRORS
  MaxRuns      \* bound: fetches that are started

\* What a file may be: the sizes are 0, less than PORTAGE_FETCH_RESUME_MIN_SIZE, less
\* than the recorded one, the recorded one (with the right data or without), and more.
Pieces   == {"small", "part"}
FullSize == {"good", "wrong"}
Versions == {"none", "empty", "over"} \cup Pieces \cup FullSize

UriEntries == [loc : Locations, kind : {"plain", "mirror"}, over : {"", "fetch", "mirror"}]
Mirrors    == ToSet(Local) \cup ToSet(Public)

ASSUME FetchAssumption ==
  /\ IsFiniteSet(Distfiles) /\ Digested \subseteq Distfiles
  /\ SrcUri \in [Distfiles -> Seq(UriEntries)] /\ {Local, Public} \subseteq Seq(Locations)
  /\ Distfiles \cap Locations = {}
  /\ NoFetcher \notin Fetchers /\ MaxTries \in Nat \ {0} /\ MaxRuns \in Nat
  /\ Kind \in [Fetchers -> {"normal", "fetchonly", "prefetch"}]
  /\ OnDisk \subseteq Versions \cup {"link"} /\ Served \subseteq Versions
  /\ OnRo \subseteq {"none"} \cup FullSize
  /\ OnFsMirror \subseteq {"none", "good", "wrong", "part"}

VARIABLES
  final,      \* final[f]: the file in DISTDIR, or "link" to a read-only distdir
  down,       \* down[f]: the file with the suffix .__download__
  saved,      \* saved[f]: the contents of the _checksum_failure_ files
  ro, fsm,    \* what a read-only distdir and a file system mirror have of f
  restrict,   \* RESTRICT
  locks,      \* locks[x]: who holds the lock of a distfile or of a layout.conf
  layouts,    \* mirrors whose layout is in .mirror-cache.json
  fpc, fv,    \* where a process is, and its local variables
  outcome,    \* outcome[p]: what its last run has returned
  termed,     \* processes that were sent SIGTERM
  runs

fetchVars == <<final, down, saved, ro, fsm, restrict, locks, layouts, fpc, fv, outcome,
               termed, runs>>
fetchEnv  == <<ro, fsm, restrict, runs>>

Fresh   == [todo |-> {}, cur |-> "", loc |-> "", uris |-> << >>, tried |-> {}, fetched |-> 0,
            fails |-> 0, space |-> TRUE, cache |-> {}, failed |-> {}]

FetchInit ==
  /\ final \in [Distfiles -> OnDisk]
  /\ down \in [Distfiles -> OnDisk \cap {"none", "part", "good"}]
  /\ saved = [f \in Distfiles |-> {}]
  /\ ro \in [Distfiles -> OnRo] /\ fsm \in [Distfiles -> OnFsMirror]
  /\ restrict \in Restricts
  /\ locks = [x \in Distfiles \cup Mirrors |-> NoFetcher] /\ layouts = {}
  /\ fpc = [p \in Fetchers |-> "idle"] /\ fv = [p \in Fetchers |-> Fresh]
  /\ outcome = [p \in Fetchers |-> "none"] /\ termed = {} /\ runs = 0

-------------------------------------------------------------------------------
(* Pure parts                                                              *)

\* stat follows symbolic links.
Seen(f) == IF final[f] = "link" THEN ro[f] ELSE final[f]

\* _check_distfile: with digests the data are compared, in a prefetch the size only.
MutMatches(p, f, c) == IF f \notin Digested THEN c \notin {"none", "empty"} ELSE c \in FullSize
Matches(p, f, c) ==
  IF f \notin Digested THEN c \notin {"none", "empty"}
  ELSE c \in (IF Kind[p] = "prefetch" THEN FullSize ELSE {"good"})

\* The URIs of a file, in the order in which they are tried: mirrors, mirror:// URIs,
\* then the URIs of SRC_URI from the last to the first.
MirrorRestricted(f) ==
  {"fetch", "mirror"} \cap restrict # {} /\ (SrcUri[f] = << >> \/ SrcUri[f][1].over # "mirror")
Plain(f)  == Only(SrcUri[f], {u \in UriEntries : u.kind = "plain" /\ ("fetch" \in restrict => u.over # "")})
Third(f)  == Only(SrcUri[f], {u \in UriEntries : u.kind = "mirror"})
Locs(s)   == [i \in DOMAIN s |-> s[i].loc]
Primaries(f) == Reverse(Locs(Plain(f))) \o Locs(Third(f))
UrisOf(f) ==
  LET mirrors == Local \o (IF MirrorRestricted(f) THEN << >> ELSE Public) \o Locs(Third(f))
  IN  IF "primaryuri" \in restrict THEN Primaries(f) \o mirrors ELSE mirrors \o Primaries(f)

\* _checksum_failure_temp_file: the file is renamed, or removed when it is there already.
MutSave(f, S) == saved' = [saved EXCEPT ![f] = IF @ = {} THEN S ELSE @]
Save(f, S) == saved' = [saved EXCEPT ![f] = @ \cup S]

At(p, l)     == fpc[p] = l
To(p, l)     == fpc' = [fpc EXCEPT ![p] = l]
Cur(p)       == fv[p].cur
Free(x)      == locks[x] = NoFetcher
Blocking(p)  == Kind[p] = "normal"
ReleaseAll(p) == locks' = [x \in DOMAIN locks |-> IF locks[x] = p THEN NoFetcher ELSE locks[x]]

-------------------------------------------------------------------------------
(* A run                                                                   *)

\* EbuildFetcher: nothing is started when all files are there (_prefetch_size_ok), or
\* are there and good (_check_already_fetched, before a build).
AlreadyFetched(p) ==
  \A f \in Distfiles : Matches(p, f, Seen(f))
StartFetcher(p) ==
  /\ At(p, "idle") /\ runs < MaxRuns /\ runs' = runs + 1
  /\ IF AlreadyFetched(p)
     THEN /\ outcome' = [outcome EXCEPT ![p] = IF Kind[p] = "fetchonly" THEN "none" ELSE "ok"]
          /\ UNCHANGED <<fpc, fv>>
     ELSE /\ outcome' = [outcome EXCEPT ![p] = "none"] /\ To(p, "next")
          /\ \E s \in BOOLEAN : fv' = [fv EXCEPT ![p] = [Fresh EXCEPT !.todo = Distfiles, !.space = s]]
  /\ UNCHANGED <<final, down, saved, ro, fsm, restrict, locks, layouts, termed>>

\* The loop over the files, and the return value.
NextFile(p) ==
  /\ At(p, "next") /\ fv[p].todo # {} /\ To(p, "lock")
  /\ \E f \in fv[p].todo :
       fv' = [fv EXCEPT ![p] = [Fresh EXCEPT !.todo = fv[p].todo \ {f}, !.cur = f, !.uris = UrisOf(f),
                                             !.space = fv[p].space, !.failed = fv[p].failed]]
  /\ UNCHANGED <<final, down, saved, fetchEnv, locks, layouts, outcome, termed>>
Return(p) ==
  /\ At(p, "next") /\ fv[p].todo = {} /\ To(p, "idle")
  /\ outcome' = [outcome EXCEPT ![p] = IF fv[p].failed = {} THEN "ok" ELSE "failed"]
  /\ fv' = [fv EXCEPT ![p] = Fresh] /\ termed' = termed \ {p}
  /\ UNCHANGED <<final, down, saved, fetchEnv, locks, layouts>>

\* lockfile waits, or gives up at once with fetchonly.
MutFileLock(p) ==
  /\ At(p, "lock")
  /\ To(p, "check") /\ locks' = [locks EXCEPT ![Cur(p)] = p]
  /\ UNCHANGED <<final, down, saved, fetchEnv, layouts, fv, outcome, termed>>
FileLock(p) ==
  /\ At(p, "lock")
  /\ \/ Free(Cur(p)) /\ To(p, "check") /\ locks' = [locks EXCEPT ![Cur(p)] = p]
     \/ ~Free(Cur(p)) /\ ~Blocking(p) /\ To(p, "next") /\ UNCHANGED locks
  /\ UNCHANGED <<final, down, saved, fetchEnv, layouts, fv, outcome, termed>>

\* The file is there: nothing is to be done.
CheckFinal(p) ==
  /\ At(p, "check") /\ Matches(p, Cur(p), Seen(Cur(p)))
  /\ To(p, "unlock") /\ fv' = [fv EXCEPT ![p].fetched = 2]
  /\ UNCHANGED <<final, down, saved, fetchEnv, locks, layouts, outcome, termed>>
\* It is not: links are removed and files renamed, and so is a download that cannot be
\* resumed.
Stale(f) == IF f \notin Digested THEN {} ELSE {"small", "over"} \cup FullSize
CheckAway(p) ==
  LET f == Cur(p) IN
  /\ At(p, "check") /\ ~Matches(p, f, Seen(f)) /\ To(p, "mirrors")
  /\ final' = [final EXCEPT ![f] = "none"]
  /\ Save(f, ({final[f]} \ {"none", "link"}) \cup ({down[f]} \cap Stale(f)))
  /\ down' = [down EXCEPT ![f] = IF @ \in {"empty"} \cup Stale(f) THEN "none" ELSE @]
  /\ UNCHANGED <<fetchEnv, locks, layouts, fv, outcome, termed>>

\* A read-only distdir has it: a link is made.  Otherwise a file system mirror is asked
\* (the copy is made under the name of the download), and what is there then is looked at.
LinkToRo(p) ==
  LET f == Cur(p) IN
  /\ At(p, "mirrors") /\ Matches(p, f, ro[f])
  /\ final' = [final EXCEPT ![f] = "link"]
  /\ To(p, "unlock") /\ fv' = [fv EXCEPT ![p].fetched = 2]
  /\ UNCHANGED <<down, saved, fetchEnv, locks, layouts, outcome, termed>>
CopyFromMirror(p) ==
  LET f == Cur(p) IN
  /\ At(p, "mirrors") /\ ~Matches(p, f, ro[f]) /\ To(p, "present")
  /\ down' = [down EXCEPT ![f] = IF fsm[f] # "none" /\ fv[p].space THEN fsm[f] ELSE @]
  /\ UNCHANGED <<final, saved, fetchEnv, locks, layouts, fv, outcome, termed>>
CheckDownload(p) ==
  LET f == Cur(p)
      d == down[f]
      resumable == f \notin Digested \/ (d \in Pieces /\ "fetch" \notin restrict)
      Now(to, n) == To(p, to) /\ fv' = [fv EXCEPT ![p].fetched = n]
  IN
  /\ At(p, "present")
  /\ CASE d = "none" -> Now("uris", 0) /\ UNCHANGED <<final, down, saved>>
       [] d # "none" /\ resumable -> Now("uris", 1) /\ UNCHANGED <<final, down, saved>>
       [] d \in FullSize /\ ~resumable /\ Kind[p] = "prefetch" ->
            Now("unlock", 2) /\ UNCHANGED <<final, down, saved>>
       [] d = "good" /\ ~resumable /\ Kind[p] # "prefetch" ->
            /\ final' = [final EXCEPT ![f] = "good"] /\ down' = [down EXCEPT ![f] = "none"]
            /\ Now("unlock", 2) /\ UNCHANGED saved
       [] OTHER -> /\ Save(f, {d}) /\ down' = [down EXCEPT ![f] = "none"]
                   /\ Now("uris", 0) /\ UNCHANGED final
  /\ UNCHANGED <<fetchEnv, locks, layouts, outcome, termed>>

\* The next location that was not tried.  The layout of a mirror is looked up first, in
\* the cache as it is now.
NextUri(p) ==
  /\ At(p, "uris") /\ fv[p].uris # << >>
  /\ LET loc == Head(fv[p].uris) IN
       /\ fv' = [fv EXCEPT ![p].uris = Tail(@), ![p].tried = @ \cup {loc},
                          ![p].loc = loc, ![p].cache = layouts]
       /\ To(p, IF loc \in Mirrors /\ loc \notin layouts /\ loc \notin fv[p].tried THEN "layout"
                ELSE IF loc \in fv[p].tried \/ ~fv[p].space THEN "uris" ELSE "command")
  /\ UNCHANGED <<final, down, saved, fetchEnv, locks, layouts, outcome, termed>>
GiveUp(p) ==
  /\ At(p, "uris") /\ fv[p].uris = << >> /\ To(p, "unlock")
  /\ UNCHANGED <<final, down, saved, fetchEnv, locks, layouts, fv, outcome, termed>>

\* layout.conf is fetched under a lock of its own while that of the file is held; a
\* prefetch does not wait for it, and takes one that is there.  The cache is written as it was read, with one more.
AfterLayout(p) == To(p, IF fv[p].space THEN "command" ELSE "uris")
LayoutLock(p) ==
  /\ At(p, "layout")
  /\ \/ Free(fv[p].loc) /\ To(p, "layoutfetch") /\ locks' = [locks EXCEPT ![fv[p].loc] = p]
        /\ UNCHANGED layouts
     \/ ~Free(fv[p].loc) /\ Kind[p] = "prefetch" /\ AfterLayout(p) /\ UNCHANGED locks
        /\ layouts' \in {layouts, fv[p].cache \cup {fv[p].loc}}
  /\ UNCHANGED <<final, down, saved, fetchEnv, fv, outcome, termed>>
MutLayoutFetched(p) ==
  /\ At(p, "layoutfetch") /\ AfterLayout(p)
  /\ layouts' \in {layouts, fv[p].cache \cup {fv[p].loc}}
  /\ UNCHANGED <<final, down, saved, fetchEnv, locks, fv, outcome, termed>>
LayoutFetched(p) ==
  /\ At(p, "layoutfetch") /\ AfterLayout(p)
  /\ layouts' \in {layouts, fv[p].cache \cup {fv[p].loc}}
  /\ locks' = [locks EXCEPT ![fv[p].loc] = NoFetcher]
  /\ UNCHANGED <<final, down, saved, fetchEnv, fv, outcome, termed>>

\* FETCHCOMMAND, or RESUMECOMMAND for a piece that is large enough.
Command(p) ==
  LET f == Cur(p)
      resume == fv[p].fetched = 1 /\ down[f] \notin {"none", "small"}
  IN
  /\ At(p, "command") /\ To(p, "running")
  /\ fv' = [fv EXCEPT ![p].fetched = IF resume THEN 1 ELSE 0]
  /\ down' = [down EXCEPT ![f] = IF fv[p].fetched = 1 /\ @ = "small" THEN "none" ELSE @]
  /\ UNCHANGED <<final, saved, fetchEnv, locks, layouts, outcome, termed>>
\* What the command may leave.
Downloads(p) ==
  {down[Cur(p)]} \cup IF fv[p].fetched = 1 THEN {"part"} \cup FullSize ELSE Served

\* After a command: an empty file is removed, a piece of a failed download is resumed
\* from the next location (a 404 page is removed), and the rest is checked.
MutQueue(p) == Primaries(Cur(p))
Queue(p) == Primaries(Cur(p)) \o fv[p].uris
CommandFails(p) ==
  LET f == Cur(p) IN
  /\ At(p, "running") /\ To(p, "uris")
  /\ \E c \in Downloads(p) :
       /\ c \in {"none", "empty"} \cup Pieces \/ f \notin Digested
       /\ \E page404 \in {c = "small" /\ f \in Digested, FALSE} :
          LET gone == c \in {"none", "empty"} \/ page404 IN
            /\ down' = [down EXCEPT ![f] = IF gone THEN "none" ELSE c]
            /\ fv' = [fv EXCEPT ![p].fetched =
                        IF gone THEN 0 ELSE IF f \in Digested THEN 1 ELSE @]
  /\ UNCHANGED <<final, saved, fetchEnv, locks, layouts, outcome, termed>>
Downloaded(p) ==
  LET f == Cur(p) IN
  /\ At(p, "running") /\ To(p, "unlock")
  /\ f \in Digested => "good" \in Downloads(p)
  /\ \E c \in IF f \in Digested THEN {"good"} ELSE Downloads(p) \ {"none", "empty"} :
       final' = [final EXCEPT ![f] = c]
  /\ down' = [down EXCEPT ![f] = "none"] /\ fv' = [fv EXCEPT ![p].fetched = 2]
  /\ UNCHANGED <<saved, fetchEnv, locks, layouts, outcome, termed>>
\* The second failure puts the primary URIs first, the last one ends the search.
VerifyFailed(p) ==
  LET f == Cur(p)
      n == fv[p].fails + 1
  IN
  /\ At(p, "running") /\ f \in Digested
  /\ \E c \in Downloads(p) \ {"none", "empty", "good"} : Save(f, {c})
  /\ down' = [down EXCEPT ![f] = "none"]
  /\ fv' = [fv EXCEPT ![p].fetched = 0, ![p].fails = n,
                      ![p].uris = IF n = 2 THEN Queue(p) ELSE @]
  /\ To(p, IF n >= MaxTries THEN "unlock" ELSE "uris")
  /\ UNCHANGED <<final, fetchEnv, locks, layouts, outcome, termed>>

\* The end of the loop body.
UnlockFile(p) ==
  /\ At(p, "unlock") /\ locks' = [locks EXCEPT ![Cur(p)] = NoFetcher]
  /\ LET bad == fv[p].fetched # 2 IN
       IF bad /\ Kind[p] = "normal"
       THEN /\ To(p, "idle") /\ outcome' = [outcome EXCEPT ![p] = "failed"]
            /\ fv' = [fv EXCEPT ![p] = Fresh] /\ termed' = termed \ {p}
       ELSE /\ To(p, "next") /\ fv' = [fv EXCEPT ![p].failed = @ \cup IF bad THEN {Cur(p)} ELSE {}]
            /\ UNCHANGED <<outcome, termed>>
  /\ UNCHANGED <<final, down, saved, fetchEnv, layouts>>

-------------------------------------------------------------------------------
\* SIGTERM cancels the coroutine where it waits for a command, also the one for a
\* layout: the command is terminated and the locks are released.  A process that waits
\* for a lock does not notice.
Term(p) ==
  /\ fpc[p] # "idle" /\ p \notin termed /\ termed' = termed \cup {p}
  /\ UNCHANGED <<final, down, saved, fetchEnv, locks, layouts, fpc, fv, outcome>>
Ends(p) ==
  /\ To(p, "idle") /\ fv' = [fv EXCEPT ![p] = Fresh] /\ termed' = termed \ {p}
  /\ outcome' = [outcome EXCEPT ![p] = "killed"] /\ ReleaseAll(p)
  /\ down' \in IF At(p, "running") THEN {[down EXCEPT ![Cur(p)] = c] : c \in Downloads(p)} ELSE {down}
  /\ UNCHANGED <<final, saved, fetchEnv, layouts>>
Cancelled(p) == p \in termed /\ fpc[p] \in {"running", "layoutfetch"} /\ Ends(p)
\* SIGKILL.
FetcherDies(p) == fpc[p] # "idle" /\ Ends(p)

Run(p) ==
  \/ NextFile(p) \/ Return(p) \/ FileLock(p) \/ CheckFinal(p) \/ CheckAway(p)
  \/ LinkToRo(p) \/ CopyFromMirror(p) \/ CheckDownload(p) \/ NextUri(p) \/ GiveUp(p)
  \/ LayoutLock(p) \/ LayoutFetched(p) \/ Command(p) \/ CommandFails(p) \/ Downloaded(p)
  \/ VerifyFailed(p) \/ UnlockFile(p)
FetchNext == \E p \in Fetchers : StartFetcher(p) \/ Run(p) \/ Term(p) \/ Cancelled(p) \/ FetcherDies(p)
FetchSpec == FetchInit /\ [][FetchNext]_fetchVars
FetchFairness == \A p \in Fetchers : WF_fetchVars(Run(p))

-------------------------------------------------------------------------------
\* When the fetcher of a build has succeeded, all distfiles are there with the right
\* data, and stay, whatever other fetchers do.
FetchedIsVerified ==
  \A p \in Fetchers : Kind[p] = "normal" /\ outcome[p] = "ok" => \A f \in Digested : Seen(f) = "good"

\* Two processes never work on the same download.
OneWriter ==
  \A p, q \in Fetchers : At(p, "running") /\ At(q, "running") /\ p # q => Cur(p) # Cur(q)

\* Downloads do not disturb one another.
FetchSafe == FetchedIsVerified /\ OneWriter

\* fetch.py: "Since the user may want to keep this file, rename it instead of deleting it."
\* A distfile, or a full-size download, that is not what it should be is kept under
\* another name.
NothingLost ==
  [][\A f \in Digested :
       /\ final[f] \notin {"none", "link"} /\ final'[f] # final[f] => final[f] \in saved'[f]
       /\ down[f] \in {"wrong", "over"} /\ down'[f] # down[f] => down[f] \in saved'[f]]_fetchVars

\* A file is given up only when every location was tried, as often as the checks allow.
Exhausted ==
  \A p \in Fetchers : At(p, "unlock") /\ fv[p].fetched # 2 =>
     ~fv[p].space \/ fv[p].fails = MaxTries \/ fv[p].tried = ToSet(UrisOf(Cur(p)))

\* Every run comes to its end, unless a command runs forever: the locks of distfiles and
\* layouts are always given back.
FetchEnds == \A p \in Fetchers : []<>(fpc[p] = "idle")
===============================================================================
