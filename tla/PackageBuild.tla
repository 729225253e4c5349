----------------------------- MODULE PackageBuild -----------------------------
(***************************************************************************)
(* The chain of tasks that builds one package: EbuildBuild and Binpkg, the *)
(* lock of the build directory (EbuildBuildDir over AsynchronousLock), the *)
(* merge that ends with the release of that lock (EbuildMerge), and the    *)
(* end of emerge itself.  A package's build directory lies in its category *)
(* directory, which is created and removed under a lock of its own; other  *)
(* emerge processes build in the same directories.                         *)
(***************************************************************************)
EXTENDS Naturals, FiniteSets

CONSTANTS
  Jobs,        \* packages to build: one per position of a merge list
  NoJob,
  EmergeOf,    \* EmergeOf[j]: the emerge process that j belongs to
  CatOf,       \* CatOf[d]: the category directory of a build directory
  MergeLists,  \* what may be built: records of mode[j] and dir[j], see below
  Rank,        \* Rank[j]: the position in the merge list
  LocksMayFail \* a lock helper process may be killed

\* A job of mode "merged" was done before the others.
Modes   == {"ebuild", "binary", "buildpkgonly", "fetchonly", "pretend", "uninstall", "merged"}
Emerges == {EmergeOf[j] : j \in Jobs}
Dirs    == DOMAIN CatOf
Cats    == {CatOf[d] : d \in Dirs}

ASSUME BuildAssumption ==
  /\ IsFiniteSet(Jobs) /\ NoJob \notin Jobs
  /\ MergeLists \subseteq [mode : [Jobs -> Modes], dir : [Jobs -> Dirs]]
  /\ Rank \in [Jobs -> Nat]
  /\ LocksMayFail \in BOOLEAN

VARIABLES
  mode,        \* mode[j]: what is done with the package
  dirOf,       \* dirOf[j]: PORTAGE_BUILDDIR, the same for a cpv in two roots
  at,          \* at[j]: the current task of j's chain
  lk,          \* lk[j]: where EbuildBuildDir's lock or unlock is
  futc,        \* futc[j]: its future was cancelled before it was done
  bret,        \* bret[j]: the returncode, "none", "ok" or "fail"
  bcancel,     \* bcancel[j]: cancelled
  emerge,      \* emerge[e]: "runs", "terminated", "gone", or "killed"
  catOwner, dirOwner,   \* who has the kernel's lock on the lock file that is there
  catOpen,     \* catOpen[c]: who has that lock file of c open in emerge's own process
  dropped,     \* categories in which a chain has lost its lock (a history)
  catdir,      \* category directories that exist
  lockfile,    \* lockfile[d]: the lock file of d, which lies in the category
  built        \* build directories that exist

jobs      == <<mode, dirOf>>
jobState  == <<at, bret, bcancel>>
catLock   == <<catOwner, catOpen, dropped>>
lockState == <<lk, futc, catLock, dirOwner, lockfile, catdir>>
buildVars == <<jobs, jobState, lockState, emerge, built>>

Cat(j)    == CatOf[dirOf[j]]
Mine(e)   == {j \in Jobs : EmergeOf[j] = e}
Lives(j)  == emerge[EmergeOf[j]] \in {"runs", "terminated"}
Put(f, j, v) == [f EXCEPT ![j] = v]

\* Tasks that work inside the build directory, or rely on what it holds.
Working == {"clean", "check", "fetchq", "fetch", "nofetch", "build", "package", "hooks",
            "endclean", "verify", "unpack", "setupq", "setup", "contents", "chpath",
            "pretend", "merging"}
\* Chains that have come to an end, one way or another.
Finished == {"ended", "done", "dropped", "gone"}
\* What keeps a chain among the scheduler's running jobs.
Running(j) == at[j] \notin Finished \cup {"none", "merging", "hook"}

BuildInit ==
  /\ \E l \in MergeLists : mode = l.mode /\ dirOf = l.dir
  /\ at = [j \in Jobs |-> IF mode[j] = "merged" THEN "done" ELSE "none"]
  /\ lk = [j \in Jobs |-> "none"]
  /\ futc = [j \in Jobs |-> FALSE]
  /\ bret = [j \in Jobs |-> "none"]
  /\ bcancel = [j \in Jobs |-> FALSE]
  /\ emerge = [e \in Emerges |-> "runs"]
  /\ catOwner = [c \in Cats |-> NoJob]
  /\ dirOwner = [d \in Dirs |-> NoJob]
  /\ catOpen = [c \in Cats |-> {}] /\ dropped = {}
  /\ catdir = {} /\ built = {}
  /\ lockfile = [d \in Dirs |-> FALSE]

-------------------------------------------------------------------------------
\* The end of an emerge process: the kernel and the lock helpers release its
\* locks.  A helper removes its lock file, a lock taken in the process leaves it.
Dies(e, how) ==
  /\ emerge' = [emerge EXCEPT ![e] = how]
  /\ at' = [j \in Jobs |-> IF j \in Mine(e) THEN "gone" ELSE at[j]]
  /\ lk' = [j \in Jobs |-> IF j \in Mine(e) THEN "none" ELSE lk[j]]
  /\ catOwner' = [c \in Cats |-> IF catOwner[c] \in Mine(e) THEN NoJob ELSE catOwner[c]]
  /\ dirOwner' = [d \in Dirs |-> IF dirOwner[d] \in Mine(e) THEN NoJob ELSE dirOwner[d]]
  /\ \E removed \in SUBSET {c \in Cats : catOwner[c] \in Mine(e)} :
       catOpen' = [c \in Cats |-> IF c \in removed THEN {} ELSE catOpen[c] \ Mine(e)]
  /\ \E removed \in SUBSET {d \in Dirs : dirOwner[d] \in Mine(e)} :
       lockfile' = [d \in Dirs |-> lockfile[d] /\ d \notin removed]
  /\ UNCHANGED <<bret, bcancel, futc, dropped, catdir, built>>

\* _internal_caller_exception_handler: an exception in a callback ends emerge at once.
Unhandled(j) == Dies(EmergeOf[j], "killed")

\* The main loop is done when nothing runs and nothing is left to start.
EmergeExits(e) ==
  /\ emerge[e] \in {"runs", "terminated"}
  /\ \A j \in Mine(e) : at[j] \in {"none", "ended", "dropped", "done"}
  /\ \/ emerge[e] = "terminated"
     \/ /\ \A j \in Mine(e) : at[j] = "none" => \E i \in Mine(e) : bret[i] = "fail"
        /\ \A j \in Mine(e) : at[j] = "ended" =>
             bret[j] = "fail" \/ mode[j] \in {"buildpkgonly", "fetchonly"}
  /\ Dies(e, "gone")

-------------------------------------------------------------------------------
\* AsynchronousLock._start for a category: an attempt in emerge's own process first.
\* On what another chain of this emerge has locked there the kernel grants the lock
\* again, _lock_manager finds the inode among _open_inodes and closes the descriptor,
\* and that chain's lock is dropped.  Here, and when another process has the lock, the
\* attempt raises TryAgain, and a lock helper, a process of its own, waits.
TryCatdir(j, taken, wait) ==
  LET mine == catOpen[Cat(j)] \cap Mine(EmergeOf[j])
  IN \/ /\ catOwner[Cat(j)] = NoJob /\ mine = {}
        /\ catOwner' = Put(catOwner, Cat(j), j)
        /\ catOpen' = Put(catOpen, Cat(j), catOpen[Cat(j)] \cup {j})
        /\ lk' = Put(lk, j, taken) /\ UNCHANGED dropped
     \/ /\ catOwner[Cat(j)] # NoJob \/ mine # {}
        /\ IF catOwner[Cat(j)] \in mine
           THEN catOwner' = Put(catOwner, Cat(j), NoJob) /\ dropped' = dropped \cup {Cat(j)}
           ELSE UNCHANGED <<catOwner, dropped>>
        /\ lk' = Put(lk, j, wait) /\ UNCHANGED catOpen

\* The helper's blocking lockfile.
HelperLocked(j) ==
  /\ Lives(j) /\ lk[j] \in {"catwait", "recatwait"} /\ catOwner[Cat(j)] = NoJob
  /\ catOwner' = Put(catOwner, Cat(j), j)
  /\ lk' = Put(lk, j, IF lk[j] = "catwait" THEN "ensure" ELSE "rmdir")
  /\ UNCHANGED <<jobState, futc, catOpen, dropped, dirOwner, lockfile, catdir, emerge, built>>

\* unlockfile: the lock file is removed, unless someone was faster to lock it.  A chain
\* that has lost its lock removes it as well when nobody has the lock, and leaves alone
\* a file that has taken the place of its own.
ReleaseCatdir(j) ==
  LET cat == Cat(j)
      wins == catOwner[cat] = j \/ (catOwner[cat] = NoJob /\ j \in catOpen[cat])
  IN /\ catOwner' = IF catOwner[cat] = j THEN Put(catOwner, cat, NoJob) ELSE catOwner
     /\ \/ wins /\ catOpen' = Put(catOpen, cat, {})
        \/ catOpen' = Put(catOpen, cat, catOpen[cat] \ {j})
     /\ UNCHANGED dropped

\* EbuildBuildDir.async_lock: the lock of the category directory ...
CatdirLocked(j) ==
  /\ Lives(j) /\ lk[j] = "cat"
  /\ TryCatdir(j, "ensure", "catwait")
  /\ UNCHANGED <<jobState, futc, dirOwner, lockfile, catdir, emerge, built>>

\* ... under which the directory is created ...
MutCatdirEnsured(j) ==
  /\ Lives(j) /\ lk[j] = "ensure"
  /\ catdir' = catdir \cup {Cat(j)}
  /\ lk' = Put(lk, j, "open") /\ ReleaseCatdir(j)
  /\ UNCHANGED <<jobState, futc, dirOwner, lockfile, emerge, built>>
CatdirEnsured(j) ==
  /\ Lives(j) /\ lk[j] = "ensure"
  /\ catdir' = catdir \cup {Cat(j)}
  /\ lk' = Put(lk, j, "open")
  /\ UNCHANGED <<jobState, futc, catLock, dirOwner, lockfile, emerge, built>>

\* ... and the lock file of the build directory in it: a directory that is gone by
\* then is DirectoryNotFound, which nobody catches.
BuilddirOpened(j) ==
  /\ Lives(j) /\ lk[j] = "open"
  /\ IF Cat(j) \notin catdir THEN Unhandled(j)
     ELSE /\ lockfile' = Put(lockfile, dirOf[j], TRUE) /\ lk' = Put(lk, j, "dir")
          /\ UNCHANGED <<jobState, futc, catLock, dirOwner, catdir, emerge, built>>

\* ... then the lock of the build directory.  A lock file that was removed while it was
\* waited for is created again, where its directory is still there.
MutBuilddirLocked(j) ==
  /\ Lives(j) /\ lk[j] = "dir"
  /\ IF Cat(j) \notin catdir THEN Unhandled(j)
     ELSE /\ dirOwner' = Put(dirOwner, dirOf[j], j) /\ lockfile' = Put(lockfile, dirOf[j], TRUE)
          /\ lk' = Put(lk, j, "both")
          /\ UNCHANGED <<jobState, futc, catLock, catdir, emerge, built>>
BuilddirLocked(j) ==
  /\ Lives(j) /\ lk[j] = "dir" /\ dirOwner[dirOf[j]] = NoJob
  /\ IF Cat(j) \notin catdir THEN Unhandled(j)
     ELSE /\ dirOwner' = Put(dirOwner, dirOf[j], j) /\ lockfile' = Put(lockfile, dirOf[j], TRUE)
          /\ lk' = Put(lk, j, "both")
          /\ UNCHANGED <<jobState, futc, catLock, catdir, emerge, built>>

\* catdir_unlocked: the future has its result, which is an error if it was cancelled.
CatdirUnlocked(j) ==
  /\ Lives(j) /\ lk[j] = "both"
  /\ IF futc[j] THEN Unhandled(j)
     ELSE /\ ReleaseCatdir(j) /\ lk' = Put(lk, j, "held")
          /\ UNCHANGED <<jobState, futc, dirOwner, lockfile, catdir, emerge, built>>

\* A lock helper that is killed: the exception reaches no handler while the lock
\* is taken, and the removal of the category directory is left out afterwards.
LockFails(j) ==
  /\ LocksMayFail /\ Lives(j)
  /\ \/ lk[j] \in {"catwait", "dir"} /\ Unhandled(j)
     \/ /\ lk[j] = "recatwait" /\ lk' = Put(lk, j, "free")
        /\ UNCHANGED <<jobState, futc, catLock, dirOwner, lockfile, catdir, emerge, built>>

\* async_unlock: the build directory first, then the category once more, which is
\* removed when nothing is left in it.
UnlockBuilddir(j) ==
  /\ Lives(j) /\ lk[j] = "undir"
  /\ dirOwner' = Put(dirOwner, dirOf[j], NoJob)
  /\ lockfile' = Put(lockfile, dirOf[j], FALSE)
  /\ lk' = Put(lk, j, "recat")
  /\ UNCHANGED <<jobState, futc, catLock, catdir, emerge, built>>
RelockCatdir(j) ==
  /\ Lives(j) /\ lk[j] = "recat"
  /\ TryCatdir(j, "rmdir", "recatwait")
  /\ UNCHANGED <<jobState, futc, dirOwner, lockfile, catdir, emerge, built>>
RemoveCatdir(j) ==
  /\ Lives(j) /\ lk[j] = "rmdir"
  /\ catdir' = IF \A d \in Dirs : CatOf[d] = Cat(j) => ~lockfile[d] /\ d \notin built
               THEN catdir \ {Cat(j)} ELSE catdir
  /\ ReleaseCatdir(j) /\ lk' = Put(lk, j, "free")
  /\ UNCHANGED <<jobState, futc, dirOwner, lockfile, emerge, built>>

-------------------------------------------------------------------------------
\* The handlers of a chain: what follows a task that has ended well.  EbuildBuild:
\* _start_with_metadata, with _check_manifest, waits for a running prefetcher.
StartWithMetadata == {"prefetch"}
\* _prefetch_exit: a fetch without the build directory, or its lock.
PrefetchExit(m) == IF m = "fetchonly" THEN {"fetchonly", "fetchonlyq"} ELSE {"locking"}
\* _start_pre_clean, _start_fetcher and _start_unmerge: the lock has been taken.
StartPreClean == {"clean"}
StartFetcher  == {"fetchq", "verify"}
StartUnmerge  == {"merging", "unlock"}
\* _run_pkg_pretend: clean what is left there, fetch and verify a binary package,
\* run pkg_pretend, clean.
RunPkgPretend(s) == CASE s = "locking"  -> {"clean", "fetch", "verify", "pretend"}
                      [] s = "clean"    -> {"fetch", "verify", "pretend"}
                      [] s = "fetch"    -> {"verify"}
                      [] s = "verify"   -> {"unpack"}
                      [] s = "unpack"   -> {"pretend"}
                      [] s = "pretend"  -> {"endclean"}
                      [] s = "endclean" -> {"unlock"}
\* _pre_clean_exit, _start_fetch (all fetched already, or the fetch queue), _fetch_exit
PreCleanExit == {"check"}
StartFetch   == {"fetchq", "build"}
FetchExit    == {"build"}
\* _build_exit and _buildpkg_exit: the lock is kept for the merge.
BuildExit == {"package", "ended"}
BuildpkgExit(m) == IF m = "buildpkgonly" THEN {"hooks"} ELSE {"ended"}
BuildpkgonlyHookExit == {"endclean"}
BuildpkgonlyCleanExit == {"unlock"}
\* Binpkg: _fetcher_exit, _verifier_exit, _clean_exit, _unpack_metadata_exit,
\* _setup_exit, _unpack_contents_exit (a prefix to adjust or not), _chpathtool_exit.
FetcherExit        == {"verify"}
VerifierExit       == {"clean"}
BinCleanExit       == {"unpack"}
UnpackMetadataExit == {"setupq"}
SetupExit          == {"contents"}
UnpackContentsExit == {"ended", "chpath"}
ChpathtoolExit     == {"ended"}

After(m, s) ==
  IF m = "pretend" /\ s # "prefetch" THEN RunPkgPretend(s) ELSE
  CASE s = "metadata" -> StartWithMetadata
    [] s = "prefetch" -> PrefetchExit(m)
    [] s = "locking" -> (CASE m = "binary" -> StartFetcher [] m = "uninstall" -> StartUnmerge
                           [] OTHER -> StartPreClean)
    [] s = "clean" -> IF m = "binary" THEN BinCleanExit ELSE PreCleanExit
    [] s = "check" -> StartFetch
    [] s = "fetch" -> IF m = "binary" THEN FetcherExit ELSE FetchExit
    [] s = "build" -> BuildExit
    [] s = "package" -> BuildpkgExit(m)
    [] s = "hooks" -> BuildpkgonlyHookExit
    [] s = "endclean" -> BuildpkgonlyCleanExit
    [] s = "verify" -> VerifierExit
    [] s = "unpack" -> UnpackMetadataExit
    [] s = "setup" -> SetupExit
    [] s = "contents" -> UnpackContentsExit
    [] s = "chpath" -> ChpathtoolExit
    [] s = "fetchonly" -> {"ended"}

\* ... and what follows one that has failed: _async_unlock_builddir(returncode), but
\* for _fetch_failed (pkg_nofetch), the hooks, and what runs without the lock.
MutAfterFailure(m, s) ==
  CASE s = "metadata" -> {"ended"}
    [] s = "prefetch" -> PrefetchExit(m)
    [] s = "fetch" /\ m # "binary" -> {"unlock", "nofetch"}
    [] s = "fetchonly" -> {"nofetch2"}
    [] s = "nofetch2" -> {"ended"}
    [] s = "hooks" -> BuildpkgonlyHookExit
    [] s = "build" -> {"ended"}
    [] OTHER -> {"unlock"}
AfterFailure(m, s) ==
  CASE s = "metadata" -> {"ended"}
    [] s = "prefetch" -> PrefetchExit(m)
    [] s = "fetch" /\ m \notin {"binary", "pretend"} -> {"unlock", "nofetch"}
    [] s = "fetchonly" -> {"nofetch2"}
    [] s = "nofetch2" -> {"ended"}
    [] s = "hooks" -> BuildpkgonlyHookExit
    [] OTHER -> {"unlock"}

\* The task that starts; the lock or its release starts with it.
Goes(j, next, ret) ==
  /\ at' = Put(at, j, next)
  /\ bret' = Put(bret, j, ret)
  /\ lk' = CASE next = "locking" -> Put(lk, j, "cat")
             [] next \in {"unlock", "hook"} -> Put(lk, j, "undir")
             [] OTHER -> lk

\* Tasks with a process or a coroutine that ends by itself.
Tasks == {"metadata", "prefetch", "clean", "check", "fetch", "nofetch", "build", "package",
          "hooks", "endclean", "verify", "unpack", "setup", "contents", "chpath", "pretend",
          "fetchonly", "nofetch2"}
\* Those whose handler looks at task.cancelled before anything else.
AsksCancelled == {"metadata", "prefetch", "locking", "check"}

\* The clean phase removes the build directory, other tasks create what they need.
Leaves(j, next) ==
  built' = IF at[j] = "endclean" THEN built \ {dirOf[j]}
           ELSE IF next \in Working \ {"clean"}
                     /\ ~(mode[j] = "pretend" /\ next \in {"fetch", "verify"})
           THEN built \cup {dirOf[j]} ELSE built

Ret(j, next, ret) == IF next \in {"ended", "unlock"} THEN ret ELSE "none"

TaskSucceeds(j) ==
  /\ Lives(j) /\ at[j] \in Tasks \ {"nofetch", "nofetch2"}
  /\ at[j] \in AsksCancelled => ~bcancel[j]
  /\ \E next \in After(mode[j], at[j]) :
       Goes(j, next, Ret(j, next, "ok")) /\ Leaves(j, next)
  /\ UNCHANGED <<bcancel, futc, catLock, dirOwner, lockfile, catdir, emerge>>
TaskFails(j) ==
  /\ Lives(j) /\ at[j] \in Tasks
  /\ at[j] \in AsksCancelled => ~bcancel[j]
  /\ \E next \in AfterFailure(mode[j], at[j]) : Goes(j, next, Ret(j, next, "fail"))
  /\ UNCHANGED <<bcancel, futc, catLock, dirOwner, lockfile, catdir, emerge, built>>

\* The future of async_lock has its result.
LockTaken(j) ==
  /\ Lives(j) /\ at[j] = "locking" /\ lk[j] = "held" /\ ~bcancel[j]
  /\ \E next \in After(mode[j], "locking") :
       Goes(j, next, Ret(j, next, "fail")) /\ Leaves(j, next)
  /\ UNCHANGED <<bcancel, futc, catLock, dirOwner, lockfile, catdir, emerge>>

\* The fetch queue and the queue of setup phases start what was queued.
QueueStarts(j) ==
  /\ Lives(j)
  /\ \E queued \in {<<"fetchq", "fetch">>, <<"setupq", "setup">>, <<"fetchonlyq", "fetchonly">>} :
       at[j] = queued[1] /\ at' = Put(at, j, queued[2])
  /\ UNCHANGED <<bret, bcancel, lockState, emerge, built>>

\* A chain starts when emerge has a free job; _prevent_builddir_collisions makes the
\* second of two packages with one build directory wait for the first, and merges
\* from the merge-wait queue are waited for.
MutCollides(i, j) == FALSE
Collides(i, j) == EmergeOf[i] = EmergeOf[j] /\ dirOf[i] = dirOf[j] /\ Rank[i] < Rank[j]
StartBuild(j) ==
  /\ emerge[EmergeOf[j]] = "runs" /\ at[j] = "none"
  /\ \A i \in Jobs : Collides(i, j) => at[i] \in Finished \ {"dropped"}
       /\ (at[i] = "ended" => bret[i] = "fail" \/ mode[i] \in {"buildpkgonly", "fetchonly", "pretend"})
  /\ \A i \in Mine(EmergeOf[j]) : at[i] \notin {"merging", "hook"}
  /\ \/ mode[j] \in {"ebuild", "buildpkgonly", "fetchonly"} /\ Goes(j, "metadata", "none")
     \/ mode[j] = "binary" /\ Goes(j, "prefetch", "none")
     \/ mode[j] \in {"pretend", "uninstall"} /\ Goes(j, "locking", "none")
     \/ mode[j] = "uninstall" /\ Goes(j, "ended", "ok")
  /\ UNCHANGED <<bcancel, futc, catLock, dirOwner, lockfile, catdir, emerge, built>>

\* MergeListItem.create_install_task and EbuildMerge._start: with merge-wait, when
\* no chain of this emerge is running.
ToMerge(j) == at[j] = "ended" /\ bret[j] = "ok" /\ ~bcancel[j] /\ mode[j] \in {"ebuild", "binary"}
StartMerge(j) ==
  /\ emerge[EmergeOf[j]] = "runs" /\ ToMerge(j)
  /\ \A i \in Mine(EmergeOf[j]) : ~Running(i) /\ at[i] \notin {"merging", "hook"}
  /\ Goes(j, "merging", "none")
  /\ UNCHANGED <<bcancel, futc, catLock, dirOwner, lockfile, catdir, emerge, built>>

\* EbuildMerge._merge_exit: the exit hook is _install_exit of the chain, which
\* releases the lock whether the merge has gone well or not.
MergeExit(j) ==
  /\ Lives(j) /\ at[j] = "merging"
  /\ \E ret \in {"ok", "fail"} : Goes(j, IF mode[j] = "uninstall" THEN "unlock" ELSE "hook", ret)
  /\ built' \in {built, built \ {dirOf[j]}}
  /\ UNCHANGED <<bcancel, futc, catLock, dirOwner, lockfile, catdir, emerge>>

\* _builddir_unlock_exit: the chain, or the merge, has come to its end.  The future
\* of async_unlock raises when it was cancelled.
Unlocked(j) ==
  /\ Lives(j) /\ lk[j] = "free"
  /\ IF futc[j] THEN Unhandled(j)
     ELSE /\ lk' = Put(lk, j, "none")
          /\ at' = Put(at, j, CASE at[j] = "hook" -> "done" [] at[j] = "unlock" -> "ended"
                                [] OTHER -> at[j])
          /\ UNCHANGED <<bret, bcancel, futc, catLock, dirOwner, lockfile, catdir, emerge, built>>

-------------------------------------------------------------------------------
\* CompositeTask._cancel, for all running tasks of an emerge that is terminated: a
\* queued one has ended at once, a future is cancelled, a process is killed.
Terminate(e) ==
  /\ emerge[e] = "runs" /\ emerge' = [emerge EXCEPT ![e] = "terminated"]
  /\ LET hit == {j \in Mine(e) : Running(j)}
         queued == {j \in hit : at[j] \in {"fetchq", "setupq", "fetchonlyq"}}
         unlocking == {j \in hit : at[j] = "unlock"}
     IN /\ bcancel' = [j \in Jobs |-> bcancel[j] \/ j \in hit]
        /\ futc' = [j \in Jobs |-> futc[j] \/ j \in unlocking
                                     \/ (j \in hit /\ at[j] = "locking" /\ lk[j] # "held")]
        /\ at' = [j \in Jobs |-> CASE j \in queued -> IF at[j] = "fetchonlyq" THEN "ended" ELSE "dropped"
                                   [] j \in unlocking -> "ended"
                                   [] j \in Mine(e) /\ at[j] = "hook" -> "done"
                                   [] OTHER -> at[j]]
        /\ bret' = [j \in Jobs |-> IF j \in queued \cup unlocking THEN "fail" ELSE bret[j]]
  /\ UNCHANGED <<lk, catLock, dirOwner, lockfile, catdir, built>>

\* The handlers that find their task cancelled end the chain as it is, with the
\* task's returncode: 0 when it was done before.
CancelledExit(j) ==
  /\ Lives(j) /\ bcancel[j] /\ at[j] \in AsksCancelled
  /\ \E ret \in {"ok", "fail"} : at' = Put(at, j, "ended") /\ bret' = Put(bret, j, ret)
  /\ UNCHANGED <<bcancel, lockState, emerge, built>>

\* The queues are cleared, and the exit of the cancelled task reaches a chain that
\* has ended already: the lock is released.
UnlockDropped(j) ==
  /\ Lives(j) /\ at[j] = "dropped" /\ lk[j] = "held"
  /\ lk' = Put(lk, j, "undir")
  /\ UNCHANGED <<jobState, futc, catLock, dirOwner, lockfile, catdir, emerge, built>>

\* Binpkg asks the cancelled future of an unpacking for its result, and catches no
\* CancelledError.
UnpackCancelled(j) ==
  /\ Lives(j) /\ bcancel[j] /\ at[j] \in {"unpack", "contents"} /\ mode[j] = "binary"
  /\ Unhandled(j)

LockStep(j) == CatdirLocked(j) \/ HelperLocked(j) \/ CatdirEnsured(j) \/ BuilddirOpened(j)
                 \/ BuilddirLocked(j) \/ CatdirUnlocked(j)
                 \/ UnlockBuilddir(j) \/ RelockCatdir(j) \/ RemoveCatdir(j) \/ Unlocked(j)
ChainStep(j) == TaskSucceeds(j) \/ TaskFails(j) \/ LockTaken(j) \/ QueueStarts(j)
                  \/ CancelledExit(j) \/ UnlockDropped(j) \/ UnpackCancelled(j) \/ MergeExit(j)
JobStep(j) == LockStep(j) \/ ChainStep(j) \/ StartBuild(j) \/ StartMerge(j)
BuildNext ==
  /\ \/ \E j \in Jobs : JobStep(j) \/ LockFails(j)
     \/ \E e \in Emerges : Terminate(e) \/ EmergeExits(e)
  /\ UNCHANGED jobs

\* Phases, merges and lock helpers end, queues start what they hold, and emerge
\* merges what it has built and leaves its main loop.
BuildSpec ==
  /\ BuildInit /\ [][BuildNext]_buildVars
  /\ \A j \in Jobs : WF_buildVars(JobStep(j) /\ UNCHANGED jobs)
  /\ \A e \in Emerges : WF_buildVars(EmergeExits(e) /\ UNCHANGED jobs)

-------------------------------------------------------------------------------
\* Whatever works in a build directory, the merge included, does so for the chain
\* that holds its lock, through cancellations and the deaths of other emerges.
BuildDirExclusive == \A j \in Jobs : at[j] \in Working => dirOwner[dirOf[j]] = j
\* The category directory is there for as long as a chain has the lock of a build
\* directory in it, whoever has lost the lock of the category meanwhile; and while a
\* chain creates or waits for that lock, unless two chains of one emerge were inside
\* with one category, when one of them loses its lock.
CategoryThere ==
  \A j \in Jobs :
    /\ lk[j] \in {"both", "held", "undir"} => Cat(j) \in catdir
    /\ lk[j] \in {"open", "dir"} /\ Cat(j) \notin dropped => Cat(j) \in catdir
\* Nobody removes what a chain works in or is about to lock: not another chain with
\* the same package, nor the last builder in a category under the next one
\* (EbuildBuildDir.py:134).
BuildDirSafe == BuildDirExclusive /\ CategoryThere

\* A chain that has ended keeps the lock only for its merge; or when emerge is being
\* terminated; or in the one case where buildpkgonly packs nothing.
LockReleased ==
  \A j \in Jobs : at[j] \in {"ended", "done"} /\ lk[j] # "none" =>
    \/ ToMerge(j)
    \/ emerge[EmergeOf[j]] = "terminated"
    \/ mode[j] = "buildpkgonly" /\ bret[j] = "ok"

\* Every chain that was started comes to an end, whatever other chains and other
\* emerges hold: no two of them wait for each other's category or build directory,
\* or one for the merge of a package that waits for the end of all the others.
Started(j) == at[j] \notin Finished \cup {"none"}
BuildsEnd == []<>(\A j \in Jobs : ~Started(j))
===============================================================================
