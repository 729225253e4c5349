------------------------- MODULE PackageBuildProofs -------------------------
(***************************************************************************)
(* For any number of packages, instances of emerge, build directories and  *)
(* categories: a build directory has one user, its category directory      *)
(* stays, and its lock is released, whatever fails or is cancelled.        *)
(* Below them, the verdict on one phase of such a build, for any settings. *)
(***************************************************************************)
EXTENDS PackageBuild, EbuildProcess, TLAPS

Emerging == {"runs", "terminated", "gone", "killed"}
Outside  == {"none", "metadata", "prefetch", "fetchonlyq", "fetchonly", "nofetch2", "gone"}
Locking  == {"cat", "catwait", "ensure", "open", "dir", "both", "held"}
Leaving  == {"undir", "recat", "recatwait", "rmdir", "free"}
Ats      == Working \cup Outside \cup {"locking", "unlock", "hook"} \cup Finished

BuildTypeOK ==
  /\ mode \in [Jobs -> Modes] /\ dirOf \in [Jobs -> Dirs]
  /\ at \in [Jobs -> Ats]
  /\ lk \in [Jobs -> {"none"} \cup Locking \cup Leaving]
  /\ futc \in [Jobs -> BOOLEAN] /\ bcancel \in [Jobs -> BOOLEAN]
  /\ bret \in [Jobs -> {"none", "ok", "fail"}]
  /\ emerge \in [Emerges -> Emerging]
  /\ catOwner \in [Cats -> Jobs \cup {NoJob}]
  /\ catOpen \in [Cats -> SUBSET Jobs] /\ dropped \subseteq Cats
  /\ dirOwner \in [Dirs -> Jobs \cup {NoJob}]
  /\ lockfile \in [Dirs -> BOOLEAN]
  /\ catdir \subseteq Cats

\* The tasks that a chain of each mode goes through.
OnWay(m, s) ==
  \/ m \in {"ebuild", "buildpkgonly", "fetchonly"} /\ s \in {"metadata", "prefetch"}
  \/ m \in {"ebuild", "buildpkgonly"}
       /\ s \in {"locking", "clean", "check", "fetchq", "fetch", "nofetch", "build", "package",
                 "unlock"}
  \/ m = "buildpkgonly" /\ s \in {"hooks", "endclean"}
  \/ m = "fetchonly" /\ s \in {"fetchonlyq", "fetchonly", "nofetch2"}
  \/ m = "binary" /\ s \in {"prefetch", "locking", "fetchq", "fetch", "verify", "clean",
                            "unpack", "setupq", "setup", "contents", "chpath", "unlock"}
  \/ m \in {"ebuild", "binary"} /\ s \in {"merging", "hook"}
  \/ m = "pretend" /\ s \in {"locking", "clean", "fetch", "verify", "unpack", "pretend",
                             "endclean", "unlock"}
  \/ m = "uninstall" /\ s \in {"locking", "merging", "unlock"}
OnItsWay == \A j \in Jobs : at[j] \in Finished \cup {"none"} \/ OnWay(mode[j], at[j])

\* What a chain does goes with the state of its lock.
LockFits ==
  \A j \in Jobs :
    /\ at[j] \in Working => lk[j] = "held"
    /\ at[j] = "locking" => lk[j] \in Locking
    /\ at[j] \in Outside => lk[j] = "none"
    /\ at[j] \in {"unlock", "hook"} => lk[j] \in Leaving
    /\ at[j] = "dropped" => lk[j] \in {"held", "none"} \cup Leaving

\* Who has come so far holds the locks, but for a category in which a chain has lost
\* its lock, and the lock file of the build directory is there.
OwnersTrue ==
  \A j \in Jobs :
    /\ lk[j] \in {"ensure", "open", "dir", "both", "rmdir"} /\ Cat(j) \notin dropped =>
         catOwner[Cat(j)] = j
    /\ lk[j] \in {"both", "held", "undir"} =>
         dirOwner[dirOf[j]] = j /\ lockfile[dirOf[j]]

\* A chain that ended well for its merge has kept the lock.
KeptForMerge ==
  \A j \in Jobs :
    /\ bcancel[j] => emerge[EmergeOf[j]] # "runs"
    /\ at[j] = "unlock" /\ mode[j] \in {"ebuild", "binary"} => bret[j] # "ok"
    /\ ToMerge(j) /\ emerge[EmergeOf[j]] = "runs" => lk[j] = "held"

Parts == OnItsWay /\ LockFits /\ OwnersTrue /\ CategoryThere /\ KeptForMerge /\ LockReleased
IInv == BuildTypeOK /\ Parts

\* Where jobs, directories and categories lie.
LEMMA Places ==
  ASSUME BuildTypeOK, NEW j \in Jobs
  PROVE  dirOf[j] \in Dirs /\ Cat(j) \in Cats /\ EmergeOf[j] \in Emerges
         /\ mode[j] \in Modes /\ j # NoJob
BY BuildAssumption DEF BuildTypeOK, Cat, Cats, Emerges


\* The end of an emerge process takes its locks and nobody else's.
LEMMA DiesKeeps ==
  ASSUME IInv, NEW e \in Emerges, NEW how \in {"gone", "killed"}, Dies(e, how), UNCHANGED jobs
  PROVE  IInv'
<1> USE Places
    DEF IInv, Parts, BuildTypeOK, OnItsWay, LockFits, OwnersTrue, CategoryThere,
        KeptForMerge, LockReleased, ToMerge, Locking, Leaving, Working, Outside, Cat, Mine,
        jobs, Dies, Emerging, Ats, Finished
<1>1. BuildTypeOK' /\ OnItsWay'
  OBVIOUS
<1>2. LockFits' /\ CategoryThere'
  OBVIOUS
<1>3. OwnersTrue'
  OBVIOUS
<1>4. KeptForMerge' /\ LockReleased'
  OBVIOUS
<1> QED BY <1>1, <1>2, <1>3, <1>4

\* An attempt on the lock of a category takes it when nobody has it, or leaves every
\* owner alone but in a category where a chain has lost its lock.
LEMMA TryCatdirDoes ==
  ASSUME BuildTypeOK, NEW j \in Jobs, NEW taken, NEW wait, TryCatdir(j, taken, wait)
  PROVE  /\ catOwner' \in [Cats -> Jobs \cup {NoJob}]
         /\ catOpen' \in [Cats -> SUBSET Jobs]
         /\ dropped \subseteq dropped' /\ dropped' \subseteq Cats
         /\ \A i \in Jobs : Cat(i) \notin dropped' /\ catOwner[Cat(i)] = i => catOwner'[Cat(i)] = i
         /\ \/ lk' = [lk EXCEPT ![j] = taken] /\ catOwner'[Cat(j)] = j
            \/ lk' = [lk EXCEPT ![j] = wait]
<1> USE Places DEF BuildTypeOK
<1>1. CASE /\ catOwner[Cat(j)] = NoJob
           /\ catOwner' = Put(catOwner, Cat(j), j)
           /\ catOpen' = Put(catOpen, Cat(j), catOpen[Cat(j)] \cup {j})
           /\ lk' = Put(lk, j, taken) /\ UNCHANGED dropped
  BY <1>1 DEF Put
<1>2. CASE /\ catOwner' = Put(catOwner, Cat(j), NoJob) /\ dropped' = dropped \cup {Cat(j)}
           /\ lk' = Put(lk, j, wait) /\ UNCHANGED catOpen
  BY <1>2 DEF Put
<1>3. CASE /\ UNCHANGED <<catOwner, dropped>>
           /\ lk' = Put(lk, j, wait) /\ UNCHANGED catOpen
  BY <1>3 DEF Put
<1> QED BY <1>1, <1>2, <1>3 DEF TryCatdir

\* A chain that releases the lock of a category takes it from nobody else.
LEMMA ReleaseCatdirDoes ==
  ASSUME BuildTypeOK, NEW j \in Jobs, ReleaseCatdir(j)
  PROVE  /\ catOwner' \in [Cats -> Jobs \cup {NoJob}]
         /\ catOpen' \in [Cats -> SUBSET Jobs]
         /\ dropped' = dropped
         /\ \A i \in Jobs \ {j} : catOwner[Cat(i)] = i => catOwner'[Cat(i)] = i
BY Places DEF ReleaseCatdir, BuildTypeOK, Put

\* A step of EbuildBuildDir.
LEMMA LockStepKeeps ==
  ASSUME IInv, NEW j \in Jobs, LockStep(j), UNCHANGED jobs
  PROVE  IInv'
<1>0. ASSUME Unhandled(j) PROVE IInv'
  BY <1>0, Places, DiesKeeps DEF Unhandled, IInv
<1>11. ASSUME Cat(j) \notin catdir, BuilddirOpened(j) \/ BuilddirLocked(j) PROVE IInv'
  BY <1>0, <1>11 DEF BuilddirOpened, BuilddirLocked
<1> USE Places
    DEF IInv, Parts, BuildTypeOK, OnItsWay, LockFits, OwnersTrue, CategoryThere,
        KeptForMerge, LockReleased, ToMerge, Locking, Leaving, Working, Outside, Cat,
        jobs, jobState, catLock, Put
<1>1. CASE CatdirLocked(j)
  <2>1. TryCatdir(j, "ensure", "catwait")
    BY <1>1 DEF CatdirLocked
  <2>2. /\ catOwner' \in [Cats -> Jobs \cup {NoJob}]
        /\ catOpen' \in [Cats -> SUBSET Jobs]
        /\ dropped \subseteq dropped' /\ dropped' \subseteq Cats
        /\ \A i \in Jobs : Cat(i) \notin dropped' /\ catOwner[Cat(i)] = i => catOwner'[Cat(i)] = i
        /\ \/ lk' = [lk EXCEPT ![j] = "ensure"] /\ catOwner'[Cat(j)] = j
           \/ lk' = [lk EXCEPT ![j] = "catwait"]
    BY <2>1, TryCatdirDoes DEF IInv, BuildTypeOK
  <2>3. UNCHANGED <<jobState, futc, dirOwner, lockfile, catdir, emerge>>
    BY <1>1 DEF CatdirLocked
  <2>4. lk[j] = "cat"
    BY <1>1 DEF CatdirLocked
  <2> QED BY <2>2, <2>3, <2>4
<1>2. CASE HelperLocked(j)
  <2> DEFINE next == IF lk[j] = "catwait" THEN "ensure" ELSE "rmdir"
  <2>1. /\ lk' = [lk EXCEPT ![j] = next] /\ catOwner' = [catOwner EXCEPT ![Cat(j)] = j]
        /\ catOwner[Cat(j)] = NoJob
    BY <1>2 DEF HelperLocked
  <2> QED BY <1>2, <2>1 DEF HelperLocked
<1>3. CASE CatdirEnsured(j)
  BY <1>3 DEF CatdirEnsured
<1>4. CASE BuilddirOpened(j) /\ Cat(j) \in catdir
  <2>1. /\ lk[j] = "open" /\ lk' = [lk EXCEPT ![j] = "dir"]
        /\ lockfile' = [lockfile EXCEPT ![dirOf[j]] = TRUE]
        /\ UNCHANGED <<jobState, futc, catLock, dirOwner, catdir, emerge>>
    BY <1>4 DEF BuilddirOpened
  <2> QED BY <1>4, <2>1
<1>5. CASE BuilddirLocked(j) /\ Cat(j) \in catdir
  <2>1. /\ lk[j] = "dir" /\ lk' = [lk EXCEPT ![j] = "both"]
        /\ dirOwner[dirOf[j]] = NoJob /\ dirOwner' = [dirOwner EXCEPT ![dirOf[j]] = j]
        /\ lockfile' = [lockfile EXCEPT ![dirOf[j]] = TRUE]
        /\ UNCHANGED <<jobState, futc, catLock, catdir, emerge>>
    BY <1>5 DEF BuilddirLocked
  <2> QED BY <1>5, <2>1
<1>6. CASE CatdirUnlocked(j)
  <2>1. CASE futc[j]
    BY <1>6, <2>1, <1>0 DEF CatdirUnlocked
  <2>2. CASE ~ futc[j]
    <3>1. ReleaseCatdir(j)
      BY <1>6, <2>2 DEF CatdirUnlocked
    <3> QED BY <1>6, <2>2, <3>1, ReleaseCatdirDoes DEF CatdirUnlocked
  <2> QED BY <2>1, <2>2
<1>7. CASE UnlockBuilddir(j)
  BY <1>7 DEF UnlockBuilddir
<1>9. CASE RelockCatdir(j)
  <2>1. TryCatdir(j, "rmdir", "recatwait")
    BY <1>9 DEF RelockCatdir
  <2>2. /\ catOwner' \in [Cats -> Jobs \cup {NoJob}]
        /\ catOpen' \in [Cats -> SUBSET Jobs]
        /\ dropped \subseteq dropped' /\ dropped' \subseteq Cats
        /\ \A i \in Jobs : Cat(i) \notin dropped' /\ catOwner[Cat(i)] = i => catOwner'[Cat(i)] = i
        /\ \/ lk' = [lk EXCEPT ![j] = "rmdir"] /\ catOwner'[Cat(j)] = j
           \/ lk' = [lk EXCEPT ![j] = "recatwait"]
    BY <2>1, TryCatdirDoes DEF IInv, BuildTypeOK
  <2>3. UNCHANGED <<jobState, futc, dirOwner, lockfile, catdir, emerge>>
    BY <1>9 DEF RelockCatdir
  <2>4. lk[j] = "recat"
    BY <1>9 DEF RelockCatdir
  <2> QED BY <2>2, <2>3, <2>4
<1>10. CASE RemoveCatdir(j)
  <2>1. ReleaseCatdir(j)
    BY <1>10 DEF RemoveCatdir
  <2> QED BY <1>10, <2>1, ReleaseCatdirDoes DEF RemoveCatdir
<1>8. CASE Unlocked(j)
  <2>1. CASE futc[j]
    BY <1>8, <2>1, <1>0 DEF Unlocked
  <2>2. CASE ~ futc[j]
    <3> DEFINE next == IF at[j] = "hook" THEN "done" ELSE IF at[j] = "unlock" THEN "ended" ELSE at[j]
    <3>1. at' = [at EXCEPT ![j] = next]
      <4>1. CASE at[j] = "hook"
        BY <1>8, <2>2, <4>1 DEF Unlocked
      <4>2. CASE at[j] = "unlock"
        BY <1>8, <2>2, <4>2 DEF Unlocked
      <4>3. CASE at[j] \notin {"hook", "unlock"}
        BY <1>8, <2>2, <4>3 DEF Unlocked
      <4> QED BY <4>1, <4>2, <4>3
    <3> QED BY <1>8, <2>2, <3>1 DEF Unlocked, Ats, Finished
  <2> QED BY <2>1, <2>2
<1> HIDE DEF IInv, Cat
<1> QED BY <1>1, <1>2, <1>3, <1>4, <1>5, <1>6, <1>7, <1>8, <1>9, <1>10, <1>11 DEF LockStep

\* What may follow a task: it stays on the way of its mode, keeps the lock while it works,
\* and asks for it or gives it up on the way in and out.
Follows(m, s, next) ==
  /\ next = "ended" \/ OnWay(m, next)
  /\ s \in Working => next \in Working \cup {"unlock", "ended"}
  /\ s \in Outside => next \in (Outside \ {"none", "gone"}) \cup {"locking", "ended"}

\* What follows a task that has ended well ...
LEMMA AfterSuccess ==
  ASSUME NEW m, NEW s \in (Tasks \ {"nofetch", "nofetch2"}) \cup {"locking"}, OnWay(m, s),
         NEW next \in After(m, s)
  PROVE  /\ Follows(m, s, next)
         /\ s = "locking" => next \in Working \cup {"unlock"}
         /\ next \in {"unlock", "hook"} => m \in {"buildpkgonly", "pretend", "uninstall"}
         /\ next = "ended" => m \in {"ebuild", "binary", "buildpkgonly"} \/ s \in Outside
         /\ next = "ended" /\ m \in {"ebuild", "binary"} => s \in Working
<1> USE DEF Tasks, OnWay, Follows, Working, Outside, After,
      StartWithMetadata, PrefetchExit, StartPreClean, StartFetcher, StartUnmerge, PreCleanExit,
      StartFetch, FetchExit, BuildExit, BuildpkgExit, BuildpkgonlyHookExit, BuildpkgonlyCleanExit,
      FetcherExit, VerifierExit, BinCleanExit, UnpackMetadataExit, SetupExit, UnpackContentsExit,
      ChpathtoolExit
<1>1. CASE m = "pretend"
  BY <1>1 DEF RunPkgPretend
<1>2. CASE m # "pretend" /\ s \in {"metadata", "prefetch", "locking"}
  BY <1>2
<1>3. CASE m # "pretend" /\ s \in {"clean", "check", "fetch", "build", "package"}
  BY <1>3
<1>4. CASE m # "pretend" /\ s \in {"hooks", "endclean", "verify", "unpack", "setup"}
  BY <1>4
<1>5. CASE m # "pretend" /\ s \in {"contents", "chpath", "fetchonly", "pretend"}
  BY <1>5
<1> QED BY <1>1, <1>2, <1>3, <1>4, <1>5

\* ... and what follows one that has failed.
LEMMA AfterMishap ==
  ASSUME NEW m, NEW s \in Tasks, OnWay(m, s), NEW next \in AfterFailure(m, s)
  PROVE  /\ Follows(m, s, next)
         /\ next # "hook"
         /\ next = "ended" => s \in Outside
<1> USE DEF Tasks, OnWay, Follows, Working, Outside, AfterFailure, PrefetchExit,
      BuildpkgonlyHookExit
<1>1. CASE s \in {"metadata", "prefetch", "fetch", "fetchonly", "nofetch2", "hooks"}
  BY <1>1
<1>2. CASE s \notin {"metadata", "prefetch", "fetch", "fetchonly", "nofetch2", "hooks"}
  BY <1>2
<1> QED BY <1>1, <1>2

\* What Goes does to the variables it names.
LEMMA GoesWhere ==
  ASSUME lk \in [Jobs -> {"none"} \cup Locking \cup Leaving], NEW j \in Jobs, NEW next, NEW ret,
         Goes(j, next, ret)
  PROVE  /\ at' = [at EXCEPT ![j] = next] /\ bret' = [bret EXCEPT ![j] = ret]
         /\ lk' = [lk EXCEPT ![j] = IF next = "locking" THEN "cat"
                                   ELSE IF next \in {"unlock", "hook"} THEN "undir" ELSE lk[j]]
<1>1. CASE next = "locking"
  BY <1>1 DEF Goes, Put
<1>2. CASE next \in {"unlock", "hook"}
  BY <1>2 DEF Goes, Put
<1>3. CASE next # "locking" /\ next # "unlock" /\ next # "hook"
  <2>1. lk' = lk
    BY <1>3 DEF Goes
  <2> QED BY <1>3, <2>1 DEF Goes, Put
<1> QED BY <1>1, <1>2, <1>3

\* A next task and a returncode that fit the lock of a chain.
Fits(j, next, ret) ==
  /\ next \in Ats \ {"gone", "done", "dropped"} /\ ret \in {"none", "ok", "fail"}
  /\ next = "ended" \/ OnWay(mode[j], next)
  /\ next \in Outside \cup {"locking"} => lk[j] = "none"
  /\ next \in Working \cup {"unlock", "hook"} => lk[j] = "held"
  /\ next = "unlock" /\ mode[j] \in {"ebuild", "binary"} => ret # "ok"
  /\ next = "ended" => \/ lk[j] = "none" /\ ~ (ret = "ok" /\ mode[j] \in {"ebuild", "binary"})
                       \/ lk[j] = "held" /\ ret = "ok"
                            /\ mode[j] \in {"ebuild", "binary", "buildpkgonly"}
\* What such a step leaves alone.
Handed == <<jobs, bcancel, futc, catLock, dirOwner, lockfile, catdir, emerge>>
\* A step of a chain to a task that fits.
LEMMA GoesKeeps ==
  ASSUME IInv, NEW j \in Jobs, NEW next, NEW ret, Goes(j, next, ret), UNCHANGED Handed,
         Lives(j), Fits(j, next, ret)
  PROVE  IInv'
<1> USE Places
    DEF IInv, Parts, BuildTypeOK, OnItsWay, LockFits, OwnersTrue, CategoryThere,
        KeptForMerge, LockReleased, ToMerge, Locking, Leaving, Working, Outside, Cat,
        jobs, Handed, catLock, Fits, Put, Ats, Finished
<1> DEFINE state == IF next = "locking" THEN "cat"
                    ELSE IF next \in {"unlock", "hook"} THEN "undir" ELSE lk[j]
<1>1. /\ at' = [at EXCEPT ![j] = next] /\ bret' = [bret EXCEPT ![j] = ret]
      /\ lk' = [lk EXCEPT ![j] = state]
  BY GoesWhere
<1>2. BuildTypeOK'
  BY <1>1
<1>3. OnItsWay'
  BY <1>1
<1>4. LockFits'
  <2>1. ASSUME NEW i \in Jobs, i # j PROVE at'[i] = at[i] /\ lk'[i] = lk[i]
    BY <1>1, <2>1
  <2>2. at'[j] = next /\ lk'[j] = state
    BY <1>1
  <2>3. /\ next \in Working => state = "held"
        /\ next = "locking" => state \in Locking
        /\ next \in Outside => state = "none"
        /\ next \in {"unlock", "hook"} => state \in Leaving
    OBVIOUS
  <2> HIDE DEF state
  <2> QED BY <2>1, <2>2, <2>3
<1>5. OwnersTrue' /\ CategoryThere'
  <2>1. /\ lk'[j] \in {"ensure", "open", "dir", "both", "rmdir"} => lk[j] = lk'[j]
        /\ lk'[j] \in {"open", "dir", "both", "held", "undir"} =>
             lk[j] = lk'[j] \/ lk[j] = "held"
    BY <1>1
  <2>2. ASSUME NEW i \in Jobs, i # j PROVE lk'[i] = lk[i]
    BY <1>1, <2>2
  <2> HIDE DEF state
  <2> QED BY <2>1, <2>2
<1>6. KeptForMerge' /\ LockReleased'
  <2>1. ASSUME NEW i \in Jobs, i # j
        PROVE  at'[i] = at[i] /\ bret'[i] = bret[i] /\ lk'[i] = lk[i]
    BY <1>1, <2>1
  <2>2. at'[j] = next /\ bret'[j] = ret /\ (next = "ended" => lk'[j] = lk[j])
    BY <1>1
  <2> HIDE DEF state
  <2>3. KeptForMerge'
    BY <2>1, <2>2
  <2>4. LockReleased'
    BY <2>1, <2>2 DEF Lives
  <2> QED BY <2>3, <2>4
<1> QED BY <1>2, <1>3, <1>4, <1>5, <1>6

\* What a chain that is on its way holds.
LEMMA OnTheWay ==
  ASSUME IInv, NEW j \in Jobs, at[j] \notin Finished \cup {"none"}
  PROVE  /\ OnWay(mode[j], at[j])
         /\ at[j] \in Working => lk[j] = "held"
         /\ at[j] \in Outside => lk[j] = "none"
BY DEF IInv, Parts, OnItsWay, LockFits

\* A task that ends well ...
LEMMA TaskSucceedsKeeps ==
  ASSUME IInv, NEW j \in Jobs, TaskSucceeds(j), UNCHANGED jobs PROVE IInv'
<1>1. PICK next \in After(mode[j], at[j]), ret \in {"none", "ok"} :
        Goes(j, next, ret) /\ (next = "ended" => ret = "ok")
  BY DEF TaskSucceeds, Ret
<1>2. at[j] \in Tasks \ {"nofetch", "nofetch2"} /\ UNCHANGED Handed /\ Lives(j)
  BY DEF TaskSucceeds, Handed
<1>3. at[j] \notin Finished \cup {"none"} /\ at[j] \in Working \cup Outside
  BY <1>2 DEF Tasks, Finished, Working, Outside
<1>4. /\ Follows(mode[j], at[j], next)
      /\ next \in {"unlock", "hook"} => mode[j] \in {"buildpkgonly", "pretend", "uninstall"}
      /\ next = "ended" =>
           mode[j] \in {"ebuild", "binary", "buildpkgonly"} \/ at[j] \in Outside
      /\ next = "ended" /\ mode[j] \in {"ebuild", "binary"} => at[j] \in Working
  BY <1>2, <1>3, OnTheWay, AfterSuccess
<1>6. \/ at[j] \in Working /\ lk[j] = "held"
      \/ at[j] \in Outside /\ lk[j] = "none"
  BY <1>3, OnTheWay
<1>8. CASE at[j] \in Working /\ lk[j] = "held"
  <2>1. next \in Working \cup {"unlock", "ended"}
    BY <1>8, <1>4 DEF Follows
  <2>2. next \in Ats \ (Outside \cup {"locking", "done", "dropped"})
    BY <2>1 DEF Working, Outside, Ats, Finished
  <2>3. Fits(j, next, ret)
    BY <1>1, <1>4, <1>8, <2>1, <2>2 DEF Fits, Follows, Working, Outside, Finished
  <2> QED BY <1>1, <1>2, <2>3, GoesKeeps
<1>9. CASE at[j] \in Outside /\ lk[j] = "none"
  <2>1. next \in (Outside \ {"none", "gone"}) \cup {"locking", "ended"}
    BY <1>9, <1>4 DEF Follows
  <2>2. ~ (next = "ended" /\ mode[j] \in {"ebuild", "binary"})
    BY <1>9, <1>4 DEF Working, Outside
  <2>3. next \in Ats \ (Working \cup {"gone", "done", "dropped", "unlock", "hook"})
    BY <2>1 DEF Working, Outside, Ats, Finished
  <2>4. Fits(j, next, ret)
    BY <1>1, <1>4, <1>9, <2>1, <2>2, <2>3 DEF Fits, Follows
  <2> QED BY <1>1, <1>2, <2>4, GoesKeeps
<1> QED BY <1>6, <1>8, <1>9

\* ... or badly.
LEMMA TaskFailsKeeps ==
  ASSUME IInv, NEW j \in Jobs, TaskFails(j), UNCHANGED jobs PROVE IInv'
<1>1. PICK next \in AfterFailure(mode[j], at[j]), ret \in {"none", "fail"} :
        Goes(j, next, ret)
  BY DEF TaskFails, Ret
<1>2. at[j] \in Tasks /\ UNCHANGED Handed /\ Lives(j)
  BY DEF TaskFails, Handed
<1>3. at[j] \notin Finished \cup {"none"} /\ at[j] \in Working \cup Outside
  BY <1>2 DEF Tasks, Finished, Working, Outside
<1>4. /\ Follows(mode[j], at[j], next)
      /\ next # "hook"
      /\ next = "ended" => at[j] \in Outside
  BY <1>2, <1>3, OnTheWay, AfterMishap
<1>6. \/ at[j] \in Working /\ lk[j] = "held"
      \/ at[j] \in Outside /\ lk[j] = "none"
  BY <1>3, OnTheWay
<1>8. CASE at[j] \in Working /\ lk[j] = "held"
  <2>1. next \in Working \cup {"unlock"}
    BY <1>8, <1>4 DEF Follows, Working, Outside
  <2>3. next \in Ats \ (Outside \cup {"locking", "done", "dropped"})
    BY <2>1 DEF Working, Outside, Ats, Finished
  <2>2. Fits(j, next, ret)
    BY <1>1, <1>4, <1>8, <2>1, <2>3 DEF Fits, Follows, Working, Outside, Finished
  <2> QED BY <1>1, <1>2, <2>2, GoesKeeps
<1>9. CASE at[j] \in Outside /\ lk[j] = "none"
  <2>1. next \in (Outside \ {"none", "gone"}) \cup {"locking", "ended"}
    BY <1>9, <1>4 DEF Follows
  <2>2. next \in Ats \ (Working \cup {"gone", "done", "dropped", "unlock", "hook"})
    BY <2>1 DEF Working, Outside, Ats, Finished
  <2>3. Fits(j, next, ret)
    BY <1>1, <1>4, <1>9, <2>2 DEF Fits, Follows
  <2> QED BY <1>1, <1>2, <2>3, GoesKeeps
<1> QED BY <1>6, <1>8, <1>9

\* A chain that has its lock.
LEMMA LockTakenKeeps ==
  ASSUME IInv, NEW j \in Jobs, LockTaken(j), UNCHANGED jobs PROVE IInv'
<1>1. PICK next \in After(mode[j], "locking"), ret \in {"none", "fail"} :
        Goes(j, next, ret)
  BY DEF LockTaken, Ret
<1>2. at[j] = "locking" /\ lk[j] = "held" /\ UNCHANGED Handed /\ Lives(j)
  BY DEF LockTaken, Handed
<1>3. OnWay(mode[j], "locking")
  BY <1>2, OnTheWay DEF Finished
<1>4. Follows(mode[j], "locking", next) /\ next \in Working \cup {"unlock"}
  BY <1>3, AfterSuccess
<1>6. Fits(j, next, ret)
  BY <1>1, <1>2, <1>4 DEF Fits, Follows, Working, Outside, Ats
<1> QED BY <1>1, <1>2, <1>6, GoesKeeps

\* A chain, or its merge, that starts.
LEMMA StartKeeps ==
  ASSUME IInv, NEW j \in Jobs, StartBuild(j) \/ StartMerge(j), UNCHANGED jobs PROVE IInv'
<1> USE DEF IInv, Parts, BuildTypeOK
<1>1. UNCHANGED Handed /\ Lives(j)
  BY DEF StartBuild, StartMerge, Handed, Lives
<1>2. CASE StartBuild(j)
  <2>1. lk[j] = "none"
    BY <1>2 DEF StartBuild, LockFits, Outside
  <2>2. PICK next \in {"metadata", "prefetch", "locking", "ended"}, ret \in {"none", "ok"} :
          /\ Goes(j, next, ret)
          /\ \/ next \in {"metadata", "prefetch", "locking"} /\ OnWay(mode[j], next)
             \/ next = "ended" /\ mode[j] = "uninstall"
    BY <1>2 DEF StartBuild, OnWay
  <2>3. Fits(j, next, ret)
    BY <2>1, <2>2 DEF Fits, Working, Outside, Ats, Finished
  <2> HIDE DEF IInv
  <2> QED BY <1>1, <2>2, <2>3, GoesKeeps
<1>3. CASE StartMerge(j)
  <2>1. lk[j] = "held" /\ mode[j] \in {"ebuild", "binary"}
    BY <1>3 DEF StartMerge, KeptForMerge, ToMerge
  <2>2. Goes(j, "merging", "none")
    BY <1>3 DEF StartMerge
  <2>3. Fits(j, "merging", "none")
    BY <2>1, <2>2 DEF Fits, Working, Outside, Ats, OnWay
  <2> HIDE DEF IInv
  <2> QED BY <1>1, <2>2, <2>3, GoesKeeps
<1> QED BY <1>2, <1>3

\* The end of a merge.
LEMMA MergeExitKeeps ==
  ASSUME IInv, NEW j \in Jobs, MergeExit(j), UNCHANGED jobs PROVE IInv'
<1> DEFINE next == IF mode[j] = "uninstall" THEN "unlock" ELSE "hook"
<1>1. PICK ret \in {"ok", "fail"} : Goes(j, next, ret)
  BY DEF MergeExit
<1>2. at[j] = "merging" /\ UNCHANGED Handed /\ Lives(j)
  BY DEF MergeExit, Handed
<1>3. lk[j] = "held" /\ OnWay(mode[j], "merging")
  BY <1>2, OnTheWay DEF Finished, Working
<1>4. OnWay(mode[j], next) /\ (next = "unlock" => mode[j] = "uninstall")
  BY <1>3 DEF OnWay
<1>5. next \in {"unlock", "hook"}
  OBVIOUS
<1> HIDE DEF next
<1>6. Fits(j, next, ret)
  BY <1>2, <1>3, <1>4, <1>5 DEF Fits, Working, Outside, Ats
<1> QED BY <1>1, <1>2, <1>6, GoesKeeps

\* What the queues start.
LEMMA Queues ==
  ASSUME NEW j, QueueStarts(j)
  PROVE  \E new \in {"fetch", "setup", "fetchonly"} :
           /\ at' = [at EXCEPT ![j] = new] /\ at[j] \in {"fetchq", "setupq", "fetchonlyq"}
           /\ new = "fetch" => at[j] = "fetchq"
           /\ new = "setup" => at[j] = "setupq"
           /\ new = "fetchonly" => at[j] = "fetchonlyq"
<1>1. PICK queued \in {<<"fetchq", "fetch">>, <<"setupq", "setup">>, <<"fetchonlyq", "fetchonly">>} :
        at[j] = queued[1] /\ at' = Put(at, j, queued[2])
  BY DEF QueueStarts
<1>2. CASE queued = <<"fetchq", "fetch">>
  BY <1>1, <1>2 DEF Put
<1>3. CASE queued = <<"setupq", "setup">>
  BY <1>1, <1>3 DEF Put
<1>4. CASE queued = <<"fetchonlyq", "fetchonly">>
  BY <1>1, <1>4 DEF Put
<1> QED BY <1>1, <1>2, <1>3, <1>4

\* The other steps of a chain.
LEMMA ChainStepKeeps ==
  ASSUME IInv, NEW j \in Jobs, ChainStep(j), UNCHANGED jobs PROVE IInv'
<1> USE Places
    DEF IInv, Parts, BuildTypeOK, OnItsWay, LockFits, OwnersTrue, CategoryThere,
        KeptForMerge, LockReleased, ToMerge, Locking, Leaving, Working, Outside, Cat,
        jobs, lockState, catLock, jobState, Put, Ats, Finished
<1>1. CASE QueueStarts(j)
  <2>1. PICK new \in {"fetch", "setup", "fetchonly"} :
          /\ at' = [at EXCEPT ![j] = new] /\ at[j] \in {"fetchq", "setupq", "fetchonlyq"}
          /\ new = "fetch" => at[j] = "fetchq"
          /\ new = "setup" => at[j] = "setupq"
          /\ new = "fetchonly" => at[j] = "fetchonlyq"
    BY <1>1, Queues
  <2>2. OnWay(mode[j], new)
    BY <2>1 DEF OnWay
  <2> QED BY <1>1, <2>1, <2>2 DEF QueueStarts
<1>2. CASE CancelledExit(j)
  <2>1. PICK ret \in {"ok", "fail"} : at' = [at EXCEPT ![j] = "ended"] /\ bret' = [bret EXCEPT ![j] = ret]
    BY <1>2 DEF CancelledExit
  <2>2. emerge[EmergeOf[j]] = "terminated" /\ bcancel[j]
    BY <1>2 DEF CancelledExit, Lives
  <2> QED BY <1>2, <2>1, <2>2 DEF CancelledExit
<1>3. CASE UnlockDropped(j)
  BY <1>3 DEF UnlockDropped
<1>4. CASE UnpackCancelled(j)
  BY <1>4, DiesKeeps DEF UnpackCancelled, Unhandled
<1>5. CASE TaskSucceeds(j) \/ TaskFails(j) \/ LockTaken(j) \/ MergeExit(j)
  BY <1>5, TaskSucceedsKeeps, TaskFailsKeeps, LockTakenKeeps, MergeExitKeeps
<1> QED BY <1>1, <1>2, <1>3, <1>4, <1>5 DEF ChainStep

\* A lock helper that is killed.
LEMMA LockFailsKeeps ==
  ASSUME IInv, NEW j \in Jobs, LockFails(j), UNCHANGED jobs PROVE IInv'
<1>1. CASE Unhandled(j)
  BY <1>1, Places, DiesKeeps DEF Unhandled, IInv
<1>2. CASE ~ Unhandled(j)
  BY <1>2, Places
    DEF LockFails, IInv, Parts, BuildTypeOK, OnItsWay, LockFits, OwnersTrue, CategoryThere,
        KeptForMerge, LockReleased, ToMerge, Locking, Leaving, Working, Outside, Cat,
        jobs, jobState, catLock, Put
<1> QED BY <1>1, <1>2

\* An emerge that is terminated.
LEMMA TerminateKeeps ==
  ASSUME IInv, NEW e \in Emerges, Terminate(e), UNCHANGED jobs PROVE IInv'
<1> DEFINE hit == {j \in Mine(e) : Running(j)}
           queued == {j \in hit : at[j] \in {"fetchq", "setupq", "fetchonlyq"}}
           unlocking == {j \in hit : at[j] = "unlock"}
<1> USE DEF IInv, Parts
<1>1. ASSUME NEW j \in Jobs
      PROVE  \/ j \in queued /\ at'[j] = (IF at[j] = "fetchonlyq" THEN "ended" ELSE "dropped")
             \/ j \in unlocking /\ at'[j] = "ended"
             \/ at[j] = "hook" /\ j \in Mine(e) /\ at'[j] = "done"
             \/ j \notin queued \cup unlocking /\ at'[j] = at[j] /\ bret'[j] = bret[j]
  BY DEF Terminate
<1>2. ASSUME NEW j \in Jobs, j \notin Mine(e)
      PROVE  at'[j] = at[j] /\ emerge'[EmergeOf[j]] = emerge[EmergeOf[j]]
             /\ bret'[j] = bret[j] /\ bcancel'[j] = bcancel[j]
  BY <1>2, Places DEF Terminate, Mine, BuildTypeOK
<1>3. ASSUME NEW j \in Mine(e)
      PROVE  emerge'[EmergeOf[j]] = "terminated"
  BY <1>3, Places DEF Terminate, Mine, BuildTypeOK
<1>4. BuildTypeOK'
  BY <1>1 DEF Terminate, BuildTypeOK, jobs, catLock, Emerging, Ats, Finished
<1>5. OnItsWay'
  BY <1>1, <1>2 DEF Terminate, OnItsWay, jobs, Finished
<1>6. UNCHANGED <<jobs, lk, catLock, dirOwner, lockfile, catdir>>
  BY DEF Terminate
<1>7. LockFits'
  BY <1>1, <1>6 DEF LockFits, Working, Outside, Locking, Leaving
<1>8. OwnersTrue' /\ CategoryThere'
  BY <1>6 DEF OwnersTrue, CategoryThere, Cat, jobs, catLock
<1>9. KeptForMerge'
  BY <1>1, <1>2, <1>3, <1>6 DEF KeptForMerge, ToMerge, jobs
<1>10. LockReleased'
  BY <1>1, <1>2, <1>3, <1>6 DEF LockReleased, ToMerge, jobs
<1> QED BY <1>4, <1>5, <1>7, <1>8, <1>9, <1>10

\* The invariant holds at first ...
LEMMA InitIInv == BuildInit => IInv
<1> SUFFICES ASSUME BuildInit PROVE IInv
  OBVIOUS
<1>1. PICK l \in MergeLists : mode = l.mode /\ dirOf = l.dir
  BY DEF BuildInit
<1>2. mode \in [Jobs -> Modes] /\ dirOf \in [Jobs -> Dirs]
  BY <1>1, BuildAssumption
<1>3. \A j \in Jobs : at[j] = IF mode[j] = "merged" THEN "done" ELSE "none"
  BY DEF BuildInit
<1> QED BY <1>2, <1>3
     DEF BuildInit, IInv, Parts, BuildTypeOK, OnItsWay, LockFits, OwnersTrue, CategoryThere,
        KeptForMerge, LockReleased, ToMerge, Locking, Leaving, Working, Outside, Ats, Finished,
        Emerging

\* ... and every step keeps it.
LEMMA StepIInv == IInv /\ [BuildNext]_buildVars => IInv'
<1> SUFFICES ASSUME IInv, [BuildNext]_buildVars PROVE IInv'
  OBVIOUS
<1>1. ASSUME NEW j \in Jobs, JobStep(j) \/ LockFails(j), UNCHANGED jobs PROVE IInv'
  BY <1>1, LockStepKeeps, ChainStepKeeps, StartKeeps, LockFailsKeeps DEF JobStep
<1>2. ASSUME NEW e \in Emerges, Terminate(e), UNCHANGED jobs PROVE IInv'
  BY <1>2, TerminateKeeps
<1>3. ASSUME NEW e \in Emerges, EmergeExits(e), UNCHANGED jobs PROVE IInv'
  BY <1>3, DiesKeeps DEF EmergeExits
<1>4. CASE UNCHANGED buildVars
  BY <1>4 DEF buildVars, jobs, jobState, lockState, catLock, IInv, Parts, BuildTypeOK, OnItsWay,
        LockFits, OwnersTrue, CategoryThere, KeptForMerge, LockReleased, ToMerge, Cat
<1> QED BY <1>1, <1>2, <1>3, <1>4 DEF BuildNext

\* The inductive invariant holds in every state of every behaviour.
THEOREM BuildInvariant == BuildSpec => []IInv
BY InitIInv, StepIInv, PTL DEF BuildSpec

\* Whatever works in a build directory does so for the chain that holds its lock, and
\* nobody removes the category directory of a build directory that is locked or about
\* to be, in any interleaving of any number of emerge processes, cancellations and
\* deaths (EbuildBuildDir.py:134).
THEOREM BuildDirsSafe == BuildSpec => []BuildDirSafe
<1>1. IInv => BuildDirSafe
  BY DEF IInv, Parts, LockFits, OwnersTrue, CategoryThere, BuildDirSafe, BuildDirExclusive
<1> QED BY <1>1, BuildInvariant, PTL

\* A chain that has ended keeps the lock of its build directory only for its merge, when
\* emerge is being terminated, or in the one case where buildpkgonly packs nothing.
THEOREM LocksReleased == BuildSpec => []LockReleased
<1>1. IInv => LockReleased
  BY DEF IInv, Parts
<1> QED BY <1>1, BuildInvariant, PTL

-----------------------------------------------------------------------------
(* One phase of an ebuild (EbuildProcess), whatever its settings.           *)

Codes    == {"none", "ok", "fail"}
Asked    == {"query", "succeed", "fail"}
Letters  == [from : Clients, what : Asked]
Clienthood == [at : {"none", "lock", "write", "close", "read", "done"}, what : Asked,
               got : {"none", "own", "other"}]
Subshell == [of : Roles \cup {"none"}, at : {"absent", "lives", "asks", "dies", "gone"},
             holds : BOOLEAN, early : BOOLEAN]
PhaseTyped ==
  /\ conf \in Settings
  /\ role \in Roles \cup {"starting", "over"} /\ verdict \in Codes /\ result \in Codes
  /\ {stopped, cancelled, logging, timer, hangup} \subseteq BOOLEAN
  /\ exitcode \in {"none", "succeed", "fail"}
  /\ daemon \in {"closed", "poll", "reopen", "answer", "locking"}
  /\ request \in {<< >>} \cup {<<m>> : m \in Letters}
  /\ (request # << >> => daemon \in {"reopen", "answer"})
  /\ (daemon \in {"reopen", "answer"} => request # << >>)
  /\ answer \in {<< >>} \cup {<<m>> : m \in Letters} /\ pipe \in Seq(Letters)
  /\ writers \subseteq Clients /\ lock \in Clients \cup {"none"}
  /\ client \in [Clients -> Clienthood]
  /\ bash \in [Roles -> {"absent", "works", "waits", "ends", "ok", "fail"}]
  /\ term \in [Roles -> BOOLEAN] /\ said \in [Roles -> {"none", "succeed", "fail"}]
  /\ sub \in Subshell
  /\ kills \in {0, 1}

\* The processes that may still come.
Later ==
  CASE role = "starting" -> Roles
    [] role = "ebuild" -> {"post", "hooks", "clean"}
    [] role = "post" -> {"hooks", "clean"}
    [] role = "hooks" -> {"clean"}
    [] OTHER -> {}

\* One process at a time.
Ordered ==
  /\ \A r \in Roles : ~Gone(r) => r = role /\ verdict = "none"
  /\ \A r \in Later : said[r] = "none" /\ client[r] = Idle /\ sub.of # r
  /\ \A r \in Roles : bash[r] \in {"works", "waits"} => said[r] = "none"
  /\ role = "starting" => verdict = "none" /\ result = "none" /\ daemon = "closed"
  /\ verdict # "none" => daemon = "closed"
  /\ role \in Roles => result = "none" /\ bash[role] # "absent"

\* Where the "succeed" of bash r may be on its way to the daemon, once.
In(s)      == {s[i] : i \in DOMAIN s}
Says(r, s) == \E m \in In(s) : m.from = r /\ m.what = "succeed"
ToSend(r)  == client[r].what = "succeed" /\ client[r].at \in {"lock", "write"}
Heading(r) == ToSend(r) \/ Says(r, pipe) \/ Says(r, request)
Once ==
  /\ client["sub"].what # "succeed" /\ ~Says("sub", pipe) /\ ~Says("sub", request)
  /\ \A r \in Roles :
       /\ ToSend(r) => ~Says(r, pipe) /\ ~Says(r, request)
       /\ Says(r, request) => ~Says(r, pipe)
       /\ Heading(r) => said[r] = "succeed"

\* What the verdicts rest on.
Heard ==
  /\ role \in {"ebuild", "post"} /\ exitcode = "succeed" => said[role] = "succeed" /\ ~Heading(role)
  /\ role \in {"ebuild", "post"} /\ verdict = "ok" => exitcode = "succeed"
  /\ role = "post" => conf.post /\ said["ebuild"] = "succeed" /\ ~Heading("ebuild")
  /\ WholePhase

\* While nobody is killed there is one letter at most: that of the holder of the lock.
Under(m) == lock = m.from /\ client[m.from].at \in {"close", "read"} /\ client[m.from].what = m.what
OneLetter ==
  /\ \A c \in Clients : client[c].at \in {"write", "close", "read"} => lock = c
  /\ \A m \in In(pipe) \cup In(request) \cup In(answer) : Under(m)
  /\ request # << >> => pipe = << >>
  /\ answer # << >> => pipe = << >> /\ request = << >>

\* A client runs while its bash, or the subshell, waits for it.
Foreground ==
  /\ \A r \in Roles : Talking(r) => bash[r] \in {"waits", "ends"}
  /\ Talking("sub") => sub.at \in {"asks", "dies"}

\* The death of a subshell, once it is answered, has been heard before bash announced anything.
Deaths ==
  /\ sub.at = "absent" => ~sub.early
  /\ sub.at = "dies" => client["sub"].what = "fail"
  /\ exitcode = "succeed" /\ role \in {"ebuild", "post", "hooks"} => Announced(role)
  /\ \A m \in In(answer) : m.from = "sub" /\ m.what = "fail" /\ sub.of = role => exitcode # "none"
  /\ sub.early /\ role = sub.of => exitcode = "fail"
  /\ sub.of # "clean" /\ (role \in Roles \ {"clean"} /\ verdict = "ok" => exitcode = "succeed")

PhaseInv ==
  /\ PhaseTyped /\ Ordered /\ Once /\ Heard
  /\ kills = 0 => OneLetter /\ Foreground /\ Deaths /\ OwnAnswer

-----------------------------------------------------------------------------
(* What the steps do to the variables that the invariant is about.          *)
ClientIs(c, place, what, got) ==
  /\ client' \in [Clients -> Clienthood]
  /\ client'[c].at = place /\ client'[c].what = what /\ client'[c].got = got
  /\ \A d \in Clients : d # c => client'[d] = client[d]
MovesTo(c, place) == ClientIs(c, place, client[c].what, client[c].got)
BashIs(r, state) ==
  /\ bash' \in [Roles -> {"absent", "works", "waits", "ends", "ok", "fail"}]
  /\ bash'[r] = state /\ \A q \in Roles : q # r => bash'[q] = bash[q]
SubIs(of, place, early) ==
  /\ sub' \in Subshell /\ sub'.of = of /\ sub'.at = place /\ sub'.early = early

\* An assignment to a client.
LEMMA ClientMoves ==
  ASSUME client \in [Clients -> Clienthood], NEW c \in Clients,
         NEW place \in {"none", "lock", "write", "close", "read", "done"}, At(c, place)
  PROVE  MovesTo(c, place)
<1> DEFINE x == [client[c] EXCEPT !.at = place]
<1>1. x \in Clienthood /\ x.at = place /\ x.what = client[c].what /\ x.got = client[c].got
  BY DEF Clienthood
<1>2. client' = [client EXCEPT ![c] = x]
  BY DEF At
<1> HIDE DEF x
<1> QED BY <1>1, <1>2 DEF MovesTo, ClientIs

\* A question, or an announcement.
LEMMA ClientAsks ==
  ASSUME client \in [Clients -> Clienthood], NEW c \in Clients, NEW what \in Asked, Asks(c, what)
  PROVE  ClientIs(c, "lock", what, "none")
<1> DEFINE x == [at |-> "lock", what |-> what, got |-> "none"]
<1>1. x \in Clienthood /\ x.at = "lock" /\ x.what = what /\ x.got = "none"
  BY DEF Clienthood
<1>2. client' = [client EXCEPT ![c] = x]
  BY DEF Asks
<1> HIDE DEF x
<1> QED BY <1>1, <1>2 DEF ClientIs

\* A step of a bash process.
LEMMA BashBecomes ==
  ASSUME bash \in [Roles -> {"absent", "works", "waits", "ends", "ok", "fail"}], NEW r \in Roles,
         NEW state \in {"absent", "works", "waits", "ends", "ok", "fail"}, Becomes(r, state)
  PROVE  BashIs(r, state)
BY DEF Becomes, BashIs

\* What a sequence of letters holds.
LEMMA Held ==
  /\ In(<< >>) = {} /\ \A m : In(<<m>>) = {m}
  /\ \A m : Head(<<m>>) = m
  /\ \A s \in Seq(Letters) : s # << >> => Head(s) \in In(s) /\ Head(s) \in Letters
  /\ \A s \in Seq(Letters) : s = << >> <=> In(s) = {}
  /\ << >> \in Seq(Letters) /\ \A s \in Seq(Letters) : In(s) \subseteq Letters
  /\ \A s \in Seq(Letters), m \in Letters : In(Append(s, m)) = In(s) \cup {m} /\ Append(s, m) \in Seq(Letters)
<1>1. In(<< >>) = {}
  BY DEF In
<1>2. \A m : In(<<m>>) = {m}
  BY DEF In
<1>3. \A m : Head(<<m>>) = m
  OBVIOUS
<1>4. ASSUME NEW s \in Seq(Letters), s # << >> PROVE Head(s) \in In(s) /\ Head(s) \in Letters /\ In(s) # {}
  <2>1. 1 \in DOMAIN s /\ Head(s) = s[1]
    BY <1>4
  <2> QED BY <2>1 DEF In
<1>5. ASSUME NEW s \in Seq(Letters), NEW m \in Letters
      PROVE  In(Append(s, m)) = In(s) \cup {m} /\ Append(s, m) \in Seq(Letters)
  <2> DEFINE a == Append(s, m)
  <2>1. /\ a \in Seq(Letters) /\ Len(a) = Len(s) + 1 /\ a[Len(s) + 1] = m
        /\ \A i \in 1 .. Len(s) : a[i] = s[i]
        /\ DOMAIN a = 1 .. Len(s) + 1 /\ DOMAIN s = 1 .. Len(s) /\ Len(s) \in Nat
    OBVIOUS
  <2> HIDE DEF a
  <2>2. \A i \in 1 .. Len(s) + 1 : i \in 1 .. Len(s) \/ i = Len(s) + 1
    BY <2>1
  <2>3. \A i \in 1 .. Len(s) : i \in 1 .. Len(s) + 1
    BY <2>1
  <2>4. Len(s) + 1 \in 1 .. Len(s) + 1
    BY <2>1
  <2>5. In(a) \subseteq In(s) \cup {m}
    BY <2>1, <2>2 DEF In
  <2>6. In(s) \cup {m} \subseteq In(a)
    BY <2>1, <2>3, <2>4 DEF In
  <2> QED BY <2>1, <2>5, <2>6 DEF a
<1>6. \A s \in Seq(Letters) : In(s) \subseteq Letters
  BY DEF In
<1>7. << >> \in Seq(Letters)
  OBVIOUS
<1> QED BY <1>1, <1>2, <1>3, <1>4, <1>5, <1>6, <1>7

\* The start of process r.
Starts(r) ==
  /\ role' = r /\ verdict' = "none" /\ exitcode' = "none" /\ daemon' \in {"poll", "closed"}
  /\ bash' = [q \in Roles |-> IF q = r THEN "works" ELSE "absent"]
  /\ UNCHANGED <<conf, result, request, pipe, lock, answer, client, said, sub, kills>>

\* What the types say of the parts of the state.
Facts ==
  /\ client \in [Clients -> Clienthood] /\ pipe \in Seq(Letters)
  /\ \A c \in Clients : client[c] \in Clienthood
  /\ \A c \in Clients : client[c].what \in Asked /\ client[c].got \in {"none", "own", "other"}
  /\ bash \in [Roles -> {"absent", "works", "waits", "ends", "ok", "fail"}]
  /\ Roles \subseteq Clients /\ "sub" \in Clients /\ "sub" \notin Roles /\ "none" \notin Clients
  /\ \A c \in Clients : c \in Roles \/ c = "sub"
  /\ \A m \in In(pipe) \cup In(request) \cup In(answer) : m.from \in Clients /\ m.what \in Asked
  /\ request # << >> => In(request) = {Head(request)}
  /\ answer # << >> => In(answer) = {Head(answer)}
  /\ pipe # << >> => Head(pipe) \in In(pipe) /\ In(<<Head(pipe)>>) = {Head(pipe)}
  /\ In(<< >>) = {} /\ (In(pipe) = {} => pipe = << >>) /\ (In(request) = {} => request = << >>)
  /\ sub.of \in Roles \cup {"none"} /\ sub.early \in BOOLEAN
  /\ sub.at \in {"absent", "lives", "asks", "dies", "gone"}

\* They follow from the types.
LEMMA PhaseFacts ==
  ASSUME PhaseTyped
  PROVE  Facts
<1> USE DEF PhaseTyped
<1>1. /\ \A c \in Clients : client[c] \in Clienthood
      /\ \A c \in Clients : client[c].what \in Asked /\ client[c].got \in {"none", "own", "other"}
  BY DEF Clienthood
<1>2. /\ Roles \subseteq Clients /\ "sub" \in Clients /\ "sub" \notin Roles /\ "none" \notin Clients
      /\ \A c \in Clients : c \in Roles \/ c = "sub"
  BY DEF Clients, Roles
<1>3. In(pipe) \cup In(request) \cup In(answer) \subseteq Letters
  BY Held
<1>4. \A m \in In(pipe) \cup In(request) \cup In(answer) : m.from \in Clients /\ m.what \in Asked
  BY <1>3 DEF Letters
<1>5. /\ request # << >> => In(request) = {Head(request)}
      /\ answer # << >> => In(answer) = {Head(answer)}
  BY Held
<1>6. /\ pipe # << >> => Head(pipe) \in In(pipe) /\ In(<<Head(pipe)>>) = {Head(pipe)}
      /\ In(<< >>) = {} /\ (In(pipe) = {} => pipe = << >>) /\ (In(request) = {} => request = << >>)
  BY <1>5, Held
<1>7. /\ sub.of \in Roles \cup {"none"} /\ sub.early \in BOOLEAN
      /\ sub.at \in {"absent", "lives", "asks", "dies", "gone"}
  BY DEF Subshell
<1> QED BY <1>1, <1>2, <1>4, <1>5, <1>6, <1>7 DEF Facts

\* Each step keeps the invariant.
LEMMA PhaseNextKeeps ==
  ASSUME PhaseInv, [EbuildNext]_ebuildVars
  PROVE  PhaseInv'
<1>0. CASE UNCHANGED ebuildVars
  <2>1. /\ UNCHANGED <<conf, role, verdict, result, exitcode, daemon, request, pipe, lock,
                       answer, client>>
        /\ UNCHANGED <<bash, said, sub, kills, stopped, cancelled, logging, timer, hangup,
                       writers, term>>
    BY <1>0 DEF ebuildVars, emergeVars, fifoVars, bashVars
  <2>2. PhaseTyped'
    BY <2>1 DEF PhaseInv, PhaseTyped
  <2>3. Ordered' /\ Once' /\ Heard'
    BY <2>1 DEF PhaseInv, Ordered, Later, Gone, Once, Heard, WholePhase, Heading, ToSend, Says
  <2>4. kills = 0 => OneLetter' /\ Foreground' /\ Deaths' /\ OwnAnswer'
    BY <2>1 DEF PhaseInv, OneLetter, Under, Foreground, Talking, Deaths, Announced, OwnAnswer
  <2> QED BY <2>1, <2>2, <2>3, <2>4 DEF PhaseInv
<1>1. Facts
  BY PhaseFacts DEF PhaseInv
<1>2. ASSUME NEW r \in Later, role = "starting" \/ (role \in Roles /\ verdict # "none"),
             r = "ebuild" => role = "starting", r = "post" => role = "ebuild" /\ conf.post /\ verdict = "ok",
             StartProcess(r)
      PROVE  PhaseInv'
  <2>1. PhaseTyped /\ Ordered /\ Once /\ Heard
    BY DEF PhaseInv
  <2>2. /\ Starts(r) /\ r \in Later /\ r \in Roles /\ daemon = "closed"
        /\ (role = "starting" \/ verdict # "none")
        /\ r = "ebuild" => role = "starting"
        /\ r = "post" => role = "ebuild" /\ conf.post /\ verdict = "ok"
    BY <1>1, <1>2, <2>1 DEF StartProcess, StartDaemon, Spawned, Starts, HasIpc, Later, Roles,
       Ordered, PhaseTyped, Asked, Facts
  <2>3. PhaseTyped'
    <3>1. /\ {stopped', cancelled', logging', timer', hangup'} \subseteq BOOLEAN
          /\ writers' \subseteq Clients /\ term' \in [Roles -> BOOLEAN]
      BY <1>2, <2>1 DEF StartProcess, PhaseTyped, emergeVars, fifoVars, bashVars, StartDaemon,
         Spawned
    <3>2. pipe' \in Seq(Letters)
      BY <2>1, <2>2, Held DEF PhaseTyped, Starts
    <3>3. /\ request' \in {<< >>} \cup {<<m>> : m \in Letters}
          /\ answer' \in {<< >>} \cup {<<m>> : m \in Letters}
          /\ request' # << >> <=> daemon' \in {"reopen", "answer"}
      BY <2>1, <2>2, Held DEF PhaseTyped, Starts
    <3>4. /\ conf' \in Settings /\ role' \in Roles \cup {"starting", "over"}
          /\ verdict' \in Codes /\ result' \in Codes /\ exitcode' \in {"none", "succeed", "fail"}
          /\ daemon' \in {"closed", "poll", "reopen", "answer", "locking"}
          /\ lock' \in Clients \cup {"none"} /\ kills' \in {0, 1}
      BY <2>1, <2>2, Held DEF PhaseTyped, Starts, Codes, Later, Gone, Clients, Letters, Asked,
         Roles
    <3>5. /\ client' \in [Clients -> Clienthood]
          /\ bash' \in [Roles -> {"absent", "works", "waits", "ends", "ok", "fail"}]
          /\ said' \in [Roles -> {"none", "succeed", "fail"}] /\ sub' \in Subshell
      BY <2>1, <2>2 DEF PhaseTyped, Starts
    <3> QED BY <3>1, <3>2, <3>3, <3>4, <3>5 DEF PhaseTyped
  <2>4. Ordered'
    BY <2>1, <2>2, <2>3 DEF PhaseTyped, Ordered, Later, Gone, Starts, Idle, Roles, Clients,
       Talking
  <2>5. Once'
    BY <1>1, <2>1, <2>2, Held DEF Facts, PhaseTyped, Ordered, Once, Heading, ToSend, Says,
       Starts, Clients
  <2>6. Heard'
    BY <1>1, <2>1, <2>2, <2>3, <2>5, Held
       DEF Facts, PhaseTyped, Ordered, Later, Once, Heard, WholePhase, Heading, ToSend, Says,
       Starts, Roles, Clients, Gone
  <2>7. ASSUME kills' = 0 PROVE OneLetter' /\ Foreground' /\ Deaths' /\ OwnAnswer'
    <3>1. kills = 0 /\ OneLetter /\ Foreground /\ Deaths /\ OwnAnswer
      BY <2>2, <2>7 DEF PhaseInv, Starts
    <3>2. OneLetter'
      BY <1>1, <2>1, <2>2, <3>1, Held DEF Facts, PhaseTyped, OneLetter, Foreground, Under,
         Starts, Talking, Letters, Idle
    <3>3. Foreground'
      BY <1>1, <2>1, <2>2, <3>1 DEF Facts, PhaseTyped, Ordered, Later, Idle, Roles, Foreground,
         Starts, Gone, Talking, Clients
    <3>4. Deaths'
      BY <1>1, <2>1, <2>2, <3>1, Held DEF Facts, PhaseTyped, Ordered, Later, Once, Heading, Says,
         ToSend, OneLetter, Under, Foreground, Deaths, Announced, Starts, Talking, Clients,
         Roles, Gone, Letters
    <3>5. OwnAnswer'
      BY <1>1, <2>1, <2>2, <2>7, <3>1, Held
         DEF Facts, PhaseTyped, OwnAnswer, OneLetter, Under, Starts
    <3> QED BY <3>2, <3>3, <3>4, <3>5
  <2> QED BY <2>3, <2>4, <2>5, <2>6, <2>7 DEF PhaseInv
<1>3. ASSUME NEW code \in {"ok", "fail"}, role \in Roles, verdict # "none",
             code = "ok" => \/ role = "ebuild" /\ ~conf.post /\ (verdict = "ok" \/ conf.failContinue)
                            \/ role = "post" /\ verdict = "ok",
             Over(code)
      PROVE  PhaseInv'
  <2>1. PhaseTyped /\ Ordered /\ Once /\ Heard
    BY DEF PhaseInv
  <2>2. /\ role \in Roles /\ verdict # "none" /\ role' = "over" /\ result' = code /\ verdict' = "none"
        /\ code = "ok" => \/ role = "ebuild" /\ ~conf.post /\ (verdict = "ok" \/ conf.failContinue)
                          \/ role = "post" /\ verdict = "ok"
        /\ UNCHANGED <<conf, exitcode, daemon, request, pipe, lock, answer, client, bash, said,
                       sub, kills>>
    BY <1>1, <1>3, <2>1 DEF Over, fifoVars, bashVars, PhaseTyped, Asked, Facts
  <2>3. PhaseTyped'
    <3>1. /\ {stopped', cancelled', logging', timer', hangup'} \subseteq BOOLEAN
          /\ writers' \subseteq Clients /\ term' \in [Roles -> BOOLEAN]
      BY <1>3, <2>1 DEF Over, PhaseTyped, emergeVars, fifoVars, bashVars
    <3>2. pipe' \in Seq(Letters)
      BY <2>1, <2>2, Held DEF PhaseTyped
    <3>3. /\ request' \in {<< >>} \cup {<<m>> : m \in Letters}
          /\ answer' \in {<< >>} \cup {<<m>> : m \in Letters}
          /\ request' # << >> <=> daemon' \in {"reopen", "answer"}
      BY <2>1, <2>2, Held DEF PhaseTyped
    <3>4. /\ conf' \in Settings /\ role' \in Roles \cup {"starting", "over"}
          /\ verdict' \in Codes /\ result' \in Codes /\ exitcode' \in {"none", "succeed", "fail"}
          /\ daemon' \in {"closed", "poll", "reopen", "answer", "locking"}
          /\ lock' \in Clients \cup {"none"} /\ kills' \in {0, 1}
      BY <2>1, <2>2, Held DEF PhaseTyped, Codes, Later, Gone, Clients, Letters, Asked, Roles
    <3>5. /\ client' \in [Clients -> Clienthood]
          /\ bash' \in [Roles -> {"absent", "works", "waits", "ends", "ok", "fail"}]
          /\ said' \in [Roles -> {"none", "succeed", "fail"}] /\ sub' \in Subshell
      BY <2>1, <2>2 DEF PhaseTyped
    <3> QED BY <3>1, <3>2, <3>3, <3>4, <3>5 DEF PhaseTyped
  <2>4. Ordered'
    BY <2>1, <2>2, <2>3 DEF PhaseTyped, Ordered, Later, Gone, Idle, Roles, Clients, Talking
  <2>5. Once'
    BY <1>1, <2>1, <2>2, Held DEF Facts, PhaseTyped, Ordered, Once, Heading, ToSend, Says, Clients
  <2>6. Heard'
    BY <1>1, <2>1, <2>2, <2>3, <2>5, Held
       DEF Facts, PhaseTyped, Ordered, Later, Once, Heard, WholePhase, Heading, ToSend, Says,
       Roles, Clients, Gone
  <2>7. ASSUME kills' = 0 PROVE OneLetter' /\ Foreground' /\ Deaths' /\ OwnAnswer'
    <3>1. kills = 0 /\ OneLetter /\ Foreground /\ Deaths /\ OwnAnswer
      BY <2>2, <2>7 DEF PhaseInv
    <3>2. OneLetter'
      BY <1>1, <2>1, <2>2, <3>1, Held DEF Facts, PhaseTyped, OneLetter, Foreground, Under,
         Talking, Letters, Idle
    <3>3. Foreground'
      BY <1>1, <2>1, <2>2, <3>1 DEF Facts, PhaseTyped, Ordered, Later, Idle, Roles, Foreground,
         Gone, Talking, Clients
    <3>4. Deaths'
      BY <1>1, <2>1, <2>2, <3>1, Held DEF Facts, PhaseTyped, Ordered, Later, Once, Heading, Says,
         ToSend, OneLetter, Under, Foreground, Deaths, Announced, Talking, Clients, Roles, Gone,
         Letters
    <3>5. OwnAnswer'
      BY <1>1, <2>1, <2>2, <2>7, <3>1, Held DEF Facts, PhaseTyped, OwnAnswer, OneLetter, Under
    <3> QED BY <3>2, <3>3, <3>4, <3>5
  <2> QED BY <2>3, <2>4, <2>5, <2>6, <2>7 DEF PhaseInv
<1>4. ASSUME Cancel
      PROVE  PhaseInv'
  <2>1. PhaseTyped /\ Ordered /\ Once /\ Heard
    BY DEF PhaseInv
  <2>2. /\ \/ role = "starting" /\ role' = "over" /\ result' = "fail" /\ UNCHANGED daemon
           \/ role # "over" /\ UNCHANGED <<role, result>>
        /\ UNCHANGED <<conf, verdict, exitcode, daemon, request, pipe, lock, answer, client,
                       bash, said, sub, kills>>
    BY <1>1, <1>4, <2>1 DEF Cancel, CancelProcess, fifoVars, PhaseTyped, Asked, Facts
  <2>3. PhaseTyped'
    <3>1. /\ {stopped', cancelled', logging', timer', hangup'} \subseteq BOOLEAN
          /\ writers' \subseteq Clients /\ term' \in [Roles -> BOOLEAN]
      BY <1>4, <2>1 DEF Cancel, PhaseTyped, emergeVars, fifoVars, bashVars, CancelProcess
    <3>2. pipe' \in Seq(Letters)
      BY <2>1, <2>2, Held DEF PhaseTyped
    <3>3. /\ request' \in {<< >>} \cup {<<m>> : m \in Letters}
          /\ answer' \in {<< >>} \cup {<<m>> : m \in Letters}
          /\ request' # << >> <=> daemon' \in {"reopen", "answer"}
      BY <2>1, <2>2, Held DEF PhaseTyped
    <3>4. /\ conf' \in Settings /\ role' \in Roles \cup {"starting", "over"}
          /\ verdict' \in Codes /\ result' \in Codes /\ exitcode' \in {"none", "succeed", "fail"}
          /\ daemon' \in {"closed", "poll", "reopen", "answer", "locking"}
          /\ lock' \in Clients \cup {"none"} /\ kills' \in {0, 1}
      BY <2>1, <2>2, Held DEF PhaseTyped, Codes, Later, Gone, Clients, Letters, Asked, Roles
    <3>5. /\ client' \in [Clients -> Clienthood]
          /\ bash' \in [Roles -> {"absent", "works", "waits", "ends", "ok", "fail"}]
          /\ said' \in [Roles -> {"none", "succeed", "fail"}] /\ sub' \in Subshell
      BY <2>1, <2>2 DEF PhaseTyped
    <3> QED BY <3>1, <3>2, <3>3, <3>4, <3>5 DEF PhaseTyped
  <2>4. Ordered'
    BY <2>1, <2>2, <2>3 DEF PhaseTyped, Ordered, Later, Gone, Idle, Roles, Clients, Talking
  <2>5. Once'
    BY <1>1, <2>1, <2>2, Held DEF Facts, PhaseTyped, Ordered, Once, Heading, ToSend, Says, Clients
  <2>6. Heard'
    BY <1>1, <2>1, <2>2, <2>3, <2>5, Held
       DEF Facts, PhaseTyped, Ordered, Later, Once, Heard, WholePhase, Heading, ToSend, Says,
       Roles, Clients, Gone
  <2>7. ASSUME kills' = 0 PROVE OneLetter' /\ Foreground' /\ Deaths' /\ OwnAnswer'
    <3>1. kills = 0 /\ OneLetter /\ Foreground /\ Deaths /\ OwnAnswer
      BY <2>2, <2>7 DEF PhaseInv
    <3>2. OneLetter'
      BY <1>1, <2>1, <2>2, <3>1, Held DEF Facts, PhaseTyped, OneLetter, Foreground, Under,
         Talking, Letters, Idle
    <3>3. Foreground'
      BY <1>1, <2>1, <2>2, <3>1 DEF Facts, PhaseTyped, Ordered, Later, Idle, Roles, Foreground,
         Gone, Talking, Clients
    <3>4. Deaths'
      BY <1>1, <2>1, <2>2, <3>1, Held DEF Facts, PhaseTyped, Ordered, Later, Once, Heading, Says,
         ToSend, OneLetter, Under, Foreground, Deaths, Announced, Talking, Clients, Roles, Gone,
         Letters
    <3>5. OwnAnswer'
      BY <1>1, <2>1, <2>2, <2>7, <3>1, Held DEF Facts, PhaseTyped, OwnAnswer, OneLetter, Under
    <3> QED BY <3>2, <3>3, <3>4, <3>5
  <2> QED BY <2>3, <2>4, <2>5, <2>6, <2>7 DEF PhaseInv
<1>5. ASSUME Reaped
      PROVE  PhaseInv'
  <2>1. PhaseTyped /\ Ordered /\ Once /\ Heard
    BY DEF PhaseInv
  <2>2. /\ daemon = "poll" \/ daemon = "closed"
        /\ role \in Roles /\ verdict = "none" /\ bash[role] \in {"ok", "fail"}
        /\ verdict' = IF role # "clean" THEN (IF exitcode = "succeed" THEN "ok" ELSE "fail") ELSE bash[role]
        /\ daemon' = "closed" /\ (pipe' = pipe \/ pipe' = << >>)
        /\ UNCHANGED <<conf, role, result, exitcode, request, lock, answer, client, bash, said,
                       sub, kills>>
    BY <1>1, <1>5, <2>1 DEF Reaped, Between, ProcessRuns, Verdict, HasIpc, Kept, bashVars, Roles,
       Ordered, Gone, PhaseTyped, Asked, Facts
  <2>3. PhaseTyped'
    <3>1. /\ {stopped', cancelled', logging', timer', hangup'} \subseteq BOOLEAN
          /\ writers' \subseteq Clients /\ term' \in [Roles -> BOOLEAN]
      BY <1>5, <2>1 DEF Reaped, PhaseTyped, emergeVars, fifoVars, bashVars
    <3>2. pipe' \in Seq(Letters)
      BY <2>1, <2>2, Held DEF PhaseTyped
    <3>3. /\ request' \in {<< >>} \cup {<<m>> : m \in Letters}
          /\ answer' \in {<< >>} \cup {<<m>> : m \in Letters}
          /\ request' # << >> <=> daemon' \in {"reopen", "answer"}
      BY <2>1, <2>2, Held DEF PhaseTyped
    <3>4. /\ conf' \in Settings /\ role' \in Roles \cup {"starting", "over"}
          /\ verdict' \in Codes /\ result' \in Codes /\ exitcode' \in {"none", "succeed", "fail"}
          /\ daemon' \in {"closed", "poll", "reopen", "answer", "locking"}
          /\ lock' \in Clients \cup {"none"} /\ kills' \in {0, 1}
      BY <2>1, <2>2, Held DEF PhaseTyped, Codes, Later, Gone, Clients, Letters, Asked, Roles
    <3>5. /\ client' \in [Clients -> Clienthood]
          /\ bash' \in [Roles -> {"absent", "works", "waits", "ends", "ok", "fail"}]
          /\ said' \in [Roles -> {"none", "succeed", "fail"}] /\ sub' \in Subshell
      BY <2>1, <2>2 DEF PhaseTyped
    <3> QED BY <3>1, <3>2, <3>3, <3>4, <3>5 DEF PhaseTyped
  <2>4. Ordered'
    BY <2>1, <2>2, <2>3 DEF PhaseTyped, Ordered, Later, Gone, Idle, Roles, Clients, Talking
  <2>5. Once'
    BY <1>1, <2>1, <2>2, Held DEF Facts, PhaseTyped, Ordered, Once, Heading, ToSend, Says, Clients
  <2>6. Heard'
    BY <1>1, <2>1, <2>2, <2>3, <2>5, Held
       DEF Facts, PhaseTyped, Ordered, Later, Once, Heard, WholePhase, Heading, ToSend, Says,
       Roles, Clients, Gone
  <2>7. ASSUME kills' = 0 PROVE OneLetter' /\ Foreground' /\ Deaths' /\ OwnAnswer'
    <3>1. kills = 0 /\ OneLetter /\ Foreground /\ Deaths /\ OwnAnswer
      BY <2>2, <2>7 DEF PhaseInv
    <3>2. OneLetter'
      BY <1>1, <2>1, <2>2, <3>1, Held DEF Facts, PhaseTyped, OneLetter, Foreground, Under,
         Talking, Letters, Idle
    <3>3. Foreground'
      BY <1>1, <2>1, <2>2, <3>1 DEF Facts, PhaseTyped, Ordered, Later, Idle, Roles, Foreground,
         Gone, Talking, Clients
    <3>4. Deaths'
      BY <1>1, <2>1, <2>2, <3>1, Held DEF Facts, PhaseTyped, Ordered, Later, Once, Heading, Says,
         ToSend, OneLetter, Under, Foreground, Deaths, Announced, Talking, Clients, Roles, Gone,
         Letters
    <3>5. OwnAnswer'
      BY <1>1, <2>1, <2>2, <2>7, <3>1, Held DEF Facts, PhaseTyped, OwnAnswer, OneLetter, Under
    <3> QED BY <3>2, <3>3, <3>4, <3>5
  <2> QED BY <2>3, <2>4, <2>5, <2>6, <2>7 DEF PhaseInv
<1>6. ASSUME ReadCommand
      PROVE  PhaseInv'
  <2>1. PhaseTyped /\ Ordered /\ Once /\ Heard
    BY DEF PhaseInv
  <2>2. /\ daemon = "poll" /\ daemon' = "reopen" /\ pipe # << >>
        /\ request' = <<Head(pipe)>> /\ pipe' = << >>
        /\ UNCHANGED <<conf, role, verdict, result, exitcode, lock, answer, client, bash, said,
                       sub, kills>>
    BY <1>1, <1>6, <2>1 DEF ReadCommand, bashVars, PhaseTyped, Asked, Facts
  <2>3. PhaseTyped'
    <3>1. /\ {stopped', cancelled', logging', timer', hangup'} \subseteq BOOLEAN
          /\ writers' \subseteq Clients /\ term' \in [Roles -> BOOLEAN]
      BY <1>6, <2>1 DEF ReadCommand, PhaseTyped, emergeVars, fifoVars, bashVars
    <3>2. pipe' \in Seq(Letters)
      BY <2>1, <2>2, Held DEF PhaseTyped
    <3>3. /\ request' \in {<< >>} \cup {<<m>> : m \in Letters}
          /\ answer' \in {<< >>} \cup {<<m>> : m \in Letters}
          /\ request' # << >> <=> daemon' \in {"reopen", "answer"}
      BY <2>1, <2>2, Held DEF PhaseTyped
    <3>4. /\ conf' \in Settings /\ role' \in Roles \cup {"starting", "over"}
          /\ verdict' \in Codes /\ result' \in Codes /\ exitcode' \in {"none", "succeed", "fail"}
          /\ daemon' \in {"closed", "poll", "reopen", "answer", "locking"}
          /\ lock' \in Clients \cup {"none"} /\ kills' \in {0, 1}
      BY <2>1, <2>2, Held DEF PhaseTyped, Codes, Later, Gone, Clients, Letters, Asked, Roles
    <3>5. /\ client' \in [Clients -> Clienthood]
          /\ bash' \in [Roles -> {"absent", "works", "waits", "ends", "ok", "fail"}]
          /\ said' \in [Roles -> {"none", "succeed", "fail"}] /\ sub' \in Subshell
      BY <2>1, <2>2 DEF PhaseTyped
    <3> QED BY <3>1, <3>2, <3>3, <3>4, <3>5 DEF PhaseTyped
  <2>4. Ordered'
    BY <2>1, <2>2, <2>3 DEF PhaseTyped, Ordered, Later, Gone, Idle, Roles, Clients, Talking
  <2>5. Once'
    BY <1>1, <2>1, <2>2, Held DEF Facts, PhaseTyped, Ordered, Once, Heading, ToSend, Says, Clients
  <2>6. Heard'
    BY <1>1, <2>1, <2>2, <2>3, <2>5, Held
       DEF Facts, PhaseTyped, Ordered, Later, Once, Heard, WholePhase, Heading, ToSend, Says,
       Roles, Clients, Gone
  <2>7. ASSUME kills' = 0 PROVE OneLetter' /\ Foreground' /\ Deaths' /\ OwnAnswer'
    <3>1. kills = 0 /\ OneLetter /\ Foreground /\ Deaths /\ OwnAnswer
      BY <2>2, <2>7 DEF PhaseInv
    <3>2. OneLetter'
      BY <1>1, <2>1, <2>2, <3>1, Held DEF Facts, PhaseTyped, OneLetter, Foreground, Under,
         Talking, Letters, Idle
    <3>3. Foreground'
      BY <1>1, <2>1, <2>2, <3>1 DEF Facts, PhaseTyped, Ordered, Later, Idle, Roles, Foreground,
         Gone, Talking, Clients
    <3>4. Deaths'
      BY <1>1, <2>1, <2>2, <3>1, Held DEF Facts, PhaseTyped, Ordered, Later, Once, Heading, Says,
         ToSend, OneLetter, Under, Foreground, Deaths, Announced, Talking, Clients, Roles, Gone,
         Letters
    <3>5. OwnAnswer'
      BY <1>1, <2>1, <2>2, <2>7, <3>1, Held DEF Facts, PhaseTyped, OwnAnswer, OneLetter, Under
    <3> QED BY <3>2, <3>3, <3>4, <3>5
  <2> QED BY <2>3, <2>4, <2>5, <2>6, <2>7 DEF PhaseInv
<1>7. ASSUME Answer
      PROVE  PhaseInv'
  <2>1. PhaseTyped /\ Ordered /\ Once /\ Heard
    BY DEF PhaseInv
  <2>2. /\ daemon = "answer" /\ daemon' = "poll"
        /\ (answer' = request /\ answer = << >>) \/ answer' = answer
        /\ exitcode' = IF Head(request).what # "query" /\ exitcode = "none" THEN Head(request).what ELSE exitcode
        /\ request' = << >>
        /\ UNCHANGED <<conf, role, verdict, result, pipe, lock, client, bash, said, sub, kills>>
    BY <1>1, <1>7, <2>1 DEF Answer, IsExit, ExitCommand, bashVars, PhaseTyped, Asked, Facts
  <2>3. PhaseTyped'
    <3>1. /\ {stopped', cancelled', logging', timer', hangup'} \subseteq BOOLEAN
          /\ writers' \subseteq Clients /\ term' \in [Roles -> BOOLEAN]
      BY <1>7, <2>1 DEF Answer, PhaseTyped, emergeVars, fifoVars, bashVars, IsExit, StartsTimer
    <3>2. pipe' \in Seq(Letters)
      BY <2>1, <2>2, Held DEF PhaseTyped
    <3>3. /\ request' \in {<< >>} \cup {<<m>> : m \in Letters}
          /\ answer' \in {<< >>} \cup {<<m>> : m \in Letters}
          /\ request' # << >> <=> daemon' \in {"reopen", "answer"}
      BY <2>1, <2>2, Held DEF PhaseTyped
    <3>4. /\ conf' \in Settings /\ role' \in Roles \cup {"starting", "over"}
          /\ verdict' \in Codes /\ result' \in Codes /\ exitcode' \in {"none", "succeed", "fail"}
          /\ daemon' \in {"closed", "poll", "reopen", "answer", "locking"}
          /\ lock' \in Clients \cup {"none"} /\ kills' \in {0, 1}
      BY <2>1, <2>2, Held DEF PhaseTyped, Codes, Later, Gone, Clients, Letters, Asked, Roles
    <3>5. /\ client' \in [Clients -> Clienthood]
          /\ bash' \in [Roles -> {"absent", "works", "waits", "ends", "ok", "fail"}]
          /\ said' \in [Roles -> {"none", "succeed", "fail"}] /\ sub' \in Subshell
      BY <2>1, <2>2 DEF PhaseTyped
    <3> QED BY <3>1, <3>2, <3>3, <3>4, <3>5 DEF PhaseTyped
  <2>4. Ordered'
    BY <2>1, <2>2, <2>3 DEF PhaseTyped, Ordered, Later, Gone, Idle, Roles, Clients, Talking
  <2>5. Once'
    BY <1>1, <2>1, <2>2, Held DEF Facts, PhaseTyped, Ordered, Once, Heading, ToSend, Says, Clients
  <2>6. Heard'
    BY <1>1, <2>1, <2>2, <2>3, <2>5, Held
       DEF Facts, PhaseTyped, Ordered, Later, Once, Heard, WholePhase, Heading, ToSend, Says,
       Roles, Clients, Gone
  <2>7. ASSUME kills' = 0 PROVE OneLetter' /\ Foreground' /\ Deaths' /\ OwnAnswer'
    <3>1. kills = 0 /\ OneLetter /\ Foreground /\ Deaths /\ OwnAnswer
      BY <2>2, <2>7 DEF PhaseInv
    <3>2. OneLetter'
      BY <1>1, <2>1, <2>2, <3>1, Held DEF Facts, PhaseTyped, OneLetter, Foreground, Under,
         Talking, Letters, Idle
    <3>3. Foreground'
      BY <1>1, <2>1, <2>2, <3>1 DEF Facts, PhaseTyped, Ordered, Later, Idle, Roles, Foreground,
         Gone, Talking, Clients
    <3>4. Deaths'
      BY <1>1, <2>1, <2>2, <3>1, Held DEF Facts, PhaseTyped, Ordered, Later, Once, Heading, Says,
         ToSend, OneLetter, Under, Foreground, Deaths, Announced, Talking, Clients, Roles, Gone,
         Letters
    <3>5. OwnAnswer'
      BY <1>1, <2>1, <2>2, <2>7, <3>1, Held DEF Facts, PhaseTyped, OwnAnswer, OneLetter, Under
    <3> QED BY <3>2, <3>3, <3>4, <3>5
  <2> QED BY <2>3, <2>4, <2>5, <2>6, <2>7 DEF PhaseInv
<1>8. ASSUME ExitTimeout \/ OutputEnds \/ ReopenInput \/ EndOfFile \/ TryReopen
      PROVE  PhaseInv'
  <2>1. PhaseTyped /\ Ordered /\ Once /\ Heard
    BY DEF PhaseInv
  <2>2. /\ daemon \in {"reopen", "answer"} <=> daemon' \in {"reopen", "answer"}
        /\ daemon' \in {"closed", "poll", "answer", "locking"} /\ (daemon = "closed" => daemon' = "closed")
        /\ pipe' = pipe \/ pipe' = << >>
        /\ UNCHANGED <<conf, role, verdict, result, exitcode, request, lock, answer, client,
                       bash, said, sub, kills>>
    <3>1. CASE ExitTimeout \/ OutputEnds
      BY <3>1, <2>1 DEF ExitTimeout, OutputEnds, CancelProcess, Between, fifoVars, bashVars,
         PhaseTyped
    <3>2. CASE ReopenInput \/ TryReopen
      BY <3>2 DEF ReopenInput, TryReopen, Reopened, Kept, bashVars
    <3>3. CASE EndOfFile
      BY <3>3 DEF EndOfFile, fifoVars, bashVars
    <3> QED BY <1>8, <3>1, <3>2, <3>3
  <2>3. PhaseTyped'
    <3>1. /\ {stopped', cancelled', logging', timer', hangup'} \subseteq BOOLEAN
          /\ writers' \subseteq Clients /\ term' \in [Roles -> BOOLEAN]
      <4>1. CASE ExitTimeout
        BY <2>1, <4>1 DEF ExitTimeout, CancelProcess, PhaseTyped, fifoVars, bashVars
      <4>2. CASE OutputEnds \/ EndOfFile
        BY <2>1, <4>2 DEF OutputEnds, EndOfFile, PhaseTyped, fifoVars, bashVars
      <4>3. CASE ReopenInput \/ TryReopen
        BY <2>1, <4>3 DEF ReopenInput, TryReopen, Reopened, PhaseTyped, bashVars
      <4> QED BY <1>8, <4>1, <4>2, <4>3
    <3>2. pipe' \in Seq(Letters)
      BY <2>1, <2>2, Held DEF PhaseTyped
    <3>3. /\ request' \in {<< >>} \cup {<<m>> : m \in Letters}
          /\ answer' \in {<< >>} \cup {<<m>> : m \in Letters}
          /\ request' # << >> <=> daemon' \in {"reopen", "answer"}
      BY <2>1, <2>2, Held DEF PhaseTyped
    <3>4. /\ conf' \in Settings /\ role' \in Roles \cup {"starting", "over"}
          /\ verdict' \in Codes /\ result' \in Codes /\ exitcode' \in {"none", "succeed", "fail"}
          /\ daemon' \in {"closed", "poll", "reopen", "answer", "locking"}
          /\ lock' \in Clients \cup {"none"} /\ kills' \in {0, 1}
      BY <2>1, <2>2, Held DEF PhaseTyped, Codes, Later, Gone, Clients, Letters, Asked, Roles
    <3>5. /\ client' \in [Clients -> Clienthood]
          /\ bash' \in [Roles -> {"absent", "works", "waits", "ends", "ok", "fail"}]
          /\ said' \in [Roles -> {"none", "succeed", "fail"}] /\ sub' \in Subshell
      BY <2>1, <2>2 DEF PhaseTyped
    <3> QED BY <3>1, <3>2, <3>3, <3>4, <3>5 DEF PhaseTyped
  <2>4. Ordered'
    BY <2>1, <2>2, <2>3 DEF PhaseTyped, Ordered, Later, Gone, Idle, Roles, Clients, Talking
  <2>5. Once'
    BY <1>1, <2>1, <2>2, Held DEF Facts, PhaseTyped, Ordered, Once, Heading, ToSend, Says, Clients
  <2>6. Heard'
    BY <1>1, <2>1, <2>2, <2>3, <2>5, Held
       DEF Facts, PhaseTyped, Ordered, Later, Once, Heard, WholePhase, Heading, ToSend, Says,
       Roles, Clients, Gone
  <2>7. ASSUME kills' = 0 PROVE OneLetter' /\ Foreground' /\ Deaths' /\ OwnAnswer'
    <3>1. kills = 0 /\ OneLetter /\ Foreground /\ Deaths /\ OwnAnswer
      BY <2>2, <2>7 DEF PhaseInv
    <3>2. OneLetter'
      BY <1>1, <2>1, <2>2, <3>1, Held DEF Facts, PhaseTyped, OneLetter, Foreground, Under,
         Talking, Letters, Idle
    <3>3. Foreground'
      BY <1>1, <2>1, <2>2, <3>1 DEF Facts, PhaseTyped, Ordered, Later, Idle, Roles, Foreground,
         Gone, Talking, Clients
    <3>4. Deaths'
      BY <1>1, <2>1, <2>2, <3>1, Held DEF Facts, PhaseTyped, Ordered, Later, Once, Heading, Says,
         ToSend, OneLetter, Under, Foreground, Deaths, Announced, Talking, Clients, Roles, Gone,
         Letters
    <3>5. OwnAnswer'
      BY <1>1, <2>1, <2>2, <2>7, <3>1, Held DEF Facts, PhaseTyped, OwnAnswer, OneLetter, Under
    <3> QED BY <3>2, <3>3, <3>4, <3>5
  <2> QED BY <2>3, <2>4, <2>5, <2>6, <2>7 DEF PhaseInv
<1>9. ASSUME NEW c \in Clients, Connect(c)
      PROVE  PhaseInv'
  <2>1. PhaseTyped /\ Ordered /\ Once /\ Heard
    BY DEF PhaseInv
  <2>2. /\ client[c].at = "lock" /\ lock = "none" /\ lock' = c /\ MovesTo(c, "write")
        /\ UNCHANGED <<conf, role, verdict, result, exitcode, daemon, request, pipe, answer,
                       bash, said, sub, kills>>
    BY <1>1, <1>9, <2>1, ClientMoves DEF Connect, emergeVars, bashVars, PhaseTyped, Asked, Facts
  <2>3. PhaseTyped'
    <3>1. /\ {stopped', cancelled', logging', timer', hangup'} \subseteq BOOLEAN
          /\ writers' \subseteq Clients /\ term' \in [Roles -> BOOLEAN]
      BY <1>9, <2>1 DEF Connect, PhaseTyped, emergeVars, fifoVars, bashVars
    <3>2. pipe' \in Seq(Letters)
      BY <2>1, <2>2, Held DEF PhaseTyped
    <3>3. /\ request' \in {<< >>} \cup {<<m>> : m \in Letters}
          /\ answer' \in {<< >>} \cup {<<m>> : m \in Letters}
          /\ request' # << >> <=> daemon' \in {"reopen", "answer"}
      BY <2>1, <2>2, Held DEF PhaseTyped
    <3>4. /\ conf' \in Settings /\ role' \in Roles \cup {"starting", "over"}
          /\ verdict' \in Codes /\ result' \in Codes /\ exitcode' \in {"none", "succeed", "fail"}
          /\ daemon' \in {"closed", "poll", "reopen", "answer", "locking"}
          /\ lock' \in Clients \cup {"none"} /\ kills' \in {0, 1}
      BY <2>1, <2>2, Held DEF PhaseTyped, Codes, Later, Gone, Clients, Letters, Asked, Roles
    <3>5. /\ client' \in [Clients -> Clienthood]
          /\ bash' \in [Roles -> {"absent", "works", "waits", "ends", "ok", "fail"}]
          /\ said' \in [Roles -> {"none", "succeed", "fail"}] /\ sub' \in Subshell
      BY <2>1, <2>2 DEF PhaseTyped, ClientIs, MovesTo
    <3> QED BY <3>1, <3>2, <3>3, <3>4, <3>5 DEF PhaseTyped
  <2>4. Ordered'
    BY <2>1, <2>2, <2>3 DEF PhaseTyped, Ordered, Later, Gone, ClientIs, MovesTo, Idle, Roles,
       Clients, Talking
  <2>5. Once'
    <3>1. /\ UNCHANGED <<pipe, request, said>>
          /\ \A d \in Clients : /\ client'[d].what = client[d].what
                                /\ client'[d].at \in {"lock", "write"} => client[d].at \in {"lock", "write"}
      BY <2>2 DEF MovesTo, ClientIs
    <3>2. \A r \in Roles : (ToSend(r)' => ToSend(r)) /\ (Heading(r)' => Heading(r))
      BY <1>1, <3>1 DEF Facts, ToSend, Heading, Says
    <3>3. client'["sub"].what # "succeed" /\ ~Says("sub", pipe)' /\ ~Says("sub", request)'
      BY <1>1, <2>1, <3>1 DEF Facts, Once, Says
    <3>4. \A r \in Roles : /\ Says(r, request)' <=> Says(r, request)
                         /\ Says(r, pipe)' <=> Says(r, pipe)
      BY <3>1 DEF Says
    <3> QED BY <2>1, <3>1, <3>2, <3>3, <3>4 DEF Once
  <2>6. Heard'
    BY <1>1, <2>1, <2>2, <2>3, <2>5, Held
       DEF Facts, PhaseTyped, Ordered, Later, Once, Heard, WholePhase, Heading, ToSend, Says,
       ClientIs, MovesTo, Roles, Clients, Gone
  <2>7. ASSUME kills' = 0 PROVE OneLetter' /\ Foreground' /\ Deaths' /\ OwnAnswer'
    <3>1. kills = 0 /\ OneLetter /\ Foreground /\ Deaths /\ OwnAnswer
      BY <2>2, <2>7 DEF PhaseInv
    <3>2. OneLetter'
      BY <1>1, <2>1, <2>2, <3>1, Held DEF Facts, PhaseTyped, OneLetter, Foreground, Under,
         ClientIs, MovesTo, Talking, Letters, Idle
    <3>3. Foreground'
      BY <1>1, <2>1, <2>2, <3>1 DEF Facts, PhaseTyped, Ordered, Later, Idle, Roles, Foreground,
         Gone, ClientIs, MovesTo, Talking, Clients
    <3>4. Deaths'
      BY <1>1, <2>1, <2>2, <3>1, Held DEF Facts, PhaseTyped, Ordered, Later, Once, Heading, Says,
         ToSend, OneLetter, Under, Foreground, Deaths, Announced, ClientIs, MovesTo, Talking,
         Clients, Roles, Gone, Letters
    <3>5. OwnAnswer'
      BY <1>1, <2>1, <2>2, <2>7, <3>1, Held
         DEF Facts, PhaseTyped, OwnAnswer, OneLetter, Under, ClientIs, MovesTo
    <3> QED BY <3>2, <3>3, <3>4, <3>5
  <2> QED BY <2>3, <2>4, <2>5, <2>6, <2>7 DEF PhaseInv
<1>10. ASSUME NEW c \in Clients, Refused(c)
      PROVE  PhaseInv'
  <2>1. PhaseTyped /\ Ordered /\ Once /\ Heard
    BY DEF PhaseInv
  <2>2. /\ client[c].at = "write" /\ lock' = "none" /\ answer' = << >> /\ MovesTo(c, "done")
        /\ UNCHANGED <<conf, role, verdict, result, exitcode, daemon, request, pipe, bash, said,
                       sub, kills>>
    BY <1>1, <1>10, <2>1, ClientMoves DEF Refused, emergeVars, bashVars, PhaseTyped, Asked, Facts
  <2>3. PhaseTyped'
    <3>1. /\ {stopped', cancelled', logging', timer', hangup'} \subseteq BOOLEAN
          /\ writers' \subseteq Clients /\ term' \in [Roles -> BOOLEAN]
      BY <1>10, <2>1 DEF Refused, PhaseTyped, emergeVars, fifoVars, bashVars
    <3>2. pipe' \in Seq(Letters)
      BY <2>1, <2>2, Held DEF PhaseTyped
    <3>3. /\ request' \in {<< >>} \cup {<<m>> : m \in Letters}
          /\ answer' \in {<< >>} \cup {<<m>> : m \in Letters}
          /\ request' # << >> <=> daemon' \in {"reopen", "answer"}
      BY <2>1, <2>2, Held DEF PhaseTyped
    <3>4. /\ conf' \in Settings /\ role' \in Roles \cup {"starting", "over"}
          /\ verdict' \in Codes /\ result' \in Codes /\ exitcode' \in {"none", "succeed", "fail"}
          /\ daemon' \in {"closed", "poll", "reopen", "answer", "locking"}
          /\ lock' \in Clients \cup {"none"} /\ kills' \in {0, 1}
      BY <2>1, <2>2, Held DEF PhaseTyped, Codes, Later, Gone, Clients, Letters, Asked, Roles
    <3>5. /\ client' \in [Clients -> Clienthood]
          /\ bash' \in [Roles -> {"absent", "works", "waits", "ends", "ok", "fail"}]
          /\ said' \in [Roles -> {"none", "succeed", "fail"}] /\ sub' \in Subshell
      BY <2>1, <2>2 DEF PhaseTyped, ClientIs, MovesTo
    <3> QED BY <3>1, <3>2, <3>3, <3>4, <3>5 DEF PhaseTyped
  <2>4. Ordered'
    BY <2>1, <2>2, <2>3 DEF PhaseTyped, Ordered, Later, Gone, ClientIs, MovesTo, Idle, Roles,
       Clients, Talking
  <2>5. Once'
    <3>1. /\ UNCHANGED <<pipe, request, said>>
          /\ \A d \in Clients : /\ client'[d].what = client[d].what
                                /\ client'[d].at \in {"lock", "write"} => client[d].at \in {"lock", "write"}
      BY <2>2 DEF MovesTo, ClientIs
    <3>2. \A r \in Roles : (ToSend(r)' => ToSend(r)) /\ (Heading(r)' => Heading(r))
      BY <1>1, <3>1 DEF Facts, ToSend, Heading, Says
    <3>3. client'["sub"].what # "succeed" /\ ~Says("sub", pipe)' /\ ~Says("sub", request)'
      BY <1>1, <2>1, <3>1 DEF Facts, Once, Says
    <3>4. \A r \in Roles : /\ Says(r, request)' <=> Says(r, request)
                         /\ Says(r, pipe)' <=> Says(r, pipe)
      BY <3>1 DEF Says
    <3> QED BY <2>1, <3>1, <3>2, <3>3, <3>4 DEF Once
  <2>6. Heard'
    BY <1>1, <2>1, <2>2, <2>3, <2>5, Held
       DEF Facts, PhaseTyped, Ordered, Later, Once, Heard, WholePhase, Heading, ToSend, Says,
       ClientIs, MovesTo, Roles, Clients, Gone
  <2>7. ASSUME kills' = 0 PROVE OneLetter' /\ Foreground' /\ Deaths' /\ OwnAnswer'
    <3>1. kills = 0 /\ OneLetter /\ Foreground /\ Deaths /\ OwnAnswer
      BY <2>2, <2>7 DEF PhaseInv
    <3>2. OneLetter'
      BY <1>1, <2>1, <2>2, <3>1, Held, ZenonT(60) DEF Facts, PhaseTyped, OneLetter, Foreground, Under,
         ClientIs, MovesTo, Talking, Letters, Idle
    <3>3. Foreground'
      BY <1>1, <2>1, <2>2, <3>1 DEF Facts, PhaseTyped, Ordered, Later, Idle, Roles, Foreground,
         Gone, ClientIs, MovesTo, Talking, Clients
    <3>4. Deaths'
      BY <1>1, <2>1, <2>2, <3>1, Held DEF Facts, PhaseTyped, Ordered, Later, Once, Heading, Says,
         ToSend, OneLetter, Under, Foreground, Deaths, Announced, ClientIs, MovesTo, Talking,
         Clients, Roles, Gone, Letters
    <3>5. OwnAnswer'
      BY <1>1, <2>1, <2>2, <2>7, <3>1, Held
         DEF Facts, PhaseTyped, OwnAnswer, OneLetter, Under, ClientIs, MovesTo
    <3> QED BY <3>2, <3>3, <3>4, <3>5
  <2> QED BY <2>3, <2>4, <2>5, <2>6, <2>7 DEF PhaseInv
<1>11. ASSUME NEW c \in Clients, Write(c)
      PROVE  PhaseInv'
  <2>1. PhaseTyped /\ Ordered /\ Once /\ Heard
    BY DEF PhaseInv
  <2>2. /\ client[c].at = "write" /\ pipe' = Append(pipe, [from |-> c, what |-> client[c].what])
           /\ MovesTo(c, "close")
        /\ UNCHANGED <<conf, role, verdict, result, exitcode, daemon, request, lock, answer,
                       bash, said, sub, kills>>
    BY <1>1, <1>11, <2>1, ClientMoves DEF Write, emergeVars, bashVars, PhaseTyped, Asked, Facts
  <2>3. PhaseTyped'
    <3>1. /\ {stopped', cancelled', logging', timer', hangup'} \subseteq BOOLEAN
          /\ writers' \subseteq Clients /\ term' \in [Roles -> BOOLEAN]
      BY <1>11, <2>1 DEF Write, PhaseTyped, emergeVars, fifoVars, bashVars
    <3>2. pipe' \in Seq(Letters)
      BY <2>1, <2>2, Held DEF PhaseTyped, Letters, Clienthood
    <3>3. /\ request' \in {<< >>} \cup {<<m>> : m \in Letters}
          /\ answer' \in {<< >>} \cup {<<m>> : m \in Letters}
          /\ request' # << >> <=> daemon' \in {"reopen", "answer"}
      BY <2>1, <2>2, Held DEF PhaseTyped
    <3>4. /\ conf' \in Settings /\ role' \in Roles \cup {"starting", "over"}
          /\ verdict' \in Codes /\ result' \in Codes /\ exitcode' \in {"none", "succeed", "fail"}
          /\ daemon' \in {"closed", "poll", "reopen", "answer", "locking"}
          /\ lock' \in Clients \cup {"none"} /\ kills' \in {0, 1}
      BY <2>1, <2>2, Held DEF PhaseTyped, Codes, Later, Gone, Clients, Letters, Asked, Roles
    <3>5. /\ client' \in [Clients -> Clienthood]
          /\ bash' \in [Roles -> {"absent", "works", "waits", "ends", "ok", "fail"}]
          /\ said' \in [Roles -> {"none", "succeed", "fail"}] /\ sub' \in Subshell
      BY <2>1, <2>2 DEF PhaseTyped, ClientIs, MovesTo
    <3> QED BY <3>1, <3>2, <3>3, <3>4, <3>5 DEF PhaseTyped
  <2>4. Ordered'
    BY <2>1, <2>2, <2>3 DEF PhaseTyped, Ordered, Later, Gone, ClientIs, MovesTo, Idle, Roles,
       Clients, Talking
  <2>5. Once'
    <3> DEFINE m == [from |-> c, what |-> client[c].what]
    <3>1. m \in Letters /\ m.from = c /\ m.what = client[c].what
      BY <1>1 DEF Facts, Letters
    <3>2. In(pipe') = In(pipe) \cup {m} /\ UNCHANGED <<request, said>>
      BY <1>1, <2>2, <3>1, Held DEF Facts
    <3> HIDE DEF m
    <3>3. \A d \in Clients : Says(d, pipe)' => Says(d, pipe) \/ (d = c /\ client[c].what = "succeed")
      BY <3>1, <3>2 DEF Says
    <3>4. \A d \in Clients : client'[d].what = client[d].what /\ (d # c => client'[d].at = client[d].at)
      BY <2>2 DEF MovesTo, ClientIs
    <3>5. \A r \in Roles : (ToSend(r)' => ToSend(r) /\ r # c) /\ (r = c /\ client[c].what = "succeed" => ToSend(r))
      BY <1>1, <2>2, <3>4 DEF Facts, ToSend, MovesTo, ClientIs
    <3>6. \A d \in Clients : Says(d, request)' <=> Says(d, request)
      BY <3>2 DEF Says
    <3>7. client'["sub"].what # "succeed" /\ ~Says("sub", pipe)' /\ ~Says("sub", request)'
      BY <1>1, <2>1, <3>3, <3>4, <3>6 DEF Facts, Once
    <3>8. ASSUME NEW r \in Roles
          PROVE  /\ ToSend(r)' => ~Says(r, pipe)' /\ ~Says(r, request)'
                 /\ Says(r, request)' => ~Says(r, pipe)'
                 /\ Heading(r)' => said'[r] = "succeed"
      BY <1>1, <2>1, <3>2, <3>3, <3>5, <3>6 DEF Facts, Once, Heading
    <3> QED BY <3>7, <3>8 DEF Once
  <2>6. Heard'
    BY <1>1, <2>1, <2>2, <2>3, <2>5, Held
       DEF Facts, PhaseTyped, Ordered, Later, Once, Heard, WholePhase, Heading, ToSend, Says,
       ClientIs, MovesTo, Roles, Clients, Gone
  <2>7. ASSUME kills' = 0 PROVE OneLetter' /\ Foreground' /\ Deaths' /\ OwnAnswer'
    <3>1. kills = 0 /\ OneLetter /\ Foreground /\ Deaths /\ OwnAnswer
      BY <2>2, <2>7 DEF PhaseInv
    <3>2. OneLetter'
      <4> DEFINE m == [from |-> c, what |-> client[c].what]
      <4>1. m \in Letters /\ m.from = c /\ m.what = client[c].what
        BY <1>1 DEF Facts, Letters
      <4>2. lock = c /\ In(pipe) = {} /\ In(request) = {} /\ In(answer) = {}
        BY <1>1, <2>2, <3>1 DEF Facts, OneLetter, Under
      <4>3. pipe = << >> /\ request = << >> /\ answer = << >>
        BY <1>1, <4>2 DEF Facts
      <4>4. In(pipe') = {m} /\ UNCHANGED <<request, answer, lock>>
        BY <1>1, <2>2, <4>1, <4>2, Held DEF Facts
      <4> HIDE DEF m
      <4>5. client'[c].at = "close" /\ client'[c].what = m.what /\ \A d \in Clients : d # c => client'[d] = client[d]
        BY <2>2, <4>1 DEF MovesTo, ClientIs
      <4>6. \A d \in Clients : client'[d].at \in {"write", "close", "read"} => lock' = d
        BY <3>1, <4>2, <4>4, <4>5 DEF OneLetter
      <4>7. \A x \in In(pipe') \cup In(request') \cup In(answer') : Under(x)'
        BY <4>1, <4>2, <4>4, <4>5 DEF Under
      <4> QED BY <4>3, <4>4, <4>6, <4>7 DEF OneLetter
    <3>3. Foreground'
      BY <1>1, <2>1, <2>2, <3>1 DEF Facts, PhaseTyped, Ordered, Later, Idle, Roles, Foreground,
         Gone, ClientIs, MovesTo, Talking, Clients
    <3>4. Deaths'
      BY <1>1, <2>1, <2>2, <3>1, Held DEF Facts, PhaseTyped, Ordered, Later, Once, Heading, Says,
         ToSend, OneLetter, Under, Foreground, Deaths, Announced, ClientIs, MovesTo, Talking,
         Clients, Roles, Gone, Letters
    <3>5. OwnAnswer'
      BY <1>1, <2>1, <2>2, <2>7, <3>1, Held
         DEF Facts, PhaseTyped, OwnAnswer, OneLetter, Under, ClientIs, MovesTo
    <3> QED BY <3>2, <3>3, <3>4, <3>5
  <2> QED BY <2>3, <2>4, <2>5, <2>6, <2>7 DEF PhaseInv
<1>12. ASSUME NEW c \in Clients, CloseFifo(c)
      PROVE  PhaseInv'
  <2>1. PhaseTyped /\ Ordered /\ Once /\ Heard
    BY DEF PhaseInv
  <2>2. /\ client[c].at = "close" /\ MovesTo(c, "read") /\ (pipe' = pipe \/ pipe' = << >>)
        /\ UNCHANGED <<conf, role, verdict, result, exitcode, daemon, request, lock, answer,
                       bash, said, sub, kills>>
    BY <1>1, <1>12, <2>1, ClientMoves DEF CloseFifo, emergeVars, bashVars, CloseInput, Kept,
       PhaseTyped, Asked, Facts
  <2>3. PhaseTyped'
    <3>1. /\ {stopped', cancelled', logging', timer', hangup'} \subseteq BOOLEAN
          /\ writers' \subseteq Clients /\ term' \in [Roles -> BOOLEAN]
      BY <1>12, <2>1 DEF CloseFifo, PhaseTyped, emergeVars, fifoVars, bashVars, CloseInput
    <3>2. pipe' \in Seq(Letters)
      BY <2>1, <2>2, Held DEF PhaseTyped
    <3>3. /\ request' \in {<< >>} \cup {<<m>> : m \in Letters}
          /\ answer' \in {<< >>} \cup {<<m>> : m \in Letters}
          /\ request' # << >> <=> daemon' \in {"reopen", "answer"}
      BY <2>1, <2>2, Held DEF PhaseTyped
    <3>4. /\ conf' \in Settings /\ role' \in Roles \cup {"starting", "over"}
          /\ verdict' \in Codes /\ result' \in Codes /\ exitcode' \in {"none", "succeed", "fail"}
          /\ daemon' \in {"closed", "poll", "reopen", "answer", "locking"}
          /\ lock' \in Clients \cup {"none"} /\ kills' \in {0, 1}
      BY <2>1, <2>2, Held DEF PhaseTyped, Codes, Later, Gone, Clients, Letters, Asked, Roles
    <3>5. /\ client' \in [Clients -> Clienthood]
          /\ bash' \in [Roles -> {"absent", "works", "waits", "ends", "ok", "fail"}]
          /\ said' \in [Roles -> {"none", "succeed", "fail"}] /\ sub' \in Subshell
      BY <2>1, <2>2 DEF PhaseTyped, ClientIs, MovesTo
    <3> QED BY <3>1, <3>2, <3>3, <3>4, <3>5 DEF PhaseTyped
  <2>4. Ordered'
    BY <2>1, <2>2, <2>3 DEF PhaseTyped, Ordered, Later, Gone, ClientIs, MovesTo, Idle, Roles,
       Clients, Talking
  <2>5. Once'
    BY <1>1, <2>1, <2>2, Held DEF Facts, PhaseTyped, Ordered, Once, Heading, ToSend, Says,
       ClientIs, MovesTo, Clients
  <2>6. Heard'
    BY <1>1, <2>1, <2>2, <2>3, <2>5, Held
       DEF Facts, PhaseTyped, Ordered, Later, Once, Heard, WholePhase, Heading, ToSend, Says,
       ClientIs, MovesTo, Roles, Clients, Gone
  <2>7. ASSUME kills' = 0 PROVE OneLetter' /\ Foreground' /\ Deaths' /\ OwnAnswer'
    <3>1. kills = 0 /\ OneLetter /\ Foreground /\ Deaths /\ OwnAnswer
      BY <2>2, <2>7 DEF PhaseInv
    <3>2. OneLetter'
      BY <1>1, <2>1, <2>2, <3>1, Held DEF Facts, PhaseTyped, OneLetter, Foreground, Under,
         ClientIs, MovesTo, Talking, Letters, Idle
    <3>3. Foreground'
      BY <1>1, <2>1, <2>2, <3>1 DEF Facts, PhaseTyped, Ordered, Later, Idle, Roles, Foreground,
         Gone, ClientIs, MovesTo, Talking, Clients
    <3>4. Deaths'
      BY <1>1, <2>1, <2>2, <3>1, Held DEF Facts, PhaseTyped, Ordered, Later, Once, Heading, Says,
         ToSend, OneLetter, Under, Foreground, Deaths, Announced, ClientIs, MovesTo, Talking,
         Clients, Roles, Gone, Letters
    <3>5. OwnAnswer'
      BY <1>1, <2>1, <2>2, <2>7, <3>1, Held
         DEF Facts, PhaseTyped, OwnAnswer, OneLetter, Under, ClientIs, MovesTo
    <3> QED BY <3>2, <3>3, <3>4, <3>5
  <2> QED BY <2>3, <2>4, <2>5, <2>6, <2>7 DEF PhaseInv
<1>13. ASSUME NEW c \in Clients, Receive(c)
      PROVE  PhaseInv'
  <2>1. PhaseTyped /\ Ordered /\ Once /\ Heard
    BY DEF PhaseInv
  <2>2. /\ client[c].at = "read" /\ answer # << >> /\ lock' = "none" /\ answer' = << >>
        /\ ClientIs(c, "done", client[c].what, IF Head(answer).from = c THEN "own" ELSE "other")
        /\ SubIs(sub.of, sub.at, sub.early \/ (c = "sub" /\ sub.at = "dies" /\ ~Announced(sub.of)))
        /\ UNCHANGED <<conf, role, verdict, result, exitcode, daemon, request, pipe, bash, said,
                       kills>>
    <3>1. /\ client[c].at = "read" /\ answer # << >> /\ lock' = "none" /\ answer' = << >>
          /\ UNCHANGED <<conf, role, verdict, result, exitcode, daemon, request, pipe, bash,
                         said, kills>>
      BY <1>13 DEF Receive, emergeVars
    <3> DEFINE x == [client[c] EXCEPT !.at = "done", !.got = IF Head(answer).from = c THEN "own" ELSE "other"]
               y == [sub EXCEPT !.early = @ \/ (c = "sub" /\ sub.at = "dies" /\ ~Announced(sub.of))]
    <3>2. /\ x \in Clienthood /\ x.at = "done" /\ x.what = client[c].what
          /\ x.got = IF Head(answer).from = c THEN "own" ELSE "other"
      BY <2>1 DEF Clienthood, PhaseTyped
    <3>3. client' = [client EXCEPT ![c] = x] /\ sub' = y
      BY <1>13 DEF Receive
    <3>4. /\ y \in Subshell /\ y.of = sub.of /\ y.at = sub.at
          /\ y.early = (sub.early \/ (c = "sub" /\ sub.at = "dies" /\ ~Announced(sub.of)))
      BY <2>1 DEF PhaseTyped, Subshell
    <3>5. client \in [Clients -> Clienthood]
      BY <2>1 DEF PhaseTyped
    <3> HIDE DEF x, y
    <3>6. ClientIs(c, "done", client[c].what, IF Head(answer).from = c THEN "own" ELSE "other")
      BY <3>2, <3>3, <3>5 DEF ClientIs
    <3>7. SubIs(sub.of, sub.at, sub.early \/ (c = "sub" /\ sub.at = "dies" /\ ~Announced(sub.of)))
      BY <3>3, <3>4 DEF SubIs
    <3> QED BY <3>1, <3>6, <3>7
  <2>3. PhaseTyped'
    <3>1. /\ {stopped', cancelled', logging', timer', hangup'} \subseteq BOOLEAN
          /\ writers' \subseteq Clients /\ term' \in [Roles -> BOOLEAN]
      BY <1>13, <2>1 DEF Receive, PhaseTyped, emergeVars, fifoVars, bashVars
    <3>2. pipe' \in Seq(Letters)
      BY <2>1, <2>2, Held DEF PhaseTyped
    <3>3. /\ request' \in {<< >>} \cup {<<m>> : m \in Letters}
          /\ answer' \in {<< >>} \cup {<<m>> : m \in Letters}
          /\ request' # << >> <=> daemon' \in {"reopen", "answer"}
      BY <2>1, <2>2, Held DEF PhaseTyped
    <3>4. /\ conf' \in Settings /\ role' \in Roles \cup {"starting", "over"}
          /\ verdict' \in Codes /\ result' \in Codes /\ exitcode' \in {"none", "succeed", "fail"}
          /\ daemon' \in {"closed", "poll", "reopen", "answer", "locking"}
          /\ lock' \in Clients \cup {"none"} /\ kills' \in {0, 1}
      BY <2>1, <2>2, Held DEF PhaseTyped, Codes, Later, Gone, Clients, Letters, Asked, Roles
    <3>5. /\ client' \in [Clients -> Clienthood]
          /\ bash' \in [Roles -> {"absent", "works", "waits", "ends", "ok", "fail"}]
          /\ said' \in [Roles -> {"none", "succeed", "fail"}] /\ sub' \in Subshell
      BY <2>1, <2>2 DEF PhaseTyped, ClientIs, SubIs
    <3> QED BY <3>1, <3>2, <3>3, <3>4, <3>5 DEF PhaseTyped
  <2>4. Ordered'
    BY <2>1, <2>2, <2>3 DEF PhaseTyped, Ordered, Later, Gone, ClientIs, SubIs, Idle, Roles,
       Clients, Talking
  <2>5. Once'
    BY <1>1, <2>1, <2>2, Held DEF Facts, PhaseTyped, Ordered, Once, Heading, ToSend, Says,
       ClientIs, Clients
  <2>6. Heard'
    BY <1>1, <2>1, <2>2, <2>3, <2>5, Held
       DEF Facts, PhaseTyped, Ordered, Later, Once, Heard, WholePhase, Heading, ToSend, Says,
       ClientIs, Roles, Clients, Gone
  <2>7. ASSUME kills' = 0 PROVE OneLetter' /\ Foreground' /\ Deaths' /\ OwnAnswer'
    <3>1. kills = 0 /\ OneLetter /\ Foreground /\ Deaths /\ OwnAnswer
      BY <2>2, <2>7 DEF PhaseInv
    <3>2. OneLetter'
      BY <1>1, <2>1, <2>2, <3>1, Held DEF Facts, PhaseTyped, OneLetter, Foreground, Under,
         ClientIs, Talking, Letters, Idle
    <3>3. Foreground'
      BY <1>1, <2>1, <2>2, <3>1 DEF Facts, PhaseTyped, Ordered, Later, Idle, Roles, Foreground,
         Gone, ClientIs, SubIs, Talking, Clients
    <3>4. Deaths'
      BY <1>1, <2>1, <2>2, <3>1, Held DEF Facts, PhaseTyped, Ordered, Later, Once, Heading, Says,
         ToSend, OneLetter, Under, Foreground, Deaths, Announced, ClientIs, SubIs, Talking,
         Clients, Roles, Gone, Letters
    <3>5. OwnAnswer'
      BY <1>1, <2>1, <2>2, <2>7, <3>1, Held
         DEF Facts, PhaseTyped, OwnAnswer, OneLetter, Under, ClientIs
    <3> QED BY <3>2, <3>3, <3>4, <3>5
  <2> QED BY <2>3, <2>4, <2>5, <2>6, <2>7 DEF PhaseInv
<1>14. ASSUME NEW c \in Clients, KillClient(c)
      PROVE  PhaseInv'
  <2>1. PhaseTyped /\ Ordered /\ Once /\ Heard
    BY DEF PhaseInv
  <2>2. /\ kills' = 1 /\ client[c].at # "none" /\ MovesTo(c, "done") /\ (lock' = lock \/ lock' = "none")
        /\ (answer' = answer \/ answer' = << >>) /\ (pipe' = pipe \/ pipe' = << >>)
        /\ UNCHANGED <<conf, role, verdict, result, exitcode, daemon, request, bash, said, sub>>
    BY <1>1, <1>14, <2>1, ClientMoves DEF KillClient, emergeVars, CloseInput, Kept, Talking,
       PhaseTyped, Asked, Facts
  <2>3. PhaseTyped'
    <3>1. /\ {stopped', cancelled', logging', timer', hangup'} \subseteq BOOLEAN
          /\ writers' \subseteq Clients /\ term' \in [Roles -> BOOLEAN]
      BY <1>14, <2>1 DEF KillClient, PhaseTyped, emergeVars, fifoVars, bashVars, CloseInput
    <3>2. pipe' \in Seq(Letters)
      BY <2>1, <2>2, Held DEF PhaseTyped
    <3>3. /\ request' \in {<< >>} \cup {<<m>> : m \in Letters}
          /\ answer' \in {<< >>} \cup {<<m>> : m \in Letters}
          /\ request' # << >> <=> daemon' \in {"reopen", "answer"}
      BY <2>1, <2>2, Held DEF PhaseTyped
    <3>4. /\ conf' \in Settings /\ role' \in Roles \cup {"starting", "over"}
          /\ verdict' \in Codes /\ result' \in Codes /\ exitcode' \in {"none", "succeed", "fail"}
          /\ daemon' \in {"closed", "poll", "reopen", "answer", "locking"}
          /\ lock' \in Clients \cup {"none"} /\ kills' \in {0, 1}
      BY <2>1, <2>2, Held DEF PhaseTyped, Codes, Later, Gone, Clients, Letters, Asked, Roles
    <3>5. /\ client' \in [Clients -> Clienthood]
          /\ bash' \in [Roles -> {"absent", "works", "waits", "ends", "ok", "fail"}]
          /\ said' \in [Roles -> {"none", "succeed", "fail"}] /\ sub' \in Subshell
      BY <2>1, <2>2 DEF PhaseTyped, ClientIs, MovesTo
    <3> QED BY <3>1, <3>2, <3>3, <3>4, <3>5 DEF PhaseTyped
  <2>4. Ordered'
    BY <2>1, <2>2, <2>3 DEF PhaseTyped, Ordered, Later, Gone, ClientIs, MovesTo, Idle, Roles,
       Clients, Talking
  <2>5. Once'
    BY <1>1, <2>1, <2>2, Held DEF Facts, PhaseTyped, Ordered, Once, Heading, ToSend, Says,
       ClientIs, MovesTo, Clients
  <2>6. Heard'
    BY <1>1, <2>1, <2>2, <2>3, <2>5, Held
       DEF Facts, PhaseTyped, Ordered, Later, Once, Heard, WholePhase, Heading, ToSend, Says,
       ClientIs, MovesTo, Roles, Clients, Gone
  <2> QED BY <2>2, <2>3, <2>4, <2>5, <2>6 DEF PhaseInv
<1>15. ASSUME NEW r \in Roles, Query(r)
      PROVE  PhaseInv'
  <2>1. PhaseTyped /\ Ordered /\ Once /\ Heard
    BY DEF PhaseInv
  <2>2. /\ bash[r] = "works" /\ client[r] = Idle /\ BashIs(r, "waits") /\ ClientIs(r, "lock", "query", "none")
        /\ UNCHANGED <<conf, role, verdict, result, exitcode, daemon, request, pipe, lock,
                       answer, said, sub, kills>>
    BY <1>1, <1>15, <2>1, ClientAsks, BashBecomes DEF Query, emergeVars, PhaseTyped, Asked, Facts
  <2>3. PhaseTyped'
    <3>1. /\ {stopped', cancelled', logging', timer', hangup'} \subseteq BOOLEAN
          /\ writers' \subseteq Clients /\ term' \in [Roles -> BOOLEAN]
      BY <1>15, <2>1 DEF Query, PhaseTyped, emergeVars, fifoVars, bashVars
    <3>2. pipe' \in Seq(Letters)
      BY <2>1, <2>2, Held DEF PhaseTyped
    <3>3. /\ request' \in {<< >>} \cup {<<m>> : m \in Letters}
          /\ answer' \in {<< >>} \cup {<<m>> : m \in Letters}
          /\ request' # << >> <=> daemon' \in {"reopen", "answer"}
      BY <2>1, <2>2, Held DEF PhaseTyped
    <3>4. /\ conf' \in Settings /\ role' \in Roles \cup {"starting", "over"}
          /\ verdict' \in Codes /\ result' \in Codes /\ exitcode' \in {"none", "succeed", "fail"}
          /\ daemon' \in {"closed", "poll", "reopen", "answer", "locking"}
          /\ lock' \in Clients \cup {"none"} /\ kills' \in {0, 1}
      BY <2>1, <2>2, Held DEF PhaseTyped, Codes, Later, Gone, Clients, Letters, Asked, Roles
    <3>5. /\ client' \in [Clients -> Clienthood]
          /\ bash' \in [Roles -> {"absent", "works", "waits", "ends", "ok", "fail"}]
          /\ said' \in [Roles -> {"none", "succeed", "fail"}] /\ sub' \in Subshell
      BY <2>1, <2>2 DEF PhaseTyped, ClientIs, BashIs
    <3> QED BY <3>1, <3>2, <3>3, <3>4, <3>5 DEF PhaseTyped
  <2>4. Ordered'
    BY <2>1, <2>2, <2>3 DEF PhaseTyped, Ordered, Later, Gone, ClientIs, BashIs, Idle, Roles,
       Clients, Talking
  <2>5. Once'
    BY <1>1, <2>1, <2>2, Held DEF Facts, PhaseTyped, Ordered, Once, Heading, ToSend, Says,
       ClientIs, Clients
  <2>6. Heard'
    BY <1>1, <2>1, <2>2, <2>3, <2>5, Held
       DEF Facts, PhaseTyped, Ordered, Later, Once, Heard, WholePhase, Heading, ToSend, Says,
       ClientIs, Roles, Clients, Gone
  <2>7. ASSUME kills' = 0 PROVE OneLetter' /\ Foreground' /\ Deaths' /\ OwnAnswer'
    <3>1. kills = 0 /\ OneLetter /\ Foreground /\ Deaths /\ OwnAnswer
      BY <2>2, <2>7 DEF PhaseInv
    <3>2. OneLetter'
      BY <1>1, <2>1, <2>2, <3>1, Held DEF Facts, PhaseTyped, OneLetter, Foreground, Under,
         ClientIs, Talking, Letters, Idle, Clients, Roles
    <3>3. Foreground'
      BY <1>1, <2>1, <2>2, <3>1 DEF Facts, PhaseTyped, Ordered, Later, Idle, Roles, Foreground,
         Gone, ClientIs, BashIs, Talking, Clients
    <3>4. Deaths'
      BY <1>1, <2>1, <2>2, <3>1, Held DEF Facts, PhaseTyped, Ordered, Later, Once, Heading, Says,
         ToSend, OneLetter, Under, Foreground, Deaths, Announced, ClientIs, BashIs, Talking,
         Clients, Roles, Gone, Letters
    <3>5. OwnAnswer'
      BY <1>1, <2>1, <2>2, <2>7, <3>1, Held
         DEF Facts, PhaseTyped, OwnAnswer, OneLetter, Under, ClientIs
    <3> QED BY <3>2, <3>3, <3>4, <3>5
  <2> QED BY <2>3, <2>4, <2>5, <2>6, <2>7 DEF PhaseInv
<1>16. ASSUME NEW r \in Roles, NEW code \in {"succeed", "fail"}, Announce(r, code)
      PROVE  PhaseInv'
  <2>1. PhaseTyped /\ Ordered /\ Once /\ Heard
    BY DEF PhaseInv
  <2>2. /\ bash[r] = "works" /\ BashIs(r, "ends") /\ ClientIs(r, "lock", code, "none")
        /\ said' = [said EXCEPT ![r] = code]
        /\ UNCHANGED <<conf, role, verdict, result, exitcode, daemon, request, pipe, lock,
                       answer, sub, kills>>
    BY <1>1, <1>16, <2>1, ClientAsks, BashBecomes
       DEF Announce, emergeVars, PhaseTyped, Asked, Facts
  <2>3. PhaseTyped'
    <3>1. /\ {stopped', cancelled', logging', timer', hangup'} \subseteq BOOLEAN
          /\ writers' \subseteq Clients /\ term' \in [Roles -> BOOLEAN]
      BY <1>16, <2>1 DEF Announce, PhaseTyped, emergeVars, fifoVars, bashVars
    <3>2. pipe' \in Seq(Letters)
      BY <2>1, <2>2, Held DEF PhaseTyped
    <3>3. /\ request' \in {<< >>} \cup {<<m>> : m \in Letters}
          /\ answer' \in {<< >>} \cup {<<m>> : m \in Letters}
          /\ request' # << >> <=> daemon' \in {"reopen", "answer"}
      BY <2>1, <2>2, Held DEF PhaseTyped
    <3>4. /\ conf' \in Settings /\ role' \in Roles \cup {"starting", "over"}
          /\ verdict' \in Codes /\ result' \in Codes /\ exitcode' \in {"none", "succeed", "fail"}
          /\ daemon' \in {"closed", "poll", "reopen", "answer", "locking"}
          /\ lock' \in Clients \cup {"none"} /\ kills' \in {0, 1}
      BY <2>1, <2>2, Held DEF PhaseTyped, Codes, Later, Gone, Clients, Letters, Asked, Roles
    <3>5. /\ client' \in [Clients -> Clienthood]
          /\ bash' \in [Roles -> {"absent", "works", "waits", "ends", "ok", "fail"}]
          /\ said' \in [Roles -> {"none", "succeed", "fail"}] /\ sub' \in Subshell
      BY <2>1, <2>2 DEF PhaseTyped, ClientIs, BashIs
    <3> QED BY <3>1, <3>2, <3>3, <3>4, <3>5 DEF PhaseTyped
  <2>4. Ordered'
    BY <2>1, <2>2, <2>3 DEF PhaseTyped, Ordered, Later, Gone, ClientIs, BashIs, Idle, Roles,
       Clients, Talking
  <2>5. Once'
    BY <1>1, <2>1, <2>2, Held DEF Facts, PhaseTyped, Ordered, Once, Heading, ToSend, Says,
       ClientIs, Clients
  <2>6. Heard'
    BY <1>1, <2>1, <2>2, <2>3, <2>5, Held
       DEF Facts, PhaseTyped, Ordered, Later, Once, Heard, WholePhase, Heading, ToSend, Says,
       ClientIs, Roles, Clients, Gone
  <2>7. ASSUME kills' = 0 PROVE OneLetter' /\ Foreground' /\ Deaths' /\ OwnAnswer'
    <3>1. kills = 0 /\ OneLetter /\ Foreground /\ Deaths /\ OwnAnswer
      BY <2>2, <2>7 DEF PhaseInv
    <3>2. OneLetter'
      BY <1>1, <2>1, <2>2, <3>1, Held DEF Facts, PhaseTyped, OneLetter, Foreground, Under,
         ClientIs, Talking, Letters, Idle, Clients, Roles
    <3>3. Foreground'
      BY <1>1, <2>1, <2>2, <3>1 DEF Facts, PhaseTyped, Ordered, Later, Idle, Roles, Foreground,
         Gone, ClientIs, BashIs, Talking, Clients
    <3>4. Deaths'
      BY <1>1, <2>1, <2>2, <3>1, Held DEF Facts, PhaseTyped, Ordered, Later, Once, Heading, Says,
         ToSend, OneLetter, Under, Foreground, Deaths, Announced, ClientIs, BashIs, Talking,
         Clients, Roles, Gone, Letters
    <3>5. OwnAnswer'
      BY <1>1, <2>1, <2>2, <2>7, <3>1, Held
         DEF Facts, PhaseTyped, OwnAnswer, OneLetter, Under, ClientIs
    <3> QED BY <3>2, <3>3, <3>4, <3>5
  <2> QED BY <2>3, <2>4, <2>5, <2>6, <2>7 DEF PhaseInv
<1>17. ASSUME NEW r \in Roles, NEW status \in {"ok", "fail"}, ExitSilently(r, status)
      PROVE  PhaseInv'
  <2>1. PhaseTyped /\ Ordered /\ Once /\ Heard
    BY DEF PhaseInv
  <2>2. /\ bash[r] = "works" /\ BashIs(r, status)
        /\ UNCHANGED <<conf, role, verdict, result, exitcode, daemon, request, pipe, lock,
                       answer, client, said, sub, kills>>
    BY <1>1, <1>17, <2>1, BashBecomes DEF ExitSilently, emergeVars, fifoVars, PhaseTyped, Asked,
       Facts
  <2>3. PhaseTyped'
    <3>1. /\ {stopped', cancelled', logging', timer', hangup'} \subseteq BOOLEAN
          /\ writers' \subseteq Clients /\ term' \in [Roles -> BOOLEAN]
      BY <1>17, <2>1 DEF ExitSilently, PhaseTyped, emergeVars, fifoVars, bashVars
    <3>2. pipe' \in Seq(Letters)
      BY <2>1, <2>2, Held DEF PhaseTyped
    <3>3. /\ request' \in {<< >>} \cup {<<m>> : m \in Letters}
          /\ answer' \in {<< >>} \cup {<<m>> : m \in Letters}
          /\ request' # << >> <=> daemon' \in {"reopen", "answer"}
      BY <2>1, <2>2, Held DEF PhaseTyped
    <3>4. /\ conf' \in Settings /\ role' \in Roles \cup {"starting", "over"}
          /\ verdict' \in Codes /\ result' \in Codes /\ exitcode' \in {"none", "succeed", "fail"}
          /\ daemon' \in {"closed", "poll", "reopen", "answer", "locking"}
          /\ lock' \in Clients \cup {"none"} /\ kills' \in {0, 1}
      BY <2>1, <2>2, Held DEF PhaseTyped, Codes, Later, Gone, Clients, Letters, Asked, Roles
    <3>5. /\ client' \in [Clients -> Clienthood]
          /\ bash' \in [Roles -> {"absent", "works", "waits", "ends", "ok", "fail"}]
          /\ said' \in [Roles -> {"none", "succeed", "fail"}] /\ sub' \in Subshell
      BY <2>1, <2>2 DEF PhaseTyped, BashIs
    <3> QED BY <3>1, <3>2, <3>3, <3>4, <3>5 DEF PhaseTyped
  <2>4. Ordered'
    BY <2>1, <2>2, <2>3 DEF PhaseTyped, Ordered, Later, Gone, BashIs, Idle, Roles, Clients,
       Talking
  <2>5. Once'
    BY <1>1, <2>1, <2>2, Held DEF Facts, PhaseTyped, Ordered, Once, Heading, ToSend, Says, Clients
  <2>6. Heard'
    BY <1>1, <2>1, <2>2, <2>3, <2>5, Held
       DEF Facts, PhaseTyped, Ordered, Later, Once, Heard, WholePhase, Heading, ToSend, Says,
       Roles, Clients, Gone
  <2>7. ASSUME kills' = 0 PROVE OneLetter' /\ Foreground' /\ Deaths' /\ OwnAnswer'
    <3>1. kills = 0 /\ OneLetter /\ Foreground /\ Deaths /\ OwnAnswer
      BY <2>2, <2>7 DEF PhaseInv
    <3>2. OneLetter'
      BY <1>1, <2>1, <2>2, <3>1, Held DEF Facts, PhaseTyped, OneLetter, Foreground, Under,
         Talking, Letters, Idle
    <3>3. Foreground'
      BY <1>1, <2>1, <2>2, <3>1 DEF Facts, PhaseTyped, Ordered, Later, Idle, Roles, Foreground,
         Gone, BashIs, Talking, Clients
    <3>4. Deaths'
      BY <1>1, <2>1, <2>2, <3>1, Held DEF Facts, PhaseTyped, Ordered, Later, Once, Heading, Says,
         ToSend, OneLetter, Under, Foreground, Deaths, Announced, BashIs, Talking, Clients,
         Roles, Gone, Letters
    <3>5. OwnAnswer'
      BY <1>1, <2>1, <2>2, <2>7, <3>1, Held DEF Facts, PhaseTyped, OwnAnswer, OneLetter, Under
    <3> QED BY <3>2, <3>3, <3>4, <3>5
  <2> QED BY <2>3, <2>4, <2>5, <2>6, <2>7 DEF PhaseInv
<1>18. ASSUME NEW r \in Roles, ClientBack(r)
      PROVE  PhaseInv'
  <2>1. PhaseTyped /\ Ordered /\ Once /\ Heard
    BY DEF PhaseInv
  <2>2. /\ ~Talking(r)
        /\ \/ bash[r] = "waits" /\ BashIs(r, "works")
           \/ bash[r] = "ends" /\ (BashIs(r, "fail") \/ BashIs(r, "ok"))
        /\ UNCHANGED <<conf, role, verdict, result, exitcode, daemon, request, pipe, lock,
                       answer, client, said, sub, kills>>
    BY <1>1, <1>18, <2>1, BashBecomes DEF ClientBack, emergeVars, fifoVars, PhaseTyped, Asked,
       Facts
  <2>3. PhaseTyped'
    <3>1. /\ {stopped', cancelled', logging', timer', hangup'} \subseteq BOOLEAN
          /\ writers' \subseteq Clients /\ term' \in [Roles -> BOOLEAN]
      BY <1>18, <2>1 DEF ClientBack, PhaseTyped, emergeVars, fifoVars, bashVars
    <3>2. pipe' \in Seq(Letters)
      BY <2>1, <2>2, Held DEF PhaseTyped
    <3>3. /\ request' \in {<< >>} \cup {<<m>> : m \in Letters}
          /\ answer' \in {<< >>} \cup {<<m>> : m \in Letters}
          /\ request' # << >> <=> daemon' \in {"reopen", "answer"}
      BY <2>1, <2>2, Held DEF PhaseTyped
    <3>4. /\ conf' \in Settings /\ role' \in Roles \cup {"starting", "over"}
          /\ verdict' \in Codes /\ result' \in Codes /\ exitcode' \in {"none", "succeed", "fail"}
          /\ daemon' \in {"closed", "poll", "reopen", "answer", "locking"}
          /\ lock' \in Clients \cup {"none"} /\ kills' \in {0, 1}
      BY <2>1, <2>2, Held DEF PhaseTyped, Codes, Later, Gone, Clients, Letters, Asked, Roles
    <3>5. /\ client' \in [Clients -> Clienthood]
          /\ bash' \in [Roles -> {"absent", "works", "waits", "ends", "ok", "fail"}]
          /\ said' \in [Roles -> {"none", "succeed", "fail"}] /\ sub' \in Subshell
      BY <2>1, <2>2 DEF PhaseTyped, BashIs
    <3> QED BY <3>1, <3>2, <3>3, <3>4, <3>5 DEF PhaseTyped
  <2>4. Ordered'
    BY <2>1, <2>2, <2>3 DEF PhaseTyped, Ordered, Later, Gone, BashIs, Idle, Roles, Clients,
       Talking
  <2>5. Once'
    BY <1>1, <2>1, <2>2, Held DEF Facts, PhaseTyped, Ordered, Once, Heading, ToSend, Says, Clients
  <2>6. Heard'
    BY <1>1, <2>1, <2>2, <2>3, <2>5, Held
       DEF Facts, PhaseTyped, Ordered, Later, Once, Heard, WholePhase, Heading, ToSend, Says,
       Roles, Clients, Gone
  <2>7. ASSUME kills' = 0 PROVE OneLetter' /\ Foreground' /\ Deaths' /\ OwnAnswer'
    <3>1. kills = 0 /\ OneLetter /\ Foreground /\ Deaths /\ OwnAnswer
      BY <2>2, <2>7 DEF PhaseInv
    <3>2. OneLetter'
      BY <1>1, <2>1, <2>2, <3>1, Held DEF Facts, PhaseTyped, OneLetter, Foreground, Under,
         Talking, Letters, Idle
    <3>3. Foreground'
      BY <1>1, <2>1, <2>2, <3>1 DEF Facts, PhaseTyped, Ordered, Later, Idle, Roles, Foreground,
         Gone, BashIs, Talking, Clients
    <3>4. Deaths'
      BY <1>1, <2>1, <2>2, <3>1, Held DEF Facts, PhaseTyped, Ordered, Later, Once, Heading, Says,
         ToSend, OneLetter, Under, Foreground, Deaths, Announced, BashIs, Talking, Clients,
         Roles, Gone, Letters
    <3>5. OwnAnswer'
      BY <1>1, <2>1, <2>2, <2>7, <3>1, Held DEF Facts, PhaseTyped, OwnAnswer, OneLetter, Under
    <3> QED BY <3>2, <3>3, <3>4, <3>5
  <2> QED BY <2>3, <2>4, <2>5, <2>6, <2>7 DEF PhaseInv
<1>19. ASSUME NEW r \in Roles, KillBash(r)
      PROVE  PhaseInv'
  <2>1. PhaseTyped /\ Ordered /\ Once /\ Heard
    BY DEF PhaseInv
  <2>2. /\ kills' = 1 /\ BashIs(r, "fail") /\ ~Gone(r)
        /\ UNCHANGED <<conf, role, verdict, result, exitcode, daemon, request, pipe, lock,
                       answer, client, said, sub>>
    BY <1>1, <1>19, <2>1, BashBecomes DEF KillBash, emergeVars, fifoVars, PhaseTyped, Asked, Facts
  <2>3. PhaseTyped'
    <3>1. /\ {stopped', cancelled', logging', timer', hangup'} \subseteq BOOLEAN
          /\ writers' \subseteq Clients /\ term' \in [Roles -> BOOLEAN]
      BY <1>19, <2>1 DEF KillBash, PhaseTyped, emergeVars, fifoVars, bashVars
    <3>2. pipe' \in Seq(Letters)
      BY <2>1, <2>2, Held DEF PhaseTyped
    <3>3. /\ request' \in {<< >>} \cup {<<m>> : m \in Letters}
          /\ answer' \in {<< >>} \cup {<<m>> : m \in Letters}
          /\ request' # << >> <=> daemon' \in {"reopen", "answer"}
      BY <2>1, <2>2, Held DEF PhaseTyped
    <3>4. /\ conf' \in Settings /\ role' \in Roles \cup {"starting", "over"}
          /\ verdict' \in Codes /\ result' \in Codes /\ exitcode' \in {"none", "succeed", "fail"}
          /\ daemon' \in {"closed", "poll", "reopen", "answer", "locking"}
          /\ lock' \in Clients \cup {"none"} /\ kills' \in {0, 1}
      BY <2>1, <2>2, Held DEF PhaseTyped, Codes, Later, Gone, Clients, Letters, Asked, Roles
    <3>5. /\ client' \in [Clients -> Clienthood]
          /\ bash' \in [Roles -> {"absent", "works", "waits", "ends", "ok", "fail"}]
          /\ said' \in [Roles -> {"none", "succeed", "fail"}] /\ sub' \in Subshell
      BY <2>1, <2>2 DEF PhaseTyped, BashIs
    <3> QED BY <3>1, <3>2, <3>3, <3>4, <3>5 DEF PhaseTyped
  <2>4. Ordered'
    BY <2>1, <2>2, <2>3 DEF PhaseTyped, Ordered, Later, Gone, BashIs, Idle, Roles, Clients,
       Talking
  <2>5. Once'
    BY <1>1, <2>1, <2>2, Held DEF Facts, PhaseTyped, Ordered, Once, Heading, ToSend, Says, Clients
  <2>6. Heard'
    BY <1>1, <2>1, <2>2, <2>3, <2>5, Held
       DEF Facts, PhaseTyped, Ordered, Later, Once, Heard, WholePhase, Heading, ToSend, Says,
       Roles, Clients, Gone
  <2> QED BY <2>2, <2>3, <2>4, <2>5, <2>6 DEF PhaseInv
<1>20. ASSUME NEW r \in Roles, NEW holds \in BOOLEAN, Fork(r, holds)
      PROVE  PhaseInv'
  <2>1. PhaseTyped /\ Ordered /\ Once /\ Heard
    BY DEF PhaseInv
  <2>2. /\ bash[r] = "works" /\ r # "clean" /\ sub.at = "absent" /\ SubIs(r, "lives", sub.early)
        /\ UNCHANGED <<conf, role, verdict, result, exitcode, daemon, request, pipe, lock,
                       answer, client, bash, said, kills>>
    BY <1>1, <1>20, <2>1 DEF Fork, emergeVars, fifoVars, HasIpc, SubIs, Subshell, PhaseTyped,
       Asked, Facts
  <2>3. PhaseTyped'
    <3>1. /\ {stopped', cancelled', logging', timer', hangup'} \subseteq BOOLEAN
          /\ writers' \subseteq Clients /\ term' \in [Roles -> BOOLEAN]
      BY <1>20, <2>1 DEF Fork, PhaseTyped, emergeVars, fifoVars, bashVars
    <3>2. pipe' \in Seq(Letters)
      BY <2>1, <2>2, Held DEF PhaseTyped
    <3>3. /\ request' \in {<< >>} \cup {<<m>> : m \in Letters}
          /\ answer' \in {<< >>} \cup {<<m>> : m \in Letters}
          /\ request' # << >> <=> daemon' \in {"reopen", "answer"}
      BY <2>1, <2>2, Held DEF PhaseTyped
    <3>4. /\ conf' \in Settings /\ role' \in Roles \cup {"starting", "over"}
          /\ verdict' \in Codes /\ result' \in Codes /\ exitcode' \in {"none", "succeed", "fail"}
          /\ daemon' \in {"closed", "poll", "reopen", "answer", "locking"}
          /\ lock' \in Clients \cup {"none"} /\ kills' \in {0, 1}
      BY <2>1, <2>2, Held DEF PhaseTyped, Codes, Later, Gone, Clients, Letters, Asked, Roles
    <3>5. /\ client' \in [Clients -> Clienthood]
          /\ bash' \in [Roles -> {"absent", "works", "waits", "ends", "ok", "fail"}]
          /\ said' \in [Roles -> {"none", "succeed", "fail"}] /\ sub' \in Subshell
      BY <2>1, <2>2 DEF PhaseTyped, SubIs
    <3> QED BY <3>1, <3>2, <3>3, <3>4, <3>5 DEF PhaseTyped
  <2>4. Ordered'
    BY <2>1, <2>2, <2>3 DEF PhaseTyped, Ordered, Later, Gone, SubIs, Idle, Roles, Clients, Talking
  <2>5. Once'
    BY <1>1, <2>1, <2>2, Held DEF Facts, PhaseTyped, Ordered, Once, Heading, ToSend, Says, Clients
  <2>6. Heard'
    BY <1>1, <2>1, <2>2, <2>3, <2>5, Held
       DEF Facts, PhaseTyped, Ordered, Later, Once, Heard, WholePhase, Heading, ToSend, Says,
       Roles, Clients, Gone
  <2>7. ASSUME kills' = 0 PROVE OneLetter' /\ Foreground' /\ Deaths' /\ OwnAnswer'
    <3>1. kills = 0 /\ OneLetter /\ Foreground /\ Deaths /\ OwnAnswer
      BY <2>2, <2>7 DEF PhaseInv
    <3>2. OneLetter'
      BY <1>1, <2>1, <2>2, <3>1, Held DEF Facts, PhaseTyped, OneLetter, Foreground, Under,
         Talking, Letters, Idle
    <3>3. Foreground'
      BY <1>1, <2>1, <2>2, <3>1 DEF Facts, PhaseTyped, Ordered, Later, Idle, Roles, Foreground,
         Gone, SubIs, Talking, Clients
    <3>4. Deaths'
      BY <1>1, <2>1, <2>2, <3>1, Held DEF Facts, PhaseTyped, Ordered, Later, Once, Heading, Says,
         ToSend, OneLetter, Under, Foreground, Deaths, Announced, SubIs, Talking, Clients, Roles,
         Gone, Letters
    <3>5. OwnAnswer'
      BY <1>1, <2>1, <2>2, <2>7, <3>1, Held DEF Facts, PhaseTyped, OwnAnswer, OneLetter, Under
    <3> QED BY <3>2, <3>3, <3>4, <3>5
  <2> QED BY <2>3, <2>4, <2>5, <2>6, <2>7 DEF PhaseInv
<1>21. ASSUME NEW what \in {"query", "fail"}, NEW place \in {"asks", "dies"}, what = "query" <=> place = "asks",
             SubAsks(what, place)
      PROVE  PhaseInv'
  <2>1. PhaseTyped /\ Ordered /\ Once /\ Heard
    BY DEF PhaseInv
  <2>2. /\ sub.at = "lives" /\ SubIs(sub.of, place, sub.early) /\ ClientIs("sub", "lock", what, "none")
        /\ UNCHANGED <<conf, role, verdict, result, exitcode, daemon, request, pipe, lock,
                       answer, bash, said, kills>>
    BY <1>1, <1>21, <2>1, ClientAsks, SMTT(40) DEF SubAsks, emergeVars, SubIs, Subshell, PhaseTyped, Asked,
       Facts
  <2>3. PhaseTyped'
    <3>1. /\ {stopped', cancelled', logging', timer', hangup'} \subseteq BOOLEAN
          /\ writers' \subseteq Clients /\ term' \in [Roles -> BOOLEAN]
      BY <1>21, <2>1 DEF SubAsks, PhaseTyped, emergeVars, fifoVars, bashVars
    <3>2. pipe' \in Seq(Letters)
      BY <2>1, <2>2, Held DEF PhaseTyped
    <3>3. /\ request' \in {<< >>} \cup {<<m>> : m \in Letters}
          /\ answer' \in {<< >>} \cup {<<m>> : m \in Letters}
          /\ request' # << >> <=> daemon' \in {"reopen", "answer"}
      BY <2>1, <2>2, Held DEF PhaseTyped
    <3>4. /\ conf' \in Settings /\ role' \in Roles \cup {"starting", "over"}
          /\ verdict' \in Codes /\ result' \in Codes /\ exitcode' \in {"none", "succeed", "fail"}
          /\ daemon' \in {"closed", "poll", "reopen", "answer", "locking"}
          /\ lock' \in Clients \cup {"none"} /\ kills' \in {0, 1}
      BY <2>1, <2>2, Held DEF PhaseTyped, Codes, Later, Gone, Clients, Letters, Asked, Roles
    <3>5. /\ client' \in [Clients -> Clienthood]
          /\ bash' \in [Roles -> {"absent", "works", "waits", "ends", "ok", "fail"}]
          /\ said' \in [Roles -> {"none", "succeed", "fail"}] /\ sub' \in Subshell
      BY <2>1, <2>2 DEF PhaseTyped, ClientIs, SubIs
    <3> QED BY <3>1, <3>2, <3>3, <3>4, <3>5 DEF PhaseTyped
  <2>4. Ordered'
    BY <2>1, <2>2, <2>3 DEF PhaseTyped, Ordered, Later, Gone, ClientIs, SubIs, Idle, Roles,
       Clients, Talking
  <2>5. Once'
    BY <1>1, <2>1, <2>2, Held DEF Facts, PhaseTyped, Ordered, Once, Heading, ToSend, Says,
       ClientIs, Clients
  <2>6. Heard'
    BY <1>1, <2>1, <2>2, <2>3, <2>5, Held
       DEF Facts, PhaseTyped, Ordered, Later, Once, Heard, WholePhase, Heading, ToSend, Says,
       ClientIs, Roles, Clients, Gone
  <2>7. ASSUME kills' = 0 PROVE OneLetter' /\ Foreground' /\ Deaths' /\ OwnAnswer'
    <3>1. kills = 0 /\ OneLetter /\ Foreground /\ Deaths /\ OwnAnswer
      BY <2>2, <2>7 DEF PhaseInv
    <3>2. OneLetter'
      BY <1>1, <2>1, <2>2, <3>1, Held DEF Facts, PhaseTyped, OneLetter, Foreground, Under,
         ClientIs, Talking, Letters, Idle, Clients, Roles
    <3>3. Foreground'
      BY <1>1, <2>1, <2>2, <3>1 DEF Facts, PhaseTyped, Ordered, Later, Idle, Roles, Foreground,
         Gone, ClientIs, SubIs, Talking, Clients
    <3>4. Deaths'
      <4>1. /\ sub'.of = sub.of /\ sub'.early = sub.early /\ sub.at = "lives"
            /\ sub'.at # "absent" /\ (sub'.at = "dies" => client'["sub"].what = "fail")
        BY <1>21, <2>2 DEF SubIs, ClientIs
      <4>2. UNCHANGED <<role, verdict, exitcode, answer,
                        said>> /\ \A r \in Roles : client'[r] = client[r]
        BY <1>1, <2>2 DEF Facts, ClientIs
      <4>3. \A r \in Roles : Announced(r) => Announced(r)'
        BY <4>2 DEF Announced
      <4>4. role \in {"ebuild", "post", "hooks"} => role \in Roles
        BY DEF Roles
      <4> QED BY <3>1, <4>1, <4>2, <4>3, <4>4 DEF Deaths
    <3>5. OwnAnswer'
      BY <1>1, <2>1, <2>2, <2>7, <3>1, Held
         DEF Facts, PhaseTyped, OwnAnswer, OneLetter, Under, ClientIs
    <3> QED BY <3>2, <3>3, <3>4, <3>5
  <2> QED BY <2>3, <2>4, <2>5, <2>6, <2>7 DEF PhaseInv
<1>22. ASSUME SubBack
      PROVE  PhaseInv'
  <2>1. PhaseTyped /\ Ordered /\ Once /\ Heard
    BY DEF PhaseInv
  <2>2. /\ ~Talking("sub") /\ sub.at \in {"asks", "dies"} /\ \E place \in {"lives", "gone"} : SubIs(sub.of, place, sub.early)
        /\ UNCHANGED <<conf, role, verdict, result, exitcode, daemon, request, pipe, lock,
                       answer, client, bash, said, kills>>
    BY <1>1, <1>22, <2>1 DEF SubBack, emergeVars, fifoVars, SubIs, Subshell, PhaseTyped, Asked,
       Facts
  <2>3. PhaseTyped'
    <3>1. /\ {stopped', cancelled', logging', timer', hangup'} \subseteq BOOLEAN
          /\ writers' \subseteq Clients /\ term' \in [Roles -> BOOLEAN]
      BY <1>22, <2>1 DEF SubBack, PhaseTyped, emergeVars, fifoVars, bashVars
    <3>2. pipe' \in Seq(Letters)
      BY <2>1, <2>2, Held DEF PhaseTyped
    <3>3. /\ request' \in {<< >>} \cup {<<m>> : m \in Letters}
          /\ answer' \in {<< >>} \cup {<<m>> : m \in Letters}
          /\ request' # << >> <=> daemon' \in {"reopen", "answer"}
      BY <2>1, <2>2, Held DEF PhaseTyped
    <3>4. /\ conf' \in Settings /\ role' \in Roles \cup {"starting", "over"}
          /\ verdict' \in Codes /\ result' \in Codes /\ exitcode' \in {"none", "succeed", "fail"}
          /\ daemon' \in {"closed", "poll", "reopen", "answer", "locking"}
          /\ lock' \in Clients \cup {"none"} /\ kills' \in {0, 1}
      BY <2>1, <2>2, Held DEF PhaseTyped, Codes, Later, Gone, Clients, Letters, Asked, Roles
    <3>5. /\ client' \in [Clients -> Clienthood]
          /\ bash' \in [Roles -> {"absent", "works", "waits", "ends", "ok", "fail"}]
          /\ said' \in [Roles -> {"none", "succeed", "fail"}] /\ sub' \in Subshell
      BY <2>1, <2>2 DEF PhaseTyped, SubIs
    <3> QED BY <3>1, <3>2, <3>3, <3>4, <3>5 DEF PhaseTyped
  <2>4. Ordered'
    BY <2>1, <2>2, <2>3 DEF PhaseTyped, Ordered, Later, Gone, SubIs, Idle, Roles, Clients, Talking
  <2>5. Once'
    BY <1>1, <2>1, <2>2, Held DEF Facts, PhaseTyped, Ordered, Once, Heading, ToSend, Says, Clients
  <2>6. Heard'
    BY <1>1, <2>1, <2>2, <2>3, <2>5, Held
       DEF Facts, PhaseTyped, Ordered, Later, Once, Heard, WholePhase, Heading, ToSend, Says,
       Roles, Clients, Gone
  <2>7. ASSUME kills' = 0 PROVE OneLetter' /\ Foreground' /\ Deaths' /\ OwnAnswer'
    <3>1. kills = 0 /\ OneLetter /\ Foreground /\ Deaths /\ OwnAnswer
      BY <2>2, <2>7 DEF PhaseInv
    <3>2. OneLetter'
      BY <1>1, <2>1, <2>2, <3>1, Held DEF Facts, PhaseTyped, OneLetter, Foreground, Under,
         Talking, Letters, Idle
    <3>3. Foreground'
      BY <1>1, <2>1, <2>2, <3>1 DEF Facts, PhaseTyped, Ordered, Later, Idle, Roles, Foreground,
         Gone, SubIs, Talking, Clients
    <3>4. Deaths'
      BY <1>1, <2>1, <2>2, <3>1, Held DEF Facts, PhaseTyped, Ordered, Later, Once, Heading, Says,
         ToSend, OneLetter, Under, Foreground, Deaths, Announced, SubIs, Talking, Clients, Roles,
         Gone, Letters
    <3>5. OwnAnswer'
      BY <1>1, <2>1, <2>2, <2>7, <3>1, Held DEF Facts, PhaseTyped, OwnAnswer, OneLetter, Under
    <3> QED BY <3>2, <3>3, <3>4, <3>5
  <2> QED BY <2>3, <2>4, <2>5, <2>6, <2>7 DEF PhaseInv
<1>23. ASSUME SubEnds
      PROVE  PhaseInv'
  <2>1. PhaseTyped /\ Ordered /\ Once /\ Heard
    BY DEF PhaseInv
  <2>2. /\ sub.at = "lives" /\ SubIs(sub.of, "gone", sub.early)
        /\ UNCHANGED <<conf, role, verdict, result, exitcode, daemon, request, pipe, lock,
                       answer, client, bash, said, kills>>
    BY <1>1, <1>23, <2>1 DEF SubEnds, emergeVars, fifoVars, SubIs, Subshell, PhaseTyped, Asked,
       Facts
  <2>3. PhaseTyped'
    <3>1. /\ {stopped', cancelled', logging', timer', hangup'} \subseteq BOOLEAN
          /\ writers' \subseteq Clients /\ term' \in [Roles -> BOOLEAN]
      BY <1>23, <2>1 DEF SubEnds, PhaseTyped, emergeVars, fifoVars, bashVars
    <3>2. pipe' \in Seq(Letters)
      BY <2>1, <2>2, Held DEF PhaseTyped
    <3>3. /\ request' \in {<< >>} \cup {<<m>> : m \in Letters}
          /\ answer' \in {<< >>} \cup {<<m>> : m \in Letters}
          /\ request' # << >> <=> daemon' \in {"reopen", "answer"}
      BY <2>1, <2>2, Held DEF PhaseTyped
    <3>4. /\ conf' \in Settings /\ role' \in Roles \cup {"starting", "over"}
          /\ verdict' \in Codes /\ result' \in Codes /\ exitcode' \in {"none", "succeed", "fail"}
          /\ daemon' \in {"closed", "poll", "reopen", "answer", "locking"}
          /\ lock' \in Clients \cup {"none"} /\ kills' \in {0, 1}
      BY <2>1, <2>2, Held DEF PhaseTyped, Codes, Later, Gone, Clients, Letters, Asked, Roles
    <3>5. /\ client' \in [Clients -> Clienthood]
          /\ bash' \in [Roles -> {"absent", "works", "waits", "ends", "ok", "fail"}]
          /\ said' \in [Roles -> {"none", "succeed", "fail"}] /\ sub' \in Subshell
      BY <2>1, <2>2 DEF PhaseTyped, SubIs
    <3> QED BY <3>1, <3>2, <3>3, <3>4, <3>5 DEF PhaseTyped
  <2>4. Ordered'
    BY <2>1, <2>2, <2>3 DEF PhaseTyped, Ordered, Later, Gone, SubIs, Idle, Roles, Clients, Talking
  <2>5. Once'
    BY <1>1, <2>1, <2>2, Held DEF Facts, PhaseTyped, Ordered, Once, Heading, ToSend, Says, Clients
  <2>6. Heard'
    BY <1>1, <2>1, <2>2, <2>3, <2>5, Held
       DEF Facts, PhaseTyped, Ordered, Later, Once, Heard, WholePhase, Heading, ToSend, Says,
       Roles, Clients, Gone
  <2>7. ASSUME kills' = 0 PROVE OneLetter' /\ Foreground' /\ Deaths' /\ OwnAnswer'
    <3>1. kills = 0 /\ OneLetter /\ Foreground /\ Deaths /\ OwnAnswer
      BY <2>2, <2>7 DEF PhaseInv
    <3>2. OneLetter'
      BY <1>1, <2>1, <2>2, <3>1, Held DEF Facts, PhaseTyped, OneLetter, Foreground, Under,
         Talking, Letters, Idle
    <3>3. Foreground'
      BY <1>1, <2>1, <2>2, <3>1 DEF Facts, PhaseTyped, Ordered, Later, Idle, Roles, Foreground,
         Gone, SubIs, Talking, Clients
    <3>4. Deaths'
      BY <1>1, <2>1, <2>2, <3>1, Held DEF Facts, PhaseTyped, Ordered, Later, Once, Heading, Says,
         ToSend, OneLetter, Under, Foreground, Deaths, Announced, SubIs, Talking, Clients, Roles,
         Gone, Letters
    <3>5. OwnAnswer'
      BY <1>1, <2>1, <2>2, <2>7, <3>1, Held DEF Facts, PhaseTyped, OwnAnswer, OneLetter, Under
    <3> QED BY <3>2, <3>3, <3>4, <3>5
  <2> QED BY <2>3, <2>4, <2>5, <2>6, <2>7 DEF PhaseInv
<1>24. CASE FirstProcess
  BY <1>2, <1>24 DEF FirstProcess, Later, Roles
<1>25. CASE ProcessExit
  <2>1. PhaseTyped
    BY DEF PhaseInv
  <2>2. conf.post => ~conf.failContinue
    BY <2>1, EbuildAssumption DEF PhaseTyped
  <2>3. role \in Roles /\ verdict # "none" /\ verdict \in Codes
    BY <2>1, <1>25 DEF ProcessExit, PhaseTyped
  <2>4. CASE role = "hooks"
    BY <1>2, <1>3, <1>25, <2>3, <2>4 DEF ProcessExit, Later, Roles
  <2>5. CASE role = "clean"
    BY <1>3, <1>25, <2>3, <2>5 DEF ProcessExit
  <2>6. CASE role \in {"ebuild", "post"}
    <3>1. CASE Failed
      <4>1. StartProcess("hooks") /\ "hooks" \in Later
        BY <1>25, <2>6, <3>1 DEF ProcessExit, Later
      <4> QED BY <1>2, <2>3, <4>1
    <3>2. CASE ~Failed /\ role = "ebuild" /\ conf.post
      <4>1. StartProcess("post") /\ "post" \in Later
        BY <1>25, <2>6, <3>2 DEF ProcessExit, Later
      <4>2. verdict = "ok"
        BY <2>2, <2>3, <3>2 DEF Failed, Codes
      <4> QED BY <1>2, <2>3, <3>2, <4>1, <4>2
    <3>3. CASE ~Failed /\ ~(role = "ebuild" /\ conf.post)
      <4>1. Over("ok")
        BY <1>25, <2>6, <3>3 DEF ProcessExit
      <4>2. \/ role = "ebuild" /\ ~conf.post /\ (verdict = "ok" \/ conf.failContinue)
            \/ role = "post" /\ verdict = "ok"
        BY <2>3, <2>6, <3>3 DEF Failed, Codes
      <4> QED BY <1>3, <2>3, <4>1, <4>2
    <3> QED BY <3>1, <3>2, <3>3
  <2> QED BY <2>3, <2>4, <2>5, <2>6 DEF Roles
<1> QED BY <1>0, <1>4, <1>5, <1>6, <1>7, <1>8, <1>9, <1>10, <1>11, <1>12, <1>13, <1>14, <1>15,
   <1>16, <1>17, <1>18, <1>19, <1>20, <1>21, <1>22, <1>23, <1>24, <1>25
   DEF EbuildNext, EmergeStep, DaemonStep, ClientStep, BashStep, SubStep

\* A phase begins without a process, a daemon or a letter.
LEMMA PhaseInit == EbuildInit => PhaseInv
<1> SUFFICES ASSUME EbuildInit PROVE PhaseInv
  OBVIOUS
<1> USE DEF EbuildInit
<1>1. \A c \in Clients : client[c] = Idle
  OBVIOUS
<1>2. Idle \in Clienthood /\ Idle.at = "none" /\ Idle.what = "query" /\ Idle.got = "none"
  BY DEF Idle, Clienthood, Asked
<1>3. sub \in Subshell /\ sub.of = "none" /\ sub.at = "absent" /\ ~sub.early
  BY DEF Subshell
<1>4. Roles \subseteq Clients /\ "sub" \in Clients
  BY DEF Clients, Roles
<1>5. PhaseTyped
  BY <1>1, <1>2, <1>3, Held DEF PhaseTyped, Codes
<1>6. Ordered
  BY <1>1, <1>2, <1>3, <1>4 DEF Ordered, Gone, Later, Roles
<1>7. Once /\ Heard
  BY <1>1, <1>2, <1>4, Held DEF Once, Heading, ToSend, Says, Heard, WholePhase
<1>8. OneLetter /\ Foreground /\ OwnAnswer
  BY <1>1, <1>2, <1>4, Held DEF OneLetter, Foreground, Talking, OwnAnswer
<1>9. Deaths
  BY <1>2, <1>3, Held DEF Deaths, Roles
<1> QED BY <1>5, <1>6, <1>7, <1>8, <1>9 DEF PhaseInv

\* What the invariant says of the verdicts.
LEMMA PhaseIsJudged == PhaseInv => EbuildVerdict
<1> SUFFICES ASSUME PhaseInv PROVE EbuildVerdict
  OBVIOUS
<1>1. WholePhase
  BY DEF PhaseInv, Heard
<1>2. OwnAnswer
  BY DEF PhaseInv, OwnAnswer
<1>3. ASSUME kills = 0, sub.early, role = sub.of PROVE verdict # "ok"
  <2>1. Deaths /\ PhaseTyped /\ Ordered
    BY <1>3 DEF PhaseInv
  <2>2. exitcode = "fail" /\ sub.of \in Roles \cup {"none"}
    BY <1>3, <2>1 DEF Deaths, PhaseTyped, Subshell
  <2> QED BY <1>3, <2>1, <2>2 DEF Deaths, PhaseTyped, Roles
<1>4. DieHonoured
  BY <1>3 DEF DieHonoured
<1> QED BY <1>1, <1>2, <1>4 DEF EbuildVerdict

\* In any interleaving of emerge, the daemon, the bash processes and their clients: unless
\* somebody is killed, a client gets the answer to its own question, and a process whose
\* subshell died before it announced anything is not taken for a success; and a phase
\* never succeeds unless the ebuild announced that it did, and what follows it
\* (AbstractEbuildProcess.py:302, EbuildPhase.py:378).
THEOREM PhaseVerdict == EbuildSpec => []EbuildVerdict
<1>1. PhaseInv /\ [EbuildNext]_ebuildVars => PhaseInv'
  BY PhaseNextKeeps
<1> QED BY PhaseInit, <1>1, PhaseIsJudged, PTL DEF EbuildSpec
=============================================================================
