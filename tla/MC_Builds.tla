------------------------------ MODULE MC_Builds ------------------------------
(* The fcntl locks, and the build directories that emerge protects with them, *)
(* each with an instance of its own: part says which of the two moves.        *)
EXTENDS FcntlLock, PackageBuild, EbuildProcess, TLC

CONSTANTS a, b, c

\* Two packages of one emerge, one of another, in one category and two directories:
\* those of one emerge in one directory after the other, or in two at once.
EmergeOfJob == a :> "e1" @@ b :> "e1" @@ c :> "e2"
CatOfDir    == "x" :> "cat" @@ "y" :> "cat"
RankOfJob   == a :> 1 @@ b :> 2 @@ c :> 1
List(m, n, o, d, e) == [mode |-> a :> m @@ b :> n @@ c :> o, dir |-> a :> "x" @@ b :> d @@ c :> e]
Lists == {List("ebuild", "binary", "merged", "x", "x"), List("ebuild", "binary", "merged", "y", "x"),
          List("ebuild", "merged", "uninstall", "x", "y"), List("buildpkgonly", "merged", "binary", "x", "x"),
          List("fetchonly", "merged", "pretend", "x", "x"), List("pretend", "ebuild", "merged", "x", "x"),
          List("uninstall", "uninstall", "uninstall", "y", "x")}

\* Phases with and without post-phase commands, fail-clean and test-fail-continue.
Phase(commands, events) == [post |-> commands, failClean |-> FALSE, failContinue |-> FALSE, events |-> events]
Phases == {Phase(TRUE, {"fork"}), Phase(TRUE, {"query", "cancel", "kill"}),
           Phase(FALSE, {"query", "fork"}), Phase(FALSE, {"fork", "cancel"}),
           [Phase(FALSE, {"fork", "subquery"}) EXCEPT !.failClean = TRUE],
           [Phase(FALSE, {"query", "cancel", "kill"}) EXCEPT !.failContinue = TRUE]}

VARIABLE part

\* Nothing tells one free inode number from another, so a new file gets a fixed one.
AnyFree == path' \notin {path, NoInode} => path' = CHOOSE i \in FreeInodes : TRUE

\* Where two packages of one emerge lock at once, nobody terminates an emerge, and the
\* other emerge has begun by then.
LockAtOnce ==
  dirOf[a] # dirOf[b] =>
    /\ \A e \in Emerges : emerge'[e] # "terminated"
    /\ at'[c] \in {"none", "locking"} => at'[a] = "none" /\ at'[b] = "none"

PartsInit ==
  /\ part \in {"lock", "build", "phase"}
  /\ Init /\ BuildInit /\ EbuildInit
  /\ part # "build" => mode[a] = "fetchonly"
  /\ part # "phase" => conf = CHOOSE p \in Settings : TRUE
PartsNext ==
  /\ \/ part = "lock" /\ Next /\ AnyFree /\ UNCHANGED <<buildVars, ebuildVars>>
     \/ part = "build" /\ BuildNext /\ LockAtOnce /\ UNCHANGED <<vars, ebuildVars>>
     \/ part = "phase" /\ EbuildNext /\ UNCHANGED <<vars, buildVars>>
  /\ UNCHANGED part
PartsSpec ==
  /\ PartsInit /\ [][PartsNext]_<<part, vars, buildVars, ebuildVars>>
  /\ \A p \in Procs : WF_vars(part = "lock" /\ Step(p)) /\ SF_vars(part = "lock" /\ Lock(p))
  /\ \A j \in Jobs : WF_buildVars(part = "build" /\ JobStep(j) /\ UNCHANGED jobs)
  /\ \A e \in Emerges : WF_buildVars(part = "build" /\ EmergeExits(e) /\ UNCHANGED jobs)
  /\ WF_ebuildVars(part = "phase" /\ EmergeStep) /\ WF_ebuildVars(part = "phase" /\ DaemonStep)
  /\ WF_ebuildVars(part = "phase" /\ \E k \in Clients : ClientStep(k))
  /\ WF_ebuildVars(part = "phase" /\ (SubBack \/ \E r \in Roles : BashStep(r)))

\* PhaseEnds of EbuildProcess, which concerns the part that runs a phase.
EveryPhaseEnds == part = "phase" => PhaseEnds
===============================================================================
