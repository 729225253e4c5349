------------------------------- MODULE MC_Disk -------------------------------
(* The parts whose properties are safety properties: the task queue, merges   *)
(* into the live file system, repository snapshots, binary packages, the       *)
(* packages of a calculation, their choice and the order of the merge list,   *)
(* each with an instance of its own: part says which of them moves.           *)
EXTENDS TaskQueue, MC_Dblink, HardlinkRCU, BinTree, PackageTracker, MC_Resolver, MC_Order

DbFeatures == {Serial, Parallel}
PkgdirSetting(m, t, s) == [multi |-> m, trusted |-> t, signed |-> s]
PkgdirSettings == {PkgdirSetting(TRUE, FALSE, FALSE), PkgdirSetting(TRUE, TRUE, TRUE),
                   PkgdirSetting(FALSE, FALSE, FALSE)}

\* Three packages of one name, of which one has a slot of its own and the cpv of
\* another (it is of another repository), and one of a second name.
TrackPkgs   == {"a1", "a2", "a3", "b1"}
TrackKey    == [p \in TrackPkgs |-> IF p = "b1" THEN "b" ELSE "a"]
TrackSlot   == [p \in TrackPkgs |-> IF p = "a3" THEN "1" ELSE "0"]
TrackCpv    == [p \in TrackPkgs |-> IF p = "a3" THEN "a2" ELSE p]
TrackAtoms  == [a |-> {"a1", "a2", "a3"}, a2 |-> {"a2", "a3"}, b |-> {"b1"}]
TrackAsked  == DOMAIN TrackAtoms
TrackName   == [q \in TrackAsked |-> IF q = "b" THEN "b" ELSE "a"]
TrackSoname == [p \in TrackPkgs |-> IF p = "a1" THEN {} ELSE {"so"}]

VARIABLE part

\* Bound: a snapshot grows too old just before garbage_collection asks for its age.
AgeWhenLooked == expired' \subseteq expired \/ syncPc = "collect"

PartsInit ==
  /\ part \in {"queue", "merge", "sync", "binpkgs", "track", "resolve", "order"}
  /\ part # "merge" => feats = Serial
  /\ Init /\ DblinkInit /\ RcuInit /\ BinTreeInit /\ PackageTrackerInit
  /\ part # "sync" => ~ verify
  /\ part # "binpkgs" => setting = PkgdirSetting(TRUE, FALSE, FALSE) /\ stray = {} /\ added = {} /\ file[1] = Missing
  /\ Asked(IF part = "resolve" THEN Requests ELSE {NoRequest})
  /\ Given(IF part = "order" THEN Problems ELSE {NoProblem})
PartsNext ==
  /\ \/ part = "queue" /\ Next /\ UNCHANGED <<dblinkVars, rcuVars, binVars, trackerVars, resolverVars, orderVars>>
     \/ part = "merge" /\ DblinkNext /\ UNCHANGED <<vars, rcuVars, binVars, trackerVars, resolverVars, orderVars>>
     \/ part = "sync" /\ RcuNext /\ AgeWhenLooked /\ UNCHANGED <<vars, dblinkVars, binVars, trackerVars, resolverVars, orderVars>>
     \/ part = "binpkgs" /\ BinTreeNext /\ UNCHANGED <<vars, dblinkVars, rcuVars, trackerVars, resolverVars, orderVars>>
     \/ part = "track" /\ PackageTrackerNext /\ UNCHANGED <<vars, dblinkVars, rcuVars, binVars, resolverVars, orderVars>>
     \/ part = "resolve" /\ ResolverNext /\ UNCHANGED <<vars, dblinkVars, rcuVars, binVars, trackerVars, orderVars>>
     \/ part = "order" /\ OrderNext /\ UNCHANGED <<vars, dblinkVars, rcuVars, binVars, trackerVars, resolverVars>>
  /\ UNCHANGED part
PartsSpec ==
  PartsInit /\ [][PartsNext]_<<part, vars, dblinkVars, rcuVars, binVars, trackerVars, resolverVars, orderVars>>
=============================================================================
