----------------------------- MODULE MC_Fetches -----------------------------
(* The hard link locks, the fetching of distfiles and the bounded scheduling   *)
(* of futures, each with an instance of its own: part says which of them moves. *)
EXTENDS HardlinkLock, Fetch, IterGather, TLC

\* emerge and its background fetcher want one distfile, which has a URI and a
\* location on third-party mirrors, and may be on a public mirror.
KindOf == "emerge" :> "normal" @@ "ahead" :> "prefetch"
Uri(l, k) == [loc |-> l, kind |-> k, over |-> ""]
Uris == "f" :> <<Uri("u", "plain"), Uri("t", "mirror")>>
NoMirrors == << >>
OneMirror == <<"pub">>

VARIABLE part

PartsInit ==
  /\ part \in {"lock", "fetch", "gather"}
  /\ Init /\ FetchInit /\ GatherInit
  /\ part # "gather" => total = 0
  /\ part # "fetch" =>
       /\ final["f"] = "none" /\ down["f"] = "none" /\ ro["f"] = "none"
       /\ fsm["f"] = "none" /\ restrict = {}
PartsNext ==
  /\ \/ part = "lock" /\ Next /\ UNCHANGED <<fetchVars, gatherVars>>
     \/ part = "fetch" /\ FetchNext /\ UNCHANGED <<vars, gatherVars>>
     \/ part = "gather" /\ GatherNext /\ UNCHANGED <<vars, fetchVars>>
  /\ UNCHANGED part
PartsSpec ==
  /\ PartsInit /\ [][PartsNext]_<<part, vars, fetchVars, gatherVars>>
  /\ Fairness /\ FetchFairness /\ GatherFairness
=============================================================================
