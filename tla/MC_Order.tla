------------------------------ MODULE MC_Order ------------------------------
(* Three packages to merge and two installed ones, of which the third package *)
(* replaces the first.                                                        *)
EXTENDS MergeOrder, TLC

Build == {"buildtime"}
Run   == {"runtime"}
After == {"runtime_post"}
Had   == {"buildtime", "satisfied"}
Op    == {"runtime", "runtime_slot_op"}
OrderPriorities == {Build, Run, After, Had, Op, Blocker}
OrderSlots == "a" :> 1 @@ "b" :> 2 @@ "c" :> 3 @@ "x" :> 3 @@ "y" :> 4

\* Every graph of three packages with one dependency at most from one to another, up to
\* the names of packages with different numbers of dependencies.
Pairs == {<<Merge(p), Merge(q)>> : <<p, q>> \in {pq \in NewPkgs \X NewPkgs : pq[1] # pq[2]}}
Edges(f) == {<<pq[1], pq[2], f[pq]>> : pq \in {pq \in Pairs : f[pq] # {}}}
Out(E, p) == Cardinality({e \in E : e[1] = Merge(p)})
Graphs ==
  {E \in {Edges(f) : f \in [Pairs -> {{}, Build, Run, After, Had}]} :
     Out(E, "a") >= Out(E, "b") /\ Out(E, "b") >= Out(E, "c")}
Problem(E, B, l, c, t) == [deps |-> E, blocks |-> B, libc |-> l, corepkg |-> c, tree |-> t]
NoProblem == Problem({}, {}, {}, "none", FALSE)

\* A few graphs with blockers of all kinds.
Block(by, on, s) == [by |-> by, on |-> on, strength |-> s]
Some ==
  {<<Merge("a"), Merge("b"), Run>>, <<Merge("b"), Merge("a"), Run>>,
   <<Merge("c"), Merge("a"), Had>>, <<Merge("b"), NoMerge("y"), Had>>,
   <<Merge("b"), Merge("c"), Build>>, <<Merge("a"), Merge("c"), Op>>}
BlockerSets ==
  {{Block({p}, S, s)} : p \in {"a", "c"}, S \in {{"x"}, {"y"}, {"y", "b"}},
                        s \in {"old", "weak", "strong"}}
  \cup {{Block({p}, S, s), Block({"b"}, {"y"}, "weak")} :
          p \in {"a", "y"}, S \in {{"x"}, {"y", "x"}, {"a"}}, s \in {"weak", "strong"}}

OrderProblems ==
  {Problem(E, {}, {}, "none", FALSE) : E \in Graphs}
  \cup {Problem(E, B, {}, "none", FALSE) : E \in SUBSET Some, B \in BlockerSets}
  \cup {Problem(E, {}, l, "b", TRUE) : E \in SUBSET Some, l \in {{}, {"a"}}}
OrderNeglected ==
  {{}, {<<NoMerge("x"), NoMerge("y"), Run>>}, {<<Merge("c"), NoMerge("y"), Had>>}}
=============================================================================
