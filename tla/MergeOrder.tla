----------------------------- MODULE MergeOrder -----------------------------
(* The order in which the resolver lists merges and uninstalls:               *)
(* _validate_blockers, which adds an uninstall for each blocker that one can  *)
(* solve, and _serialize_tasks, which takes nodes from a copy of the          *)
(* dependency graph until it is empty.  The order of nodes in the graph,      *)
(* which only breaks ties, is abstracted to any order.                        *)
EXTENDS DepPriority, FiniteSets

CONSTANTS
  NewPkgs,    \* packages to merge
  OldPkgs,    \* installed packages
  PkgSlot,    \* the slot of each package
  Problems,   \* what is asked for, see below
  Neglected,  \* what _complete_graph may add to a dependency graph
  World,      \* the atoms of the world set, as sets of packages they match
  Essential,  \* installed packages of the system set, or that corepkg needs
  Accept      \* _accept_blocker_conflicts

\* A node of the graph: a package with an operation.
Merge(p)     == <<"merge", p>>
NoMerge(p)   == <<"nomerge", p>>
Uninstall(p) == <<"uninstall", p>>
Task(p)      == IF p \in NewPkgs THEN Merge(p) ELSE NoMerge(p)
IsUninst(n)  == n[1] = "uninstall"

\* A problem has a dependency graph as a set of <<parent, child, priority>>, blockers, the
\* packages to be merged as soon as possible (libc), the new version of the package manager
\* if there is one, and --tree.  A blocker has the packages that declare it, those it
\* matches, and a strength: "old" for an EAPI without strong blocks, "weak" or "strong" (!!).
ASSUME ProblemsAreKnown ==
  /\ NewPkgs \cap OldPkgs = {}
  /\ \A problem \in Problems :
       /\ \A e \in problem.deps : e[3] \in Priorities \ {Blocker}
       /\ \A b \in problem.blocks :
            /\ b.by \cup b.on \subseteq NewPkgs \cup OldPkgs
            /\ b.strength \in {"old", "weak", "strong"}

VARIABLES
  input,        \* the problem
  digraph,      \* edges of its dependency graph, without uninstalls
  complete,     \* "complete" in myparams
  phase,        \* "validate", "order", "done", "blocked" or "circular"
  unsolvable,   \* _unsolvable_blockers
  mygraph,      \* the copy of the graph that is taken apart: nodes and edges
  blockerUnin,  \* myblocker_uninstalls: <<blocker, uninstall>>
  scheduled,    \* scheduled_uninstalls
  ignored,      \* ignored_uninstall_tasks
  asap,         \* asap_nodes
  preferAsap,   \* prefer_asap
  dropSat,      \* drop_satisfied
  selected,     \* selected_nodes that are not in the list yet
  cycle,        \* cycle_digraph's edges
  retlist       \* the list so far

graphVars == <<input, digraph, complete>>
orderVars == <<graphVars, phase, unsolvable, mygraph, blockerUnin, scheduled, ignored, asap,
               preferAsap, dropSat, selected, cycle, retlist>>

Superseded(x) == \E p \in NewPkgs : PkgSlot[p] = PkgSlot[x]
Final         == NewPkgs \cup {x \in OldPkgs : ~Superseded(x)}
EndsOf(E)     == UNION {{e[1], e[2]} : e \in E}
BaseNodes     == {Merge(p) : p \in NewPkgs} \cup EndsOf(digraph)

-----------------------------------------------------------------------------
(* digraph                                                                 *)

Children(g, n, ign) == {e[2] : e \in {e \in g.edges : e[1] = n /\ e[3] \notin ign}}
Parents(g, n)       == {e[1] : e \in {e \in g.edges : e[2] = n}}
Leaves(g, ign)      == {n \in g.nodes : Children(g, n, ign) = {}}
Minus(g, S)         ==
  [nodes |-> g.nodes \ S, edges |-> {e \in g.edges : e[1] \notin S /\ e[2] \notin S}]
Within(g, S)        == Minus(g, g.nodes \ S)

\* The nodes that n reaches.
Reach(g, n, ign) ==
  LET to[i \in 0 .. Cardinality(g.nodes)] ==
        IF i = 0 THEN {n} ELSE to[i - 1] \cup UNION {Children(g, m, ign) : m \in to[i - 1]}
  IN  to[Cardinality(g.nodes)]

\* "Prune nomerge root nodes if nothing depends on them", again and again.
PrunedRoots(g) ==
  Within(g, UNION {R \in SUBSET g.nodes :
                     \A n \in R : n[1] = "merge" \/ Parents(Within(g, R), n) # {}})

-----------------------------------------------------------------------------
(* _validate_blockers                                                      *)

\* The pairs <<installed package, task>> such that b, declared by p, is solved if the
\* package is gone before the task, and whether b cannot be solved at all.
SameSlot(b, p, x) == PkgSlot[x] = PkgSlot[p] /\ b.strength # "strong"
DependsOnOrder(b, p) ==
  IF p \in NewPkgs
  THEN {<<x, p>> : x \in {x \in b.on \cap OldPkgs : ~SameSlot(b, p, x)}}
  ELSE {<<p, x>> : x \in {x \in b.on \cap NewPkgs : ~SameSlot(b, p, x)}}
Unresolved(b, p) ==
  \/ p \in NewPkgs /\ \E x \in b.on \cap NewPkgs : ~SameSlot(b, p, x)
  \/ \E d \in DependsOnOrder(b, p) : Parents([edges |-> digraph], NoMerge(d[1])) # {}

Declared == {bp \in input.blocks \X (NewPkgs \cup OldPkgs) : bp[2] \in bp[1].by}
Solvable(bp) == ~Unresolved(bp[1], bp[2])
UninstallEdges ==
  UNION {{<<Merge(d[2]), Uninstall(d[1]), Blocker>> : d \in DependsOnOrder(bp[1], bp[2])} :
           bp \in {bp \in Declared : Solvable(bp)}}

ValidateBlockers ==
  /\ phase = "validate" /\ phase' = "order"
  /\ unsolvable' = {bp[1] : bp \in {bp \in Declared : ~Solvable(bp)}}
  /\ blockerUnin' =
       UNION {{<<bp[1], Uninstall(d[1])>> : d \in DependsOnOrder(bp[1], bp[2])} :
                bp \in {bp \in Declared : Solvable(bp)}}
  /\ mygraph' = PrunedRoots([nodes |-> BaseNodes \cup EndsOf(UninstallEdges),
                             edges |-> digraph \cup UninstallEdges])
  /\ scheduled' = {} /\ ignored' = {} /\ retlist' = << >>
  /\ asap' = {Merge(p) : p \in input.libc} /\ preferAsap' = TRUE /\ dropSat' = FALSE
  /\ UNCHANGED <<graphVars, selected, cycle>>

-----------------------------------------------------------------------------
(* _serialize_tasks: the choice of nodes                                   *)

\* get_nodes, which leaves uninstalls out unless they are scheduled.
GetNodes(ign) == {n \in Leaves(mygraph, ign) : ~IsUninst(n) \/ n \in scheduled}

\* What F yields at the first of the levels from lo to hi where it yields anything.
First(lo, hi, F(_)) ==
  LET found == {i \in lo .. hi : F(i) # {}}
  IN  IF found = {} THEN {} ELSE F(CHOOSE i \in found : \A j \in found : i <= j)

Prefer  == preferAsap /\ asap # {}
Range0  == IF Prefer THEN SatisfiedRange ELSE NormalRange
Asap    == IF Prefer THEN asap \cap mygraph.nodes ELSE asap
Choice(S, how, ign) == [nodes |-> S, how |-> how, ign |-> ign]

\* A node to be merged as soon as possible, without regard to soft dependencies.
AsapChoices ==
  LET At(i) == {Choice({n}, "asap", SatisfiedRange.ignore[i]) :
                  n \in {n \in Asap : Children(mygraph, n, SatisfiedRange.ignore[i]) = {}}}
  IN  IF Prefer THEN First(SatisfiedRange.soft, SatisfiedRange.mediumSoft, At) ELSE {}

\* Leaves: all of them if nothing has been ignored, otherwise one that has a parent.
LeafChoices ==
  LET At(i) ==
        LET ign   == Range0.ignore[i]
            found == GetNodes(ign)
            unin  == {n \in found : IsUninst(n)}
            nodes == IF Cardinality(found) > 1 /\ unin # {} THEN unin ELSE found
            early == {n \in nodes :
                        \E p \in Asap \cap mygraph.nodes :
                          n \in Children(mygraph, p, SatisfiedSlotOp)}
            having == {n \in nodes : Parents(mygraph, n) # {}}
        IN  IF nodes = {} THEN {}
            ELSE IF \/ nodes # found \/ Cardinality(nodes) = 1
                    \/ i = 1 /\ Asap = {} /\ ~input.tree
            THEN {Choice(nodes, "leaves", ign)}
            ELSE {Choice({n}, "leaf", ign) : n \in IF early # {} THEN early ELSE having}
  IN  IF Prefer /\ Asap # {} THEN {} ELSE First(1, Range0.mediumSoft, At)

\* gather_deps: what a node reaches is mergeable; the package manager wants all of its
\* run-time dependencies to be there before.
Waits(n, range) ==
  /\ n[2] = input.corepkg /\ n[1] = "merge"
  /\ \E c \in Children(mygraph, n, range.ignore[range.mediumSoft]) : ~IsUninst(c)
Gathered(n, ign, mergeable, range) ==
  LET S == Reach(mygraph, n, ign)
  IN  S \subseteq mergeable /\ \A m \in S : ~Waits(m, range)

\* find_smallest_cycle, in one range.
CyclesIn(range) ==
  LET mergeable == GetNodes(range.medium)
      from == {n \in (IF Prefer /\ Asap # {} THEN Asap ELSE mergeable) :
                 Parents(mygraph, n) # {}}
      At(i) ==
        LET ign   == range.ignore[i]
            found == {Reach(mygraph, n, ign) :
                        n \in {n \in from : Gathered(n, ign, mergeable, Range0)}}
        IN  {Choice(S, "cycle", ign) :
               S \in {S \in found : \A T \in found : Cardinality(S) <= Cardinality(T)}}
  IN  IF mergeable = {} THEN {} ELSE First(range.mediumPost, range.mediumSoft, At)
\* A node of the cycle without any children in it is taken alone.
Narrowed(c) ==
  LET leaves == Leaves(Within(mygraph, c.nodes), {})
  IN  IF leaves = {} THEN {c} ELSE {Choice({n}, "leaf", c.ign) : n \in leaves}
CycleChoices ==
  LET normal    == CyclesIn(NormalRange)
      satisfied == IF Prefer \/ dropSat THEN CyclesIn(SatisfiedRange) ELSE {}
  IN  UNION {Narrowed(c) : c \in IF normal # {} THEN normal ELSE satisfied}

Picks ==
  IF AsapChoices # {} THEN AsapChoices
  ELSE IF LeafChoices # {} THEN LeafChoices ELSE CycleChoices

\* Dependencies that a selected node wants right after it: PDEPEND.
Wanted(n, S) ==
  {c \in Children(mygraph, n, {}) \ S :
     /\ c \notin Children(mygraph, n, Post)
     /\ c \in Children(mygraph, n, SatisfiedPost)}

Choosing == phase = "order" /\ selected = {} /\ mygraph.nodes # {}
Restart  == preferAsap' = TRUE /\ dropSat' = FALSE
Keep     == UNCHANGED <<graphVars, phase, unsolvable, retlist>>

Take(c) ==
  /\ selected' = c.nodes
  /\ cycle' = IF c.how = "cycle" THEN Within(mygraph, c.nodes).edges ELSE {}
  /\ mygraph' = Minus(mygraph, c.nodes)
  /\ asap' = (Asap \ (IF c.how = "asap" THEN c.nodes ELSE {}))
             \cup (IF c.ign = {} THEN {} ELSE UNION {Wanted(n, c.nodes) : n \in c.nodes})
  /\ Restart /\ Keep /\ UNCHANGED <<blockerUnin, scheduled, ignored>>
Select == Choosing /\ \E c \in Picks : Take(c)

\* "We failed to find any asap nodes to merge, so ignore them for the next iteration."
IgnoreAsap ==
  /\ Choosing /\ Picks = {} /\ Prefer /\ Asap # {}
  /\ preferAsap' = FALSE /\ asap' = Asap
  /\ Keep /\ UNCHANGED <<mygraph, blockerUnin, scheduled, ignored, dropSat, selected, cycle>>

Stuck == Choosing /\ Picks = {} /\ ~(Prefer /\ Asap # {})

\* An uninstall that may be done once the packages that block it are merged.
Range1    == IF dropSat THEN SatisfiedRange ELSE NormalRange
UninTasks == {bu[2] : bu \in blockerUnin}
Worldly(x) ==
  ~complete /\ \E atom \in World : x \in atom /\ atom \cap (Final \ {x}) = {}
\* Blocker and blocked package may be installed side by side for a while.
Strengths(u) == {bu[1].strength : bu \in {bu \in blockerUnin : bu[2] = u}}
MutMayOverlap(u) == "old" \in Strengths(u) => u[2] \notin Essential
MayOverlap(u) ==
  "strong" \notin Strengths(u) /\ ("old" \in Strengths(u) => u[2] \notin Essential)
MaySchedule(u) ==
  /\ u \notin ignored \cup scheduled
  /\ NoMerge(u[2]) \notin BaseNodes
  /\ MayOverlap(u)
  /\ ~Worldly(u[2])
  /\ LET mergeable == GetNodes(Range1.medium \cup {Blocker})
         ign == Range1.ignore[Range1.mediumSoft] \cup {Blocker}
     IN  \E p \in Parents(mygraph, u) : Gathered(p, ign, mergeable, Range1)
ParentDeps(u) ==
  {u} \cup UNION {Children(mygraph, p, Range1.ignore[Range1.mediumSoft]) :
                    p \in Parents(mygraph, u)}
Schedulable ==
  LET may == {u \in UninTasks : MaySchedule(u)}
  IN  {u \in may : \A v \in may : Cardinality(ParentDeps(u)) <= Cardinality(ParentDeps(v))}

\* A merge in the slot of the uninstall comes before it, and makes it unnecessary.
MutSlotNodes(u) == {}
SlotNodes(u) == {Merge(p) : p \in {p \in NewPkgs : PkgSlot[p] = PkgSlot[u[2]]}}
\* The edges to the uninstall are reversed.
ScheduleUninstall ==
  /\ Stuck
  /\ \E u \in Schedulable :
       /\ scheduled' = scheduled \cup {u}
       /\ LET rest  == Minus(mygraph, {u})
              first == Parents(mygraph, u) \cup SlotNodes(u)
          IN  mygraph' = [nodes |-> mygraph.nodes \cup first,
                          edges |-> rest.edges \cup {<<u, p, Blocker>> : p \in first}]
  /\ Restart /\ asap' = Asap
  /\ Keep /\ UNCHANGED <<blockerUnin, ignored, selected, cycle>>

\* "Only select root nodes as a last resort."
SelectIsolated ==
  /\ Stuck /\ Schedulable = {} /\ GetNodes({}) # {}
  /\ Take(Choice(GetNodes({}), "leaves", {}))
DropSatisfied ==
  /\ Stuck /\ Schedulable = {} /\ GetNodes({}) = {} /\ ~dropSat
  /\ dropSat' = TRUE /\ asap' = Asap
  /\ Keep /\ UNCHANGED <<mygraph, blockerUnin, scheduled, ignored, preferAsap, selected, cycle>>
\* An uninstall is given up; its blocker stays unsolved.
MutGivenUp == UninTasks
GivenUp == UninTasks \cap mygraph.nodes
DropUninstall ==
  /\ Stuck /\ Schedulable = {} /\ GetNodes({}) = {} /\ dropSat
  /\ \E u \in GivenUp : mygraph' = Minus(mygraph, {u}) /\ ignored' = ignored \cup {u}
  /\ Restart /\ asap' = Asap
  /\ Keep /\ UNCHANGED <<blockerUnin, scheduled, selected, cycle>>
Circular ==
  /\ Stuck /\ Schedulable = {} /\ GetNodes({}) = {} /\ dropSat /\ GivenUp = {}
  /\ phase' = "circular" /\ asap' = Asap
  /\ UNCHANGED <<graphVars, unsolvable, mygraph, blockerUnin, scheduled, ignored, preferAsap,
                 dropSat, selected, cycle, retlist>>

-----------------------------------------------------------------------------
(* _serialize_tasks: the list                                              *)

\* The order of a cycle: a leaf at the lowest level that has one, an installed one rather
\* than another.
Harvest ==
  LET g     == [nodes |-> selected, edges |-> cycle]
      level == Tail(NormalRange.ignore) \o Tail(SatisfiedRange.ignore)
      At(i) == Leaves(g, level[i])
      found == First(1, Len(level), At)
      inst  == {n \in found : n[1] # "merge"}
  IN  IF cycle = {} THEN selected
      ELSE IF found = {} THEN selected ELSE IF inst # {} THEN inst ELSE found

\* The uninstall that n does or, by taking its slot, makes unnecessary.
Removes(n) ==
  IF IsUninst(n) THEN {n}
  ELSE {Uninstall(x) : x \in {x \in OldPkgs : PkgSlot[x] = PkgSlot[n[2]]}}
ListNode ==
  /\ phase = "order" /\ selected # {}
  /\ \E n \in Harvest :
       /\ selected' = selected \ {n} /\ cycle' = {e \in cycle : n \notin {e[1], e[2]}}
       /\ IF n[1] = "nomerge" THEN UNCHANGED <<mygraph, blockerUnin, retlist>>
          ELSE /\ mygraph' = Minus(mygraph, Removes(n))
               /\ blockerUnin' = {bu \in blockerUnin : bu[2] \notin Removes(n) \ ignored}
               /\ retlist' = Append(retlist, n)
  /\ UNCHANGED <<graphVars, phase, unsolvable, scheduled, ignored, asap, preferAsap, dropSat>>

\* The graph is empty; an uninstall asks for a complete graph, once.
Finish ==
  /\ phase = "order" /\ selected = {} /\ mygraph.nodes = {}
  /\ LET left  == unsolvable \cup {bu[1] : bu \in blockerUnin}
         retry == left = {} /\ ~complete /\ \E i \in DOMAIN retlist : IsUninst(retlist[i])
     IN  /\ unsolvable' = left
         /\ complete' = (complete \/ retry)
         /\ phase' = IF retry THEN "validate"
                     ELSE IF left # {} /\ ~Accept THEN "blocked" ELSE "done"
         /\ IF retry THEN \E extra \in Neglected : digraph' = digraph \cup extra
            ELSE UNCHANGED digraph
  /\ UNCHANGED <<input, mygraph, blockerUnin, scheduled, ignored, asap, preferAsap, dropSat,
                 selected, cycle, retlist>>

Given(S) ==
  /\ input \in S /\ digraph = input.deps /\ complete = FALSE
  /\ phase = "validate" /\ unsolvable = {}
  /\ mygraph = [nodes |-> {}, edges |-> {}] /\ blockerUnin = {}
  /\ scheduled = {} /\ ignored = {} /\ asap = {} /\ preferAsap = TRUE /\ dropSat = FALSE
  /\ selected = {} /\ cycle = {} /\ retlist = << >>
OrderInit == Given(Problems)
OrderNext ==
  \/ ValidateBlockers \/ Select \/ IgnoreAsap \/ ScheduleUninstall \/ SelectIsolated
  \/ DropSatisfied \/ DropUninstall \/ Circular \/ ListNode \/ Finish
OrderSpec == OrderInit /\ [][OrderNext]_orderVars

-----------------------------------------------------------------------------
OrderTypeOK ==
  /\ phase \in {"validate", "order", "done", "blocked", "circular"}
  /\ mygraph.edges \subseteq mygraph.nodes \X mygraph.nodes \X Priorities
  /\ scheduled \cup ignored \subseteq {Uninstall(x) : x \in OldPkgs}
  /\ selected \cap mygraph.nodes = {}

Listed == {retlist[i] : i \in DOMAIN retlist}
Before(m, n) ==
  \E i, j \in DOMAIN retlist : i < j /\ retlist[i] = m /\ retlist[j] = n
\* scheduler_graph.
SchedulerGraph ==
  digraph \cup {e \in UninstallEdges : e[2] \notin scheduled}
          \cup {<<e[2], e[1], e[3]>> : e \in {e \in UninstallEdges : e[2] \in scheduled}}

Early == {Merge(p) : p \in input.libc} \cup {e[2] : e \in {e \in digraph : e[3] \in Post}}
\* What a task may have to wait for: an uninstall is done by a merge in its slot.
Leading ==
  digraph \cup UninstallEdges
  \cup UNION {{<<e[2], n, Blocker>> : n \in SlotNodes(e[2])} : e \in UninstallEdges}
\* The order of the list respects the dependencies.  No task comes before one that it needs
\* in any case, for its build, for a slot operator or because of a blocker.  When the list is
\* accepted, another dependency comes after its parent only if it depends on the parent in
\* turn, or, where packages are wanted early (libc, PDEPEND), if an installed package
\* satisfies it.
DepsRespected ==
  /\ \A e \in SchedulerGraph :
       e[3] \in Hard /\ e[1] \in Listed /\ e[2][1] = "merge" => Before(e[2], e[1])
  /\ phase = "done" =>
       \A e \in digraph :
         /\ e[3] \notin NormalPost /\ {e[1], e[2]} \subseteq Listed
         => \/ Before(e[2], e[1])
            \/ e[1] \in Reach([nodes |-> EndsOf(Leading), edges |-> Leading], e[2], {})
            \/ Early # {} /\ "satisfied" \in e[3]

\* What is installed after each task of the list.
InstalledAt ==
  LET at[k \in 0 .. Len(retlist)] ==
        IF k = 0 THEN OldPkgs
        ELSE LET n == retlist[k] IN
             IF IsUninst(n) THEN at[k - 1] \ {n[2]}
             ELSE {x \in at[k - 1] : PkgSlot[x] # PkgSlot[n[2]]} \cup {n[2]}
  IN  at
\* The list is whole and solves the blockers.  Every package is merged once.  If the list is
\* accepted, no package is installed beside one that it blocks in the end, or, for a strong
\* blocker, when it is merged; and a package is uninstalled only while it is installed and
\* blocked, if no merge takes its slot, no set wants it and nothing in the complete graph
\* depends on it.
Beside(bp, x, S) == {bp[2], x} \subseteq S
BlocksRespected ==
  /\ \A i, j \in DOMAIN retlist : retlist[i] = retlist[j] => i = j
  /\ phase \in {"done", "blocked"} => \A p \in NewPkgs : Merge(p) \in Listed
  /\ phase = "done" /\ ~Accept =>
       \A bp \in Declared : \A x \in bp[1].on \ {bp[2]} :
         ~Beside(bp, x, OldPkgs) =>
           /\ ~Beside(bp, x, InstalledAt[Len(retlist)])
           /\ bp[1].strength = "strong" =>
                \A k \in DOMAIN retlist :
                  ~Beside(bp, x, InstalledAt[k - 1] \cup {retlist[k][2]})
  /\ phase = "done" =>
       \A k \in DOMAIN retlist : IsUninst(retlist[k]) =>
         LET x == retlist[k][2]
         IN  /\ x \in InstalledAt[k - 1] /\ ~Superseded(x) /\ ~Worldly(x)
             /\ complete /\ NoMerge(x) \notin BaseNodes
             /\ \E bp \in Declared : \E y \in bp[1].on :
                  x \in {y, bp[2]} /\ Beside(bp, y, InstalledAt[k - 1])

\* The merge list can be carried out in its order: what a task needs has been merged
\* before it, and what it blocks is gone.
OrderRespected == DepsRespected /\ BlocksRespected

\* _serialize_tasks comes to an end: every iteration takes a node from the graph, or
\* schedules an uninstall for the first time, or loosens the criteria once more.
Nodes == 2 * Cardinality(mygraph.nodes) + Cardinality(selected)
Flags == (IF preferAsap THEN 1 ELSE 0) + (IF dropSat THEN 0 ELSE 1)
Advances ==
  \/ Nodes' < Nodes
  \/ Nodes' = Nodes /\ scheduled \subseteq scheduled' /\ scheduled # scheduled'
  \/ Nodes' = Nodes /\ scheduled' = scheduled /\ Flags' < Flags
OrderProgress == [][phase = "order" /\ phase' = "order" => Advances]_orderVars
=============================================================================
