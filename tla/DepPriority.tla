---------------------------- MODULE DepPriority ----------------------------
(* The priorities of dependencies, and the two scales by which the resolver   *)
(* ignores the softer ones.  A priority is the set of its flags; a function   *)
(* that says which priorities to ignore is the set of those it ignores.       *)
EXTENDS Naturals, Sequences

CONSTANT Priorities   \* the priorities in use: sets of flags
ASSUME PrioritiesAreFlags == {"blocker"} \in Priorities

\* BlockerDepPriority, the class that none of the functions ignores.
Blocker == {"blocker"}
Soft    == Priorities \ {Blocker}

\* DepPriorityNormalRange.
NormalPost    == {p \in Soft : {"optional", "runtime_post"} \cap p # {}}
NormalRuntime == {p \in Soft : /\ "runtime_slot_op" \notin p \/ "cross" \in p
                               /\ "optional" \in p \/ "buildtime" \notin p}
Optional      == {p \in Soft : "optional" \in p}

\* DepPrioritySatisfiedRange.
SatisfiedPost ==
  Optional \cup
  {p \in Soft : {"satisfied", "runtime_post"} \subseteq p /\ {"buildtime", "runtime"} \cap p = {}}
Post ==
  Optional \cup {p \in Soft : "runtime_post" \in p /\ {"buildtime", "runtime"} \cap p = {}}
SatisfiedRuntime ==
  Optional \cup {p \in Soft : "buildtime" \notin p /\ ("runtime" \in p => "satisfied" \in p)}
SatisfiedBuildtime ==
  Optional \cup {p \in Soft : "satisfied" \in p /\ "buildtime_slot_op" \notin p}
SatisfiedSlotOp ==
  Optional \cup {p \in Soft : "satisfied" \in p \/ {"buildtime", "runtime"} \cap p = {}}
MutRuntime == {p \in Soft : "runtime_slot_op" \notin p \/ {"satisfied", "cross"} \cap p # {}}
Runtime ==
  {p \in Soft : /\ "runtime_slot_op" \notin p \/ {"satisfied", "cross"} \cap p # {}
                /\ {"satisfied", "optional"} \cap p # {} \/ "buildtime" \notin p}

\* ignore_priority, with None as the empty set, and the places of its levels in it.
NormalRange ==
  [ignore |-> <<{}, Optional, NormalPost, NormalRuntime>>,
   soft |-> 2, mediumPost |-> 3, mediumSoft |-> 3, medium |-> NormalRuntime]
SatisfiedRange ==
  [ignore |-> <<{}, Optional, SatisfiedPost, Post, SatisfiedRuntime, SatisfiedBuildtime,
                SatisfiedSlotOp, Runtime>>,
   soft |-> 2, mediumPost |-> 4, mediumSoft |-> 7, medium |-> Runtime]

\* Blockers, and what nothing installed satisfies and is needed to build, or whose slot
\* operator has to hold: neither range may ignore it.
Hard ==
  {p \in Priorities :
     \/ p = Blocker
     \/ /\ "buildtime" \in p \/ ("runtime_slot_op" \in p /\ "cross" \notin p)
        /\ {"satisfied", "optional"} \cap p = {}}
=============================================================================
