---------------------------- MODULE MC_Scheduler ----------------------------
(* Small merge lists for the scheduler.                                      *)
EXTENDS Scheduler, TLC

CONSTANTS a, b, c, d

None == [p \in Pkgs |-> {}]

\* A build-time dependency, and a package that may overtake the one that has it.
Chain == <<a, b, c>>
ChainDeps == [None EXCEPT ![b] = {a}]

\* A system package with a runtime dependency that comes later and needs it.
Cycle == <<a, b, c, d>>
CycleDeps == [None EXCEPT ![a] = {b}, ![b] = {a}]
CycleRuntime == [None EXCEPT ![a] = {b}]

\* Two packages, one of which needs the other and the removal of a blocker, which
\* the other makes superfluous.
Blocker == <<a, b, c>>
BlockerDeps == [None EXCEPT ![b] = {a, c}]
BlockerReplaces == [None EXCEPT ![a] = {c}]

\* The two together: b needs a and the removal of d, and c may overtake b.
Mixed == <<a, b, c, d>>
MixedDeps == [None EXCEPT ![b] = {a, d}]
MixedReplaces == [None EXCEPT ![a] = {d}]

Independent == <<a, b, c>>

Two == <<a, b>>
=============================================================================
