----------------------------- MODULE QueueLoop ------------------------------
(* The loop of SequentialTaskQueue.schedule(), apart from what it is a loop  *)
(* over: TaskQueue and Scheduler both use it, and Fetch the filter Only.     *)
EXTENDS Naturals, Sequences, FiniteSets

InSeq(s) == {s[i] : i \in 1..Len(s)}

\* What s holds of the set S, in the order of s (a SelectSeq that can be reasoned
\* about: the provers know no rule for an operator with an operator argument).
Only(s, S) ==
  LET first[n \in 0..Len(s)] ==
        IF n = 0 THEN <<>>
        ELSE IF s[n] \in S THEN Append(first[n - 1], s[n]) ELSE first[n - 1]
  IN  first[Len(s)]

\* With max_jobs = max, dq queued and act running, schedule() starts n tasks: it
\* had room for the last of them, and it ends without a task or without room.
MutRuns(max, dq, act, n) ==
  LET after(k) == act \cup InSeq(SubSeq(dq, 1, k))
  IN  /\ n = Len(dq) \/ Cardinality(after(n)) > max
      /\ n > 0 => Cardinality(after(n - 1)) <= max
Runs(max, dq, act, n) ==
  LET after(k) == act \cup InSeq(SubSeq(dq, 1, k))
  IN  /\ n = Len(dq) \/ Cardinality(after(n)) >= max
      /\ n > 0 => Cardinality(after(n - 1)) < max

=============================================================================
