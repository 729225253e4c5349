----------------------------- MODULE TaskQueue ------------------------------
(***************************************************************************)
(* lib/_emerge/SequentialTaskQueue.py: a queue that runs at most max_jobs  *)
(* tasks at a time.  This is what one queue promises to the scheduler,     *)
(* which has three of them; the module Scheduler implements it.            *)
(*                                                                         *)
(* A call of add, addFront, clear or _task_exit is one step: task.start()  *)
(* only makes the task run, and its exit listener _task_exit is called     *)
(* later, by the event loop.  No task is cancelled while it is queued,     *)
(* except by clear, which empties the queue; so schedule() never meets a   *)
(* cancelled task.                                                         *)
(***************************************************************************)
EXTENDS QueueLoop

CONSTANTS
  Tasks,   \* the tasks that may be added
  Limit      \* max_jobs

ASSUME TaskQueueAssumption == Limit \in Nat \ {0}

VARIABLES
  queue,   \* _task_queue
  active   \* running_tasks

vars == <<queue, active>>

TypeOK ==
  /\ queue \in Seq(Tasks)
  /\ active \subseteq Tasks
  /\ IsFiniteSet(active)

Init == queue = <<>> /\ active = {}

\* schedule(), with dq queued and act running.
MutSchedule(dq, act) ==
  \E n \in 0..Len(dq) :
    /\ Runs(Limit, dq, act, n)
    /\ queue' = SubSeq(dq, n, Len(dq))
    /\ active' = act \cup InSeq(SubSeq(dq, 1, n))
Schedule(dq, act) ==
  \E n \in 0..Len(dq) :
    /\ Runs(Limit, dq, act, n)
    /\ queue' = SubSeq(dq, n + 1, Len(dq))
    /\ active' = act \cup InSeq(SubSeq(dq, 1, n))

\* A task is added once.
New(t) == t \notin active \cup InSeq(queue)

Add(t) == New(t) /\ Schedule(Append(queue, t), active)

AddFront(t) == New(t) /\ Schedule(<<t>> \o queue, active)

\* _task_exit, called when the event loop gets to it.
MutTaskExit(t) == t \in active /\ active' = active \ {t} /\ UNCHANGED queue
TaskExit(t) == t \in active /\ Schedule(queue, active \ {t})

\* clear(): what is queued is cancelled, what runs is asked to end.
Clear == queue' = <<>> /\ UNCHANGED active

Next == Clear \/ \E t \in Tasks : Add(t) \/ AddFront(t) \/ TaskExit(t)

Spec == Init /\ [][Next]_vars

-----------------------------------------------------------------------------
(* Properties                                                              *)

\* A queue never runs more tasks than max_jobs, and never leaves a task waiting
\* while it has room: no event but an exit makes room, so that a task that is
\* left behind by one call would be stranded.
Served ==
  /\ Cardinality(active) <= Limit
  /\ queue # <<>> => Cardinality(active) = Limit

\* No task is started twice, or started and still queued: whatever the order of
\* calls, a task is in one place of the queue or runs.
NoneTwice ==
  /\ \A i, j \in 1..Len(queue) : queue[i] = queue[j] => i = j
  /\ \A i \in 1..Len(queue) : queue[i] \notin active

=============================================================================
