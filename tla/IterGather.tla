----------------------------- MODULE IterGather -----------------------------
(* iter_gather and async_iter_completed: a consumer that waits for the first  *)
(* of the pending futures again and again, and a TaskScheduler that takes     *)
(* futures from a generator, at most MaxJobs at a time.  The two meet in      *)
(* future_map only, and in the order of the event loop's callbacks.           *)
EXTENDS Naturals, Sequences, FiniteSets

CONSTANTS
  MaxFutures,     \* bound: what the generator yields at most
  MaxJobs         \* max_jobs

\* max_jobs or get_cpu_count()
ASSUME GatherAssumption == MaxFutures \in Nat /\ MaxJobs \in Nat \ {0}

Futures == 1 .. MaxFutures

VARIABLES
  total,      \* how many futures the generator will yield
  yielded,    \* how many it has yielded
  exhausted,  \* it has raised StopIteration (not _remaining_tasks)
  fst,        \* the futures: "new", "pending", "ok", "failed" or "cancelled"
  running,    \* _running_tasks of the scheduler
  stopped,    \* _terminated
  ended,      \* the scheduler's returncode is set
  futureMap,  \* future_map
  waits,      \* wait_result: the futures it waits for and where it is
  fset,       \* future_done_set: "none", "pending", "done" or "cancelled"
  result,     \* the future that iter_gather has returned
  gready      \* the event loop's queue of callbacks

schedVars  == <<total, yielded, exhausted, running, stopped, ended>>
gatherVars == <<schedVars, fst, futureMap, waits, fset, result, gready>>

Over(f)  == fst[f] \notin {"new", "pending"}
NoWait   == [at |-> "none", on |-> {}, cancelled |-> FALSE]
Does(k)  == gready # << >> /\ Head(gready)[1] = k
Calls(s) == gready' = Tail(gready) \o s

\* The futures of S in some order.
InTurn(S) == {q \in [1 .. Cardinality(S) -> S] : \A f \in S : \E i \in DOMAIN q : q[i] = f}

\* The callbacks of the futures of q when they are done: those of AsyncTaskFuture, and one
\* of the wait if it watches them (then there is one future in q, or the wait is cancelled).
Callbacks(q) ==
  [i \in DOMAIN q |-> <<"done", q[i]>>] \o
  (IF waits.at = "blocked" /\ \E i \in DOMAIN q : q[i] \in waits.on THEN <<<<"won">>>> ELSE << >>)

GatherInit ==
  /\ total \in 0 .. MaxFutures
  /\ yielded = 0 /\ exhausted = FALSE /\ running = {} /\ stopped = FALSE /\ ended = FALSE
  /\ fst = [f \in Futures |-> "new"]
  /\ futureMap = {} /\ waits = NoWait /\ fset = "none"
  /\ result = "none" /\ gready = << >>

-----------------------------------------------------------------------------
(* TaskScheduler                                                           *)

\* _can_add_job, when n tasks run: the load average may forbid a second one.
MutMayRefuse(n) == n >= MaxJobs \/ MaxJobs > 1
MayRefuse(n) == n >= MaxJobs \/ (MaxJobs > 1 /\ n >= 1)
MayAdd(n)    == n < MaxJobs

\* _schedule_tasks, with the tasks run: it starts those in new, some of which are done
\* already, and perhaps finds the generator exhausted; its last call is poll().
ScheduleTasks(run, new, done, last) ==
  LET n == Cardinality(run)
      m == Cardinality(new)
  IN  /\ new = (yielded + 1) .. (yielded + m) /\ yielded + m <= total
      /\ IF stopped \/ exhausted
         THEN m = 0 /\ last = exhausted
         ELSE /\ m > 0 => n + m <= MaxJobs
              /\ last => yielded + m = total /\ MayAdd(n + m)
              /\ ~last => MayRefuse(n + m)
      /\ yielded' = yielded + m
      /\ exhausted' = last
      /\ running' = run \cup new
      /\ fst' = [f \in Futures |-> IF f \in done THEN "ok"
                                   ELSE IF f \in new THEN "pending" ELSE fst[f]]
      /\ ended' = (ended \/ (running' = {} /\ (last \/ stopped)))
      /\ UNCHANGED <<total, stopped>>
Scheduled(run, new, done) ==
  /\ new \in SUBSET Futures /\ done \subseteq new
  /\ \E last \in BOOLEAN : ScheduleTasks(run, new, done, last)

\* scheduler.cancel(): the futures of the running tasks are cancelled; a coroutine's
\* task is only asked to end.
Cancels(S) ==
  /\ stopped' = TRUE
  /\ S \in {{}, {f \in running : ~Over(f)}} /\ (stopped => S = {})
  /\ fst' = [f \in Futures |-> IF f \in S THEN "cancelled" ELSE fst[f]]
  /\ UNCHANGED <<total, yielded, exhausted, running, ended>>

\* AsyncTaskFuture._done_callback, then the exit listener.
MutTaskDone ==
  \/ /\ Does("done") /\ Calls(<<<<"hop", Head(gready)[2]>>>>)
     /\ UNCHANGED <<schedVars, fst, futureMap, waits, fset, result>>
  \/ /\ Does("hop") /\ Calls(<<<<"exit", Head(gready)[2]>>>>)
     /\ UNCHANGED <<schedVars, fst, futureMap, waits, fset, result>>
TaskDone ==
  /\ Does("done") /\ Calls(<<<<"exit", Head(gready)[2]>>>>)
  /\ UNCHANGED <<schedVars, fst, futureMap, waits, fset, result>>
GatherExit ==
  /\ Does("exit")
  /\ \E new, done \in SUBSET Futures :
       /\ Scheduled(running \ {Head(gready)[2]}, new, done)
       /\ \E q \in InTurn(done) : Calls(Callbacks(q))
       /\ futureMap' = futureMap \cup new
  /\ UNCHANGED <<waits, fset, result>>

-----------------------------------------------------------------------------
(* async_iter_completed and iter_gather                                    *)

\* The loop of the generator: another wait, or its end.
NextWait(map) ==
  /\ waits' = [at |-> "start", on |-> map, cancelled |-> FALSE]
  /\ fset' = "pending" /\ result' = "pending"

\* iter_gather: the first next(completed_iter) starts the scheduler.
GatherStart ==
  /\ result = "none"
  /\ \E new, done \in SUBSET Futures :
       /\ Scheduled({}, new, done)
       /\ futureMap' = new
       /\ IF new = {}
          THEN result' = "set" /\ gready' = << >> /\ UNCHANGED <<waits, fset>>
          ELSE NextWait(new) /\ \E q \in InTurn(done) : gready' = Append(Callbacks(q), <<"wait">>)

\* asyncio.wait: callbacks on all of them, which are called at once for those that are
\* done; the first one sets the waiter, which wakes the task.
MutWaitStarts ==
  /\ Does("wait") /\ ~waits.cancelled
  /\ waits' = [waits EXCEPT !.at = "blocked"] /\ gready' = Tail(gready)
  /\ UNCHANGED <<schedVars, fst, futureMap, fset, result>>
WaitStarts ==
  /\ Does("wait") /\ ~waits.cancelled
  /\ waits' = [waits EXCEPT !.at = "blocked"]
  /\ Calls([i \in 1 .. Cardinality({f \in waits.on : Over(f)}) |-> <<"won">>])
  /\ UNCHANGED <<schedVars, fst, futureMap, fset, result>>
Won ==
  /\ Does("won")
  /\ IF waits.at = "blocked" /\ ~waits.cancelled
     THEN waits' = [waits EXCEPT !.at = "woken"] /\ Calls(<<<<"wake">>>>)
     ELSE UNCHANGED waits /\ Calls(<< >>)
  /\ UNCHANGED <<schedVars, fst, futureMap, fset, result>>
\* The wait ends, with what is done by now or because it was cancelled.
WaitEnds ==
  /\ Does("wake") \/ (Does("wait") /\ waits.cancelled)
  /\ waits' = [waits EXCEPT !.at = "over", !.on = {f \in waits.on : Over(f)}]
  /\ Calls(<<<<"wdone">>>>)
  /\ UNCHANGED <<schedVars, fst, futureMap, fset, result>>
\* done_callback.
DoneCallback ==
  /\ Does("wdone")
  /\ IF fset = "cancelled" THEN Calls(<< >>) /\ UNCHANGED <<futureMap, fset>>
     ELSE /\ futureMap' = futureMap \ waits.on /\ fset' = "done"
          /\ Calls(<<<<"handle">>>>)
  /\ UNCHANGED <<schedVars, fst, waits, result>>
\* handle_result.
HandleResult ==
  /\ Does("handle")
  /\ IF result = "cancelled"
     THEN Calls(<< >>) /\ UNCHANGED <<schedVars, fst, waits, fset, result>>
     ELSE IF futureMap # {}
     THEN NextWait(futureMap) /\ Calls(<<<<"wait">>>>) /\ UNCHANGED <<schedVars, fst>>
     ELSE /\ \E S \in SUBSET Futures : Cancels(S) /\ \E q \in InTurn(S) : Calls(Callbacks(q))
          /\ result' = "set" /\ UNCHANGED <<waits, fset>>
  /\ UNCHANGED futureMap

\* The caller cancels the result; cancel_callback of iter_gather, then that of
\* async_iter_completed.
CancelResult ==
  /\ result = "pending"
  /\ result' = "cancelled" /\ gready' = Append(gready, <<"cancel result">>)
  /\ UNCHANGED <<schedVars, fst, futureMap, waits, fset>>
ResultCancelled ==
  /\ Does("cancel result")
  /\ IF fset = "pending"
     THEN fset' = "cancelled" /\ Calls(<<<<"cancel set">>, <<"handle">>>>)
     ELSE UNCHANGED fset /\ Calls(<< >>)
  /\ UNCHANGED <<schedVars, fst, futureMap, waits, result>>
SetCancelled ==
  /\ Does("cancel set")
  /\ IF waits.at = "over" THEN UNCHANGED waits /\ Calls(<< >>)
     ELSE /\ waits' = [waits EXCEPT !.cancelled = TRUE]
          /\ Calls(IF waits.at = "blocked" THEN <<<<"wake">>>> ELSE << >>)
  /\ UNCHANGED <<schedVars, fst, futureMap, fset, result>>

\* Nothing closes the generator after a cancellation but the garbage collector, which
\* may do so while _schedule_tasks runs: the tasks are not cancelled then.
GeneratorCollected ==
  /\ result = "cancelled" /\ ~stopped
  /\ {"handle", "cancel result", "cancel set"} \cap {gready[i][1] : i \in DOMAIN gready} = {}
  /\ \E S \in SUBSET Futures : Cancels(S) /\ \E q \in InTurn(S) : gready' = gready \o Callbacks(q)
  /\ UNCHANGED <<futureMap, waits, fset, result>>

\* The environment: a future ends.
FutureEnds(f) ==
  /\ fst[f] = "pending"
  /\ \E s \in {"ok", "failed"} \cup (IF stopped THEN {"cancelled"} ELSE {}) :
       fst' = [fst EXCEPT ![f] = s]
  /\ gready' = gready \o Callbacks(<<f>>)
  /\ UNCHANGED <<schedVars, futureMap, waits, fset, result>>

GatherCallback ==
  \/ TaskDone \/ GatherExit \/ WaitStarts \/ Won \/ WaitEnds \/ DoneCallback
  \/ HandleResult \/ ResultCancelled \/ SetCancelled
GatherNext ==
  \/ GatherStart \/ GatherCallback \/ CancelResult \/ GeneratorCollected
  \/ \E f \in Futures : FutureEnds(f)
GatherFairness ==
  WF_gatherVars(GatherCallback) /\ \A f \in Futures : WF_gatherVars(FutureEnds(f))
GatherSpec == GatherInit /\ [][GatherNext]_gatherVars /\ GatherFairness

-----------------------------------------------------------------------------
GatherTypeOK ==
  /\ total \in 0 .. MaxFutures /\ yielded \in 0 .. total
  /\ {exhausted, stopped, ended} \subseteq BOOLEAN
  /\ \A f \in Futures : fst[f] \in {"new", "pending", "ok", "failed", "cancelled"}
  /\ running \cup futureMap \cup waits.on \subseteq 1 .. yielded
  /\ waits.at \in {"none", "start", "blocked", "woken", "over"}

\* "scheduler should ensure that future_map is non-empty until task_generator is
\* exhausted": when the result is set, the generator is exhausted, every future has
\* come to its own end, none of them cancelled by the clean-up; and no more futures than
\* max_jobs are under way at any time.  It is a matter of one callback: a future that
\* ends just before the wait is evaluated leaves the map at once, and the scheduler adds
\* the next one right before handle_result looks.
GatherWhole ==
  /\ result = "set" =>
       /\ exhausted /\ yielded = total
       /\ \A f \in 1 .. total : fst[f] \in {"ok", "failed"}
  /\ Cardinality({f \in Futures : fst[f] = "pending"}) <= MaxJobs

\* The result is set or cancelled, and the scheduler ends.
GatherEnds == []<>(result = "none" \/ (result # "pending" /\ ended))
=============================================================================
