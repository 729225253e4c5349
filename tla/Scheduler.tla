------------------------------ MODULE Scheduler ------------------------------
(***************************************************************************)
(* The parallel merge scheduler of emerge: Scheduler and PollScheduler     *)
(* with the SequentialTaskQueue and AsynchronousTask machinery they run    *)
(* on (lib/_emerge).                                                       *)
(*                                                                         *)
(* Everything below runs in one thread, in callbacks of an event loop.     *)
(* "ready" is the loop's FIFO of callbacks (call_soon).  A task that ends  *)
(* queues its exit listeners in the order they were added, and that order  *)
(* depends on whether the queue could start the task at once.  _schedule   *)
(* runs _schedule_tasks to its end inside one callback: "phase" says where *)
(* it is, and no other callback runs meanwhile; signals may arrive at any  *)
(* point.  What the build and merge processes do is the environment.       *)
(***************************************************************************)
EXTENDS QueueLoop

CONSTANTS
  Pkgs,             \* the packages of the merge list
  MergeList,        \* self._mergelist: their order
  Uninstalls,       \* the ones with operation "uninstall" (pkg.installed)
  Deps,             \* Deps[p]: digraph.child_nodes(p)
  RuntimeDeps,      \* RuntimeDeps[p]: the unsatisfied runtime ones among them
  SystemPkgs,       \* _deep_system_deps
  Replaces,         \* Replaces[p]: uninstalls that merging p makes superfluous
  NoPkg,            \* "no package" as a result of _choose_pkg
  MaxJobs,          \* --jobs
  NoDeps,           \* --nodeps
  MergeWait,        \* FEATURES=merge-wait
  ParallelInstall,  \* FEATURES=parallel-install
  EbuildLocks,      \* FEATURES=ebuild-locks
  KeepGoing,        \* --keep-going
  Jobserver,        \* FEATURES=jobserver-token and a fifo in MAKEFLAGS
  HasImplicit,      \* MAKEFLAGS came with the environment: one slot is ours
  Tokens,           \* tokens that exist besides the implicit one
  JobserverMayFail, \* the fifo may become unusable
  PostinstMayFail,  \* pkg_postinst may fail
  MayTerminate,     \* SIGINT or SIGTERM may arrive
  MayFlush          \* SIGUSR2 may arrive

ASSUME SchedulerAssumption ==
  /\ IsFiniteSet(Pkgs)
  /\ NoPkg \notin Pkgs
  /\ MergeList \in Seq(Pkgs)
  /\ \A i, j \in 1..Len(MergeList) : MergeList[i] = MergeList[j] => i = j
  /\ Uninstalls \subseteq Pkgs
  /\ SystemPkgs \subseteq Pkgs \ Uninstalls
  /\ Deps \in [Pkgs -> SUBSET Pkgs]
  /\ RuntimeDeps \in [Pkgs -> SUBSET Pkgs]
  /\ Replaces \in [Pkgs -> SUBSET Uninstalls]
  /\ MaxJobs \in Nat \ {0}
  /\ Tokens \in Nat
  /\ {NoDeps, MergeWait, ParallelInstall, EbuildLocks, KeepGoing, Jobserver,
      HasImplicit, JobserverMayFail, PostinstMayFail, MayTerminate,
      MayFlush} \subseteq BOOLEAN

VARIABLES
  \* what is left to do and what has been done
  pkgQueue,         \* _pkg_queue
  completed,        \* _completed_tasks
  failed,           \* _failed_pkgs
  failedAll,        \* _failed_pkgs_all: failed or dropped in an earlier round
  unsatisfied,      \* _unsatisfied_system_deps
  returnEarly,      \* _choose_pkg_return_early
  \* what is under way
  jobs,             \* _jobs
  running,          \* _running_tasks
  waitQueue,        \* _merge_wait_queue
  waitScheduled,    \* _merge_wait_scheduled
  flush,            \* _flush_merge_wait_queue
  flushed,          \* SIGUSR2 has arrived (a history)
  \* the tasks and the task queues
  st,               \* st[t]: where task t is in its life
  listeners,        \* listeners[t]: _exit_listeners of t, in order
  queue,            \* queue[q]: _task_queue of q
  active,           \* active[q]: running_tasks of q
  \* the event loop
  ready,            \* callbacks queued with call_soon
  phase,            \* where _schedule_tasks is; "loop" outside it
  changed,          \* state_change of the current iteration
  wakeup,           \* _schedule_merge_wakeup_task is pending
  mainExit,         \* _main_exit is done
  \* termination and the job server
  terminated,       \* _terminated
  terminatedTasks,  \* _terminated_tasks
  signalled,        \* received_signal is not empty
  server,           \* the fifo: "none", "up" or "dead" (_jobserver_fd is None)
  implicit,         \* _jobserver_has_implicit_token
  pool,             \* tokens lying in the fifo
  token,            \* token[p]: _jobserver_tokens entry of p's build task
  reader,           \* add_reader: "off", "on", or "stale" once the fd is closed
  \* the disk
  resume,           \* mtimedb["resume"]["mergelist"]
  installed         \* packages that are really merged

planVars  == <<pkgQueue, completed, failed, unsatisfied, returnEarly>>
jobVars   == <<jobs, running>>
waitVars  == <<waitQueue, waitScheduled, flush, flushed>>
taskVars  == <<st, listeners, queue, active>>
loopVars  == <<ready, phase, changed, wakeup, mainExit>>
termVars  == <<terminated, terminatedTasks, signalled>>
tokenVars == <<server, implicit, pool, token, reader>>
diskVars  == <<resume, installed, failedAll>>

vars == <<planVars, jobVars, waitVars, taskVars, loopVars, termVars, tokenVars,
          diskVars>>

-----------------------------------------------------------------------------
(* Tasks, queues and callbacks                                             *)

Build(p) == <<"build", p>>   \* MergeListItem
Merge(p) == <<"merge", p>>   \* PackageMerge
Setup(p) == <<"setup", p>>   \* the pkg_setup EbuildPhase of a build

Tasks == {"build", "merge", "setup"} \X Pkgs

Queues == {"jobs", "merge", "ebuild_locks"}

\* _set_graph_config: without parallel jobs the graph is dropped, and with it
\* the knowledge of which packages are system packages.
HasGraph == ~NoDeps /\ MaxJobs >= 2
IsSystem(p) == HasGraph /\ p \in SystemPkgs
SystemMerges == {Merge(p) : p \in {x \in Pkgs : IsSystem(x)}}

\* _set_max_jobs.
MergeMax == IF ParallelInstall THEN MaxJobs ELSE 1
QueueMax(q) == CASE q = "jobs"         -> MaxJobs
                 [] q = "merge"        -> MergeMax
                 [] q = "ebuild_locks" -> 1

\* _schedule_setup: setup phases share the merge queue, unless it is parallel.
SetupQueue == IF MergeMax > 1 /\ EbuildLocks THEN "ebuild_locks" ELSE "merge"

QueueOf(t) == CASE t[1] = "build" -> "jobs"
                [] t[1] = "merge" -> "merge"
                [] t[1] = "setup" -> SetupQueue

Busy(q) == queue[q] # <<>> \/ active[q] # {}

Kinds == {"queue_exit", "build_exit", "merge_exit", "wait_exit", "setup_exit",
          "merge_started", "term", "stop"}

\* A callback is the kind of function and the task it is about; "term" and
\* "stop" are about no task.
Callbacks == Kinds \X (Tasks \cup {<<>>})

Notify(t) == [i \in 1..Len(listeners[t]) |-> <<listeners[t][i], t>>]

\* The sequence s without its i-th element (list.remove).
WithoutAt(s, i) == [j \in 1..(Len(s) - 1) |-> IF j < i THEN s[j] ELSE s[j + 1]]

Alive(t) == st[t] = "run"

TypeOK ==
  /\ pkgQueue \in Seq(Pkgs)
  /\ completed \subseteq Pkgs /\ failed \subseteq Pkgs
  /\ failedAll \subseteq Pkgs /\ unsatisfied \subseteq Pkgs
  /\ resume \subseteq Pkgs /\ installed \subseteq Pkgs
  /\ returnEarly \in BOOLEAN
  /\ jobs \in Nat
  /\ running \subseteq Tasks
  /\ waitQueue \in Seq(Pkgs) /\ waitScheduled \subseteq Pkgs
  /\ st \in [Tasks -> {"none", "wait", "queued", "run", "ok", "fail"}]
  /\ listeners \in [Tasks -> Seq(Kinds)]
  /\ queue \in [Queues -> Seq(Tasks)]
  /\ active \in [Queues -> SUBSET Tasks]
  /\ ready \in Seq(Callbacks)
  /\ phase \in {"start", "loop", "wait", "transfer", "imp", "tail", "exited",
                "done", "raised"}
  /\ {flush, flushed, changed, wakeup, mainExit, terminated, terminatedTasks,
      signalled, implicit} \subseteq BOOLEAN
  /\ server \in {"none", "up", "dead"}
  /\ pool \in 0..Tokens
  /\ token \in [Pkgs -> {"none", "empty", "token"}]
  /\ reader \in {"off", "on", "stale"}

-----------------------------------------------------------------------------
(* SequentialTaskQueue                                                     *)

\* schedule(): the loop, with dq queued and act running, starts n tasks.
\* Starting a task adds the queue's own exit listener; it also calls the start
\* listeners, which only merges of system packages have.  The listeners h are
\* then added to task x by the caller of add(), after schedule() has returned.
Pump(q, dq, act, s, ls, rd, x, h) ==
  \E n \in 0..Len(dq) :
    LET starts == SubSeq(dq, 1, n)
        l == [t \in Tasks |-> IF t \in InSeq(starts)
                              THEN Append(ls[t], "queue_exit") ELSE ls[t]]
        system == Only(starts, SystemMerges)
    IN  /\ Runs(QueueMax(q), dq, act, n)
        /\ queue' = [queue EXCEPT ![q] = SubSeq(dq, n + 1, Len(dq))]
        /\ active' = [active EXCEPT ![q] = act \cup InSeq(starts)]
        /\ st' = [t \in Tasks |-> IF t \in InSeq(starts) THEN "run" ELSE s[t]]
        /\ listeners' = [l EXCEPT ![x] = @ \o h]
        /\ ready' = rd \o [i \in 1..Len(system) |-> <<"merge_started", system[i]>>]

\* add(t) followed by t.addExitListener(h).
Add(t, h, rd) ==
  LET q == QueueOf(t)
  IN  Pump(q, Append(queue[q], t), active[q], [st EXCEPT ![t] = "queued"],
           listeners, rd, t, <<h>>)

\* addFront(t) followed by t.addExitListener(h).
AddFront(t, h, rd) ==
  LET q == QueueOf(t)
  IN  Pump(q, <<t>> \o queue[q], active[q], [st EXCEPT ![t] = "queued"],
           listeners, rd, t, <<h>>)

-----------------------------------------------------------------------------
(* The environment: builds, merges, signals, other users of the job tokens *)

\* Nothing runs before _main_loop, and nothing once it has returned.
InLoop == phase = "loop"
Up == phase \notin {"start", "exited", "done", "raised"}

\* A task ends, successfully or not: its exit listeners are called soon.  A
\* build only ends well after its setup phase has, and never while that phase
\* runs or waits in its queue; a merge process that ends well has installed
\* the package (or removed it).
EndTask(t, result) ==
  /\ Up
  /\ Alive(t)
  /\ t[1] = "build" =>
       /\ st[Setup(t[2])] \notin {"queued", "run"}
       /\ result = "ok" => st[Setup(t[2])] = "ok"
  /\ st' = [st EXCEPT ![t] = result]
  /\ ready' = ready \o Notify(t)
  /\ listeners' = [listeners EXCEPT ![t] = <<>>]
  /\ installed' = IF t[1] = "merge" /\ result = "ok"
                  THEN installed \cup {t[2]} ELSE installed
  /\ UNCHANGED <<planVars, jobVars, waitVars, queue, active, phase, changed,
                 wakeup, mainExit, termVars, tokenVars, resume, failedAll>>

\* A build reaches its pkg_setup phase: _schedule_setup queues the phase, whose
\* exit listener is already there, and calls _schedule.
ScheduleSetup(p) ==
  LET t == Setup(p)
      q == SetupQueue
  IN  /\ InLoop
      /\ Alive(Build(p)) /\ st[t] = "none"
      /\ Pump(q, Append(queue[q], t), active[q], [st EXCEPT ![t] = "queued"],
              [listeners EXCEPT ![t] = <<"setup_exit">>], ready, t, <<>>)
      /\ phase' = "wait"
      /\ UNCHANGED <<planVars, jobVars, waitVars, changed, wakeup, mainExit,
                     termVars, tokenVars, diskVars>>

\* terminate(): the first call queues _termination_check.
TermCallback == <<"term", <<>>>>
Terminated(rd) ==
  IF terminated' /\ ~terminated THEN Append(rd, TermCallback) ELSE rd

\* The signal handler of merge(), at any point of the program.
Signal ==
  /\ MayTerminate /\ ~signalled /\ Up
  /\ signalled' = TRUE
  /\ terminated' = TRUE
  /\ ready' = Terminated(ready)
  /\ UNCHANGED <<planVars, jobVars, waitVars, taskVars, phase, changed, wakeup,
                 mainExit, terminatedTasks, tokenVars, diskVars>>

\* SIGUSR2.
Flush ==
  /\ MayFlush /\ ~flush /\ Up
  /\ flush' = TRUE
  /\ flushed' = TRUE
  /\ UNCHANGED <<planVars, jobVars, waitQueue, waitScheduled, taskVars, loopVars,
                 termVars, tokenVars, diskVars>>

\* Another client of the job server takes or returns a token.
Held == {p \in Pkgs : token[p] = "token"}
OtherClient ==
  /\ server = "up"
  /\ pool' \in 0..(Tokens - Cardinality(Held))
  /\ pool' # pool
  /\ UNCHANGED <<planVars, jobVars, waitVars, taskVars, loopVars, termVars,
                 server, implicit, token, reader, diskVars>>

\* _unblock_jobs: the fifo has become readable.
UnblockJobs ==
  /\ InLoop /\ reader = "on" /\ pool > 0
  /\ reader' = "off"
  /\ phase' = "wait"
  /\ UNCHANGED <<planVars, jobVars, waitVars, taskVars, ready, changed, wakeup,
                 mainExit, termVars, server, implicit, pool, token, diskVars>>

\* _schedule_merge_wakeup: the coroutine that waits for the merge queue to
\* become empty has seen it empty.
MergeWakeup ==
  /\ InLoop /\ wakeup /\ ~Busy("merge")
  /\ wakeup' = FALSE
  /\ phase' = IF mainExit THEN "loop" ELSE "wait"
  /\ UNCHANGED <<planVars, jobVars, waitVars, taskVars, ready, changed, mainExit,
                 termVars, tokenVars, diskVars>>

-----------------------------------------------------------------------------
(* The callbacks                                                           *)

\* The jobserver's fd is closed after an I/O error, and emerge terminates.
JobserverFails ==
  /\ JobserverMayFail
  /\ server' = "dead"
  /\ reader' = IF reader = "on" THEN "stale" ELSE reader
  /\ terminated' = TRUE
  /\ UNCHANGED <<implicit, pool>>

\* The tokens that go back to the fifo; the empty one is the implicit slot.
MutReturned(ps) == {p \in ps : token[p] # "none"}
Returned(ps) == {p \in ps : token[p] = "token"}

\* _release_job_token for the build tasks of ps.
ReleaseTokens(ps) ==
  LET back == Returned(ps)
  IN  /\ token' = [p \in Pkgs |-> IF p \in ps THEN "none" ELSE token[p]]
      /\ \/ /\ server = "up"
            /\ implicit' = (implicit \/ \E p \in ps : token[p] = "empty")
            /\ pool' = pool + Cardinality(back)
            /\ UNCHANGED <<server, reader, terminated>>
         \/ server = "up" /\ back # {} /\ JobserverFails
         \/ server # "up" /\ UNCHANGED <<server, implicit, pool, reader, terminated>>

\* A build that has ended well is merged, unless _terminate_tasks has run.
MutMergeable(p) == st[Build(p)] = "ok"
Mergeable(p) == st[Build(p)] = "ok" /\ ~terminatedTasks

\* A failure is recorded, and whatever the result the build does not count as a
\* job any more.
MutBuildOver(p) ==
  /\ failed' = IF st[Build(p)] = "fail" THEN failed \cup {p} ELSE failed
  /\ jobs' = IF st[Build(p)] = "fail" THEN jobs ELSE jobs - 1
BuildOver(p) ==
  /\ failed' = IF st[Build(p)] = "fail" THEN failed \cup {p} ELSE failed
  /\ jobs' = jobs - 1

\* _build_exit (and _extract_exit).  A good build becomes a merge, which waits
\* for the end of all builds or goes to the merge queue; after termination it
\* is dropped.
BuildExit(p) ==
  LET build == Build(p)
      m == Merge(p)
      good == Mergeable(p)
      wait == MergeWait \/ IsSystem(p)
  IN  /\ ReleaseTokens({p})
      /\ running' = (running \ {build}) \cup (IF good THEN {m} ELSE {})
      /\ BuildOver(p)
      /\ phase' = "wait"
      /\ IF good /\ ~wait
         THEN /\ Add(m, "merge_exit", Terminated(Tail(ready)))
              /\ UNCHANGED waitQueue
         ELSE /\ ready' = Terminated(Tail(ready))
              /\ waitQueue' = IF good THEN Append(waitQueue, p) ELSE waitQueue
              /\ st' = IF good THEN [st EXCEPT ![m] = "wait"] ELSE st
              /\ UNCHANGED <<listeners, queue, active>>
      /\ UNCHANGED <<pkgQueue, completed, unsatisfied, returnEarly, waitScheduled,
                     flush, flushed, changed, wakeup, mainExit, terminatedTasks,
                     signalled, diskVars>>

\* _task_complete and the removal of a replaced package's uninstall task.
Complete(p) ==
  LET done == {p} \cup (IF HasGraph THEN Replaces[p] ELSE {})
  IN  /\ completed' = completed \cup done
      /\ unsatisfied' = unsatisfied \ done
      /\ returnEarly' = FALSE
      /\ pkgQueue' = Only(pkgQueue, Pkgs \ done)

\* The resume list is committed after each merge of a package.
MutCommitted(p) == resume \ {p}
Committed(p) ==
  IF st[Merge(p)] = "ok" /\ p \notin Uninstalls THEN resume \ {p} ELSE resume

\* _merge_exit with _do_merge_exit, called through _merge_wait_exit_handler
\* when the merge had to wait.  A package that is merged although its
\* pkg_postinst has failed is reported at the end, and nothing more.
MergeExit(p, waited) ==
  LET m == Merge(p)
  IN  /\ waitScheduled' = IF waited THEN waitScheduled \ {p} ELSE waitScheduled
      /\ running' = running \ {m}
      /\ \/ /\ st[m] = "fail"
            /\ failed' = failed \cup {p}
            /\ UNCHANGED <<pkgQueue, completed, unsatisfied, returnEarly, failedAll>>
         \/ /\ st[m] = "ok"
            /\ Complete(p)
            /\ \/ PostinstMayFail /\ failedAll' = failedAll \cup {p}
               \/ UNCHANGED failedAll
            /\ UNCHANGED failed
      /\ resume' = Committed(p)
      /\ ready' = Tail(ready)
      /\ phase' = "wait"
      /\ UNCHANGED <<jobs, waitQueue, flush, flushed, taskVars, changed, wakeup, mainExit,
                     termVars, tokenVars, installed>>

\* _system_merge_started: the fragile situation of a system package that is
\* installed before all its runtime dependencies.
SystemMergeStarted(p) ==
  /\ unsatisfied' = unsatisfied \cup
       {d \in RuntimeDeps[p] \ Uninstalls : d # p /\ d \notin completed}
  /\ ready' = Tail(ready)
  /\ UNCHANGED <<pkgQueue, completed, failed, returnEarly, jobVars, waitVars,
                 taskVars, phase, changed, wakeup, mainExit, termVars, tokenVars,
                 diskVars>>

\* _termination_check with _terminate_tasks: running tasks are asked to stop
\* (the environment ends them), the others leave _running_tasks, and what the
\* queues hold is cancelled, which calls its exit listeners.
TerminationCheck ==
  LET dead == {t \in running : ~Alive(t)}
      cancelled == queue["merge"] \o queue["jobs"] \o queue["ebuild_locks"]
      hurt == InSeq(cancelled)
  IN  /\ terminatedTasks' = TRUE
      /\ ReleaseTokens({p \in Pkgs : Build(p) \in dead})
      /\ running' = running \ dead
      /\ st' = [t \in Tasks |-> IF t \in hurt THEN "fail" ELSE st[t]]
      /\ queue' = [q \in Queues |-> <<>>]
      /\ ready' = Terminated(Tail(ready) \o
                    [i \in 1..Len(cancelled) |->
                       <<listeners[cancelled[i]][1], cancelled[i]>>])
      /\ listeners' = [t \in Tasks |-> IF t \in hurt THEN <<>> ELSE listeners[t]]
      /\ UNCHANGED <<planVars, jobs, waitVars, active, phase, changed, wakeup,
                     mainExit, signalled, diskVars>>

\* _main_exit is done: run_until_complete returns.
Stop ==
  /\ phase' = "exited"
  /\ ready' = Tail(ready)
  /\ UNCHANGED <<planVars, jobVars, waitVars, taskVars, changed, wakeup, mainExit,
                 termVars, tokenVars, diskVars>>

\* _task_exit of the task queue, which starts the next task.
MutQueueExit(t) ==
  /\ active' = [active EXCEPT ![QueueOf(t)] = @ \ {t}]
  /\ ready' = Tail(ready)
  /\ UNCHANGED <<planVars, jobVars, waitVars, st, listeners, queue, phase, changed,
                 wakeup, mainExit, termVars, tokenVars, diskVars>>
QueueExit(t) ==
  LET q == QueueOf(t)
  IN  /\ Pump(q, queue[q], active[q] \ {t}, st, listeners, Tail(ready), t, <<>>)
      /\ UNCHANGED <<planVars, jobVars, waitVars, phase, changed, wakeup,
                     mainExit, termVars, tokenVars, diskVars>>

\* EbuildExecuter._setup_exit: nothing the scheduler sees.
SetupExit ==
  /\ ready' = Tail(ready)
  /\ UNCHANGED <<planVars, jobVars, waitVars, taskVars, phase, changed, wakeup,
                 mainExit, termVars, tokenVars, diskVars>>

\* The event loop calls the first callback of its queue.
RunCallback ==
  /\ InLoop /\ ready # <<>>
  /\ LET kind == Head(ready)[1]
         t    == Head(ready)[2]
     IN  \/ kind = "queue_exit" /\ QueueExit(t)
         \/ kind = "build_exit" /\ BuildExit(t[2])
         \/ kind = "merge_exit" /\ MergeExit(t[2], FALSE)
         \/ kind = "wait_exit" /\ MergeExit(t[2], TRUE)
         \/ kind = "setup_exit" /\ SetupExit
         \/ kind = "merge_started" /\ SystemMergeStarted(t[2])
         \/ kind = "term" /\ TerminationCheck
         \/ kind = "stop" /\ Stop

-----------------------------------------------------------------------------
(* _schedule_tasks                                                         *)

MutKeepScheduling == pkgQueue # <<>> /\ failed = {}
KeepScheduling == ~terminated /\ pkgQueue # <<>> /\ failed = {}

\* The top of the loop: with no builds and no merges left, or on request, one
\* round of waiting merges goes to the merge queue.
ScheduleTasks ==
  LET go == waitQueue # <<>> /\ (flush \/ (jobs = 0 /\ ~Busy("merge")))
  IN  /\ phase = "wait"
      /\ changed' = FALSE
      /\ flush' = IF go THEN FALSE ELSE flush
      /\ phase' = IF go THEN "transfer" ELSE "imp"
      /\ UNCHANGED <<planVars, jobVars, waitQueue, waitScheduled, flushed, taskVars,
                     ready, wakeup, mainExit, termVars, tokenVars, diskVars>>

\* System packages are merged alone: a batch of waiting merges ends before one
\* when the merge queue is not empty (and after one).
MutBatchEnds == waitQueue = <<>>
BatchEnds == waitQueue = <<>> \/ (Busy("merge") /\ IsSystem(Head(waitQueue)))

\* One iteration of the inner loop.
Transfer ==
  /\ phase = "transfer"
  /\ IF BatchEnds
     THEN /\ phase' = "imp"
          /\ UNCHANGED <<waitVars, taskVars, ready, changed>>
     ELSE LET p == Head(waitQueue)
          IN  /\ waitQueue' = Tail(waitQueue)
              /\ waitScheduled' = waitScheduled \cup {p}
              /\ Add(Merge(p), "wait_exit", ready)
              /\ changed' = TRUE
              /\ phase' = IF IsSystem(p) THEN "imp" ELSE "transfer"
              /\ UNCHANGED <<flush, flushed>>
  /\ UNCHANGED <<planVars, jobVars, wakeup, mainExit, termVars, tokenVars,
                 diskVars>>

\* _can_add_job and _job_delay may say no, for lack of space in PORTAGE_TMPDIR
\* or because of the load, but never when nothing is under way.
MayAddJob == ~terminatedTasks /\ jobs < MaxJobs
MayRefuseJob == jobs > 0 \/ waitQueue # <<>>

\* No build is started while a merge that had to wait is on its way, nor beside
\* another build while the system is in a fragile state.
MutNoMergeCheck == returnEarly \/ (jobs > 0 /\ unsatisfied # {})
MutNoSystemCheck == returnEarly \/ waitScheduled # {}
SchedulingBlocked == returnEarly \/ waitScheduled # {} \/ (jobs > 0 /\ unsatisfied # {})

\* _dependent_on_scheduled_merges: some deep dependency of p, other than the
\* packages that come later anyway, is not merged yet.  The dependencies of an
\* uninstall are not followed.
DeepDeps(p) ==
  LET Closed(S) == /\ Deps[p] \subseteq S
                   /\ \A n \in S \ Uninstalls : Deps[n] \subseteq S \cup {p}
  IN  {n \in Pkgs \ {p} : \A S \in SUBSET Pkgs : Closed(S) => n \in S}

MutDependent(p, later) ==
  \E n \in DeepDeps(p) :
    /\ n \notin completed \cup later
    /\ st[Build(n)] # "ok"
Dependent(p, later) ==
  \E n \in DeepDeps(p) :
    /\ n \notin completed \cup later
    /\ n \notin Uninstalls \/ n \in Deps[p]

\* _choose_pkg: the index in pkgQueue of the package to start, 0 for none.
FirstIndex(S) == IF S = {} THEN 0 ELSE CHOOSE i \in S : \A j \in S : i <= j

Chosen ==
  LET all   == 1..Len(pkgQueue)
      unins == {i \in all : pkgQueue[i] \in Uninstalls /\ Deps[pkgQueue[i]] = {}}
      indep == {i \in all : ~Dependent(pkgQueue[i],
                                {pkgQueue[j] : j \in (i + 1)..Len(pkgQueue)})}
  IN  CASE ~HasGraph -> IF running # {} /\ ~(NoDeps /\ MaxJobs > 1) THEN 0 ELSE 1
        [] HasGraph /\ running = {} -> 1
        [] HasGraph /\ running # {} /\ unins # {} -> FirstIndex(unins)
        [] OTHER -> FirstIndex(indep)

\* _schedule_tasks_imp returns: there is nothing to do, or not now.
StopScheduling ==
  /\ phase = "imp"
  /\ ~KeepScheduling \/ SchedulingBlocked \/ ~MayAddJob \/ MayRefuseJob
  /\ phase' = "tail"
  /\ UNCHANGED <<planVars, jobVars, waitVars, taskVars, ready, changed, wakeup,
                 mainExit, termVars, tokenVars, diskVars>>

MayChoose == phase = "imp" /\ KeepScheduling /\ ~SchedulingBlocked /\ MayAddJob

\* Every package depends on something under way: _choose_pkg is not asked again
\* until a merge has completed.
ChooseNone ==
  /\ MayChoose /\ Chosen = 0
  /\ returnEarly' = TRUE
  /\ phase' = "tail"
  /\ UNCHANGED <<pkgQueue, completed, failed, unsatisfied, jobVars, waitVars,
                 taskVars, ready, changed, wakeup, mainExit, termVars, tokenVars,
                 diskVars>>

CanStart == MayChoose /\ Chosen # 0

\* An uninstall goes to the front of the merge queue.
StartUninstall ==
  /\ CanStart
  /\ LET p == pkgQueue[Chosen]
     IN  /\ p \in Uninstalls
         /\ pkgQueue' = WithoutAt(pkgQueue, Chosen)
         /\ running' = running \cup {Merge(p)}
         /\ AddFront(Merge(p), "merge_exit", ready)
  /\ changed' = TRUE
  /\ UNCHANGED <<completed, failed, unsatisfied, returnEarly, jobs, waitVars, phase,
                 wakeup, mainExit, termVars, tokenVars, diskVars>>

\* _acquire_job_token for p's build task.
AcquireToken(p) ==
  \/ /\ server # "up" /\ token' = [token EXCEPT ![p] = "empty"]
     /\ UNCHANGED <<server, implicit, pool, reader, terminated>>
  \/ /\ server = "up" /\ implicit
     /\ token' = [token EXCEPT ![p] = "empty"]
     /\ implicit' = FALSE
     /\ UNCHANGED <<server, pool, reader, terminated>>
  \/ /\ server = "up" /\ ~implicit /\ pool > 0
     /\ token' = [token EXCEPT ![p] = "token"]
     /\ pool' = pool - 1
     /\ UNCHANGED <<server, implicit, reader, terminated>>
  \/ /\ server = "up" /\ ~implicit
     /\ token' = [token EXCEPT ![p] = "empty"]
     /\ JobserverFails

\* A build is started.
StartBuild ==
  /\ CanStart
  /\ LET p == pkgQueue[Chosen]
     IN  /\ p \notin Uninstalls
         /\ AcquireToken(p)
         /\ pkgQueue' = WithoutAt(pkgQueue, Chosen)
         /\ jobs' = jobs + 1
         /\ running' = running \cup {Build(p)}
         /\ Add(Build(p), "build_exit", Terminated(ready))
  /\ changed' = TRUE
  /\ UNCHANGED <<completed, failed, unsatisfied, returnEarly, waitVars, phase,
                 wakeup, mainExit, terminatedTasks, signalled, diskVars>>

\* No job token is available: the package becomes the first of the queue, and
\* the fifo is watched.
NoToken ==
  /\ CanStart
  /\ pkgQueue[Chosen] \notin Uninstalls
  /\ server = "up" /\ ~implicit /\ pool = 0
  /\ pkgQueue' = <<pkgQueue[Chosen]>> \o WithoutAt(pkgQueue, Chosen)
  /\ reader' = "on"
  /\ phase' = "tail"
  /\ UNCHANGED <<completed, failed, unsatisfied, returnEarly, jobVars, waitVars,
                 taskVars, ready, changed, wakeup, mainExit, termVars, server,
                 implicit, pool, token, diskVars>>

\* A merge queue that is not empty yet is waited for: its last callbacks may come
\* after the last call of _schedule.
MutNeedsWakeup == FALSE
NeedsWakeup == Busy("merge")

\* The main loop may end.
MutMayExit == ~KeepScheduling /\ ~mainExit
MayExit == running = {} /\ ~KeepScheduling /\ ~mainExit

\* The end of an iteration, and of _schedule_tasks when nothing has changed.
EndIteration ==
  LET again == changed \/ (waitQueue # <<>> /\ jobs = 0 /\ ~Busy("merge"))
      exit  == ~again /\ MayExit
  IN  /\ phase = "tail"
      /\ phase' = IF again THEN "wait" ELSE "loop"
      /\ mainExit' = (mainExit \/ exit)
      /\ ready' = IF exit THEN Append(ready, <<"stop", <<>>>>) ELSE ready
      /\ wakeup' = (wakeup \/ (~again /\ NeedsWakeup))
      /\ UNCHANGED <<planVars, jobVars, waitVars, taskVars, changed, termVars,
                     tokenVars, diskVars>>

-----------------------------------------------------------------------------
(* merge(): one run of the main loop after the other                       *)

Init ==
  /\ pkgQueue = <<>> /\ completed = {} /\ failed = {} /\ unsatisfied = {}
  /\ returnEarly = FALSE
  /\ jobs = 0 /\ running = {}
  /\ waitQueue = <<>> /\ waitScheduled = {} /\ flush = FALSE /\ flushed = FALSE
  /\ st = [t \in Tasks |-> "none"]
  /\ listeners = [t \in Tasks |-> <<>>]
  /\ queue = [q \in Queues |-> <<>>]
  /\ active = [q \in Queues |-> {}]
  /\ ready = <<>> /\ phase = "start" /\ changed = FALSE
  /\ wakeup = FALSE /\ mainExit = FALSE
  /\ terminated = FALSE /\ terminatedTasks = FALSE /\ signalled = FALSE
  /\ server = "none" /\ implicit = FALSE /\ pool = Tokens
  /\ token = [p \in Pkgs |-> "none"]
  /\ reader = "off"
  /\ resume = {MergeList[i] : i \in 1..Len(MergeList)} \ Uninstalls
  /\ installed = {} /\ failedAll = {}

\* _add_packages and _main_loop up to run_until_complete: the merge list is
\* what the resume list holds, in the order of the merge list.  Uninstalls are
\* only part of the first one.
StartLoop(list) ==
  /\ pkgQueue' = list
  /\ mainExit' = FALSE
  /\ phase' = "wait"
  /\ implicit' = (Jobserver /\ HasImplicit)
  /\ \/ server' = (IF Jobserver THEN "up" ELSE "none") /\ UNCHANGED <<ready, terminated>>
     \/ /\ Jobserver /\ JobserverMayFail
        /\ server' = "dead"
        /\ terminated' = TRUE
        /\ ready' = Terminated(ready)

Start ==
  /\ phase = "start"
  /\ StartLoop(MergeList)
  /\ UNCHANGED <<completed, failed, unsatisfied, returnEarly, jobVars, waitVars,
                 taskVars, changed, wakeup, terminatedTasks, signalled, pool,
                 token, reader, diskVars>>

\* _main_loop_cleanup, then the exit of merge() or the test for --keep-going.
Cleanup ==
  /\ pkgQueue' = <<>> /\ completed' = {} /\ unsatisfied' = {}
  /\ returnEarly' = FALSE
  /\ wakeup' = FALSE
  /\ reader' = IF reader = "on" THEN "stale" ELSE reader

\* merge() is over: signalled, all well, or nothing more to try.
Over == \/ signalled \/ failed = {} \/ ~KeepGoing \/ resume = {}

Finish ==
  /\ phase = "exited" /\ Over
  /\ Cleanup
  /\ server' = "none"
  /\ phase' = "done"
  /\ failedAll' = failedAll \cup failed
  /\ failed' = {}
  /\ UNCHANGED <<jobVars, waitVars, taskVars, ready, changed, mainExit, termVars,
                 implicit, pool, token, resume, installed>>

\* mergelist.remove(list(failed_pkg.pkg)) raises ValueError for a package that
\* is not in the resume list.
RemoveRaises ==
  /\ phase = "exited" /\ ~Over
  /\ ~(failed \subseteq resume)
  /\ Cleanup
  /\ server' = "none"
  /\ phase' = "raised"
  /\ UNCHANGED <<failed, jobVars, waitVars, taskVars, ready, changed, mainExit,
                 termVars, implicit, pool, token, diskVars>>

\* _failed_pkgs_all: what the end of merge() reports, and returns FAILURE for.
MutReported(dropped) == failedAll \cup dropped
Reported(dropped) == failedAll \cup failed \cup dropped

\* --keep-going: the failed packages leave the resume list, _calc_resume_list
\* drops those whose dependencies cannot be satisfied any more (the dependency
\* resolver decides which), and the main loop runs again with the rest.  It
\* does not when nothing is left, when the resolver finds no solution, or when
\* the scheduler was terminated.
KeepGoingRound(dropped) ==
  LET rest == (resume \ failed) \ dropped
      todo == Only(MergeList, rest)
  IN  /\ phase = "exited" /\ ~Over
      /\ failed \subseteq resume
      /\ failedAll' = Reported(dropped)
      /\ failed' = {}
      /\ completed' = {} /\ unsatisfied' = {} /\ returnEarly' = FALSE
      /\ wakeup' = FALSE
      /\ resume' = rest
      /\ \/ rest # {} /\ ~terminated /\ StartLoop(todo)
         \/ /\ rest = {} \/ terminated \/ dropped = {}
            /\ pkgQueue' = <<>> /\ phase' = "done" /\ server' = "none"
            /\ UNCHANGED <<mainExit, implicit, ready, terminated>>
      /\ reader' = IF reader = "on" THEN "stale" ELSE reader
      /\ st' = [t \in Tasks |-> "none"]
      /\ UNCHANGED <<jobVars, waitVars, listeners, queue, active, changed,
                     terminatedTasks, signalled, pool, token, installed>>

Terminating == phase \in {"done", "raised"} /\ UNCHANGED vars

Schedule ==
  \/ ScheduleTasks \/ Transfer \/ StopScheduling \/ ChooseNone \/ StartUninstall
  \/ StartBuild \/ NoToken \/ EndIteration

Main ==
  \/ Start \/ Finish \/ RemoveRaises
  \/ \E dropped \in SUBSET (resume \ failed) : KeepGoingRound(dropped)

Env ==
  \/ \E t \in Tasks, result \in {"ok", "fail"} : EndTask(t, result)
  \/ \E p \in Pkgs : ScheduleSetup(p)
  \/ Signal \/ Flush \/ OtherClient \/ UnblockJobs \/ MergeWakeup

Next == Main \/ Schedule \/ RunCallback \/ Env \/ Terminating

Spec == Init /\ [][Next]_vars

\* The process keeps running, and every build, setup and merge process ends.
\* The event loop takes its callbacks in turn, so none that is due again and
\* again waits for ever: the fairness is strong because a pass of _schedule_tasks
\* disables them for a while, and because a token may be gone when it is looked at.
Fairness ==
  /\ WF_vars(Main) /\ WF_vars(Schedule)
  /\ SF_vars(RunCallback) /\ SF_vars(MergeWakeup) /\ SF_vars(UnblockJobs)
  /\ \A t \in Tasks : WF_vars(\E result \in {"ok", "fail"} : EndTask(t, result))

FairSpec == Spec /\ Fairness

-----------------------------------------------------------------------------
(* Properties                                                              *)

\* The builds that have been started and not been reported to _build_exit.
UnderWay == {p \in Pkgs : \/ listeners[Build(p)] # <<>>
                          \/ <<"build_exit", Build(p)>> \in InSeq(ready)}

\* _jobs, which _can_add_job compares with --jobs, is the number of builds
\* under way: no order of exits, failures and cancellations makes it drift.
JobAccounting == jobs = Cardinality(UnderWay) /\ jobs <= MaxJobs

\* The three queues, as TaskQueue specifies them.
JobsQueue == INSTANCE TaskQueue
  WITH Limit <- QueueMax("jobs"), queue <- queue["jobs"], active <- active["jobs"]
MergeQueue == INSTANCE TaskQueue
  WITH Limit <- QueueMax("merge"), queue <- queue["merge"], active <- active["merge"]
LocksQueue == INSTANCE TaskQueue
  WITH Limit <- QueueMax("ebuild_locks"), queue <- queue["ebuild_locks"],
       active <- active["ebuild_locks"]

\* Each of the three queues does what SequentialTaskQueue promises (TaskQueue):
\* whatever the scheduler does between, and in whatever order the exit listeners
\* are called, it only adds new tasks, ends running ones, or clears the queue.
QueuesImplement == JobsQueue!Spec /\ MergeQueue!Spec /\ LocksQueue!Spec

\* "For system packages, always serialize install regardless of
\* parallel-install": never two at once, not even after SIGUSR2.
SystemMergesSerial ==
  LET merging == {p \in Pkgs : IsSystem(p) /\ Alive(Merge(p))}
  IN  \A p, q \in merging : p = q

\* A package that had to wait is merged while no build runs, and a system
\* package while nothing else is merged either (make.conf, merge-wait: "Wait
\* for all builds to complete before merging new packages"), until SIGUSR2 asks
\* for the opposite.
WaitingMergesExclusive ==
  ~flushed => \A p \in waitScheduled, q \in Pkgs :
    Alive(Merge(p)) => /\ ~Alive(Build(q))
                       /\ (IsSystem(p) /\ q # p) => ~Alive(Merge(q))

\* What is merged has the system to itself as far as the settings promise.
MergesApart == SystemMergesSerial /\ WaitingMergesExclusive

Position(p) == FirstIndex({i \in 1..Len(MergeList) : MergeList[i] = p})

\* _choose_pkg "ensures that we don't build anything with deep dependencies
\* that have yet to be merged": what a build needs and the merge list has
\* before it is merged when the build runs, although packages overtake one
\* another and a package without a job token is put back first in the queue.
DepsMergedFirst ==
  \A p \in Pkgs : Alive(Build(p)) =>
    \A d \in DeepDeps(p) \ Uninstalls : Position(d) < Position(p) => d \notin resume

\* While a system package is installed without one of its runtime dependencies
\* that the merge list still holds, no build is started beside another one
\* (_system_merge_started: "we don't execute any unrelated builds"); those that
\* SIGUSR2 has overtaken go on.
Fragile(p) == /\ IsSystem(p) /\ p \in completed
              /\ \E d \in RuntimeDeps[p] \ (Uninstalls \cup {p}) : d \in resume
BuildStartsBesideAnother ==
  \E p, q \in Pkgs : /\ ~Alive(Build(p)) /\ Alive(Build(p))'
                     /\ q # p /\ Alive(Build(q))
FragileSystemBuildsAlone ==
  [][(\E p \in Pkgs : Fragile(p)) => ~BuildStartsBesideAnother]_vars

\* Job tokens: none is lost or returned twice, the implicit slot is used by one
\* build at most, and only builds under way hold one (so that all are returned
\* when the main loop ends).
TokenAccounting ==
  server = "up" =>
    /\ pool + Cardinality(Held) <= Tokens
    /\ Cardinality({p \in Pkgs : token[p] = "empty"}) + (IF implicit THEN 1 ELSE 0)
         = (IF HasImplicit THEN 1 ELSE 0)
    /\ {p \in Pkgs : token[p] # "none"} \subseteq UnderWay

\* Jobs and tokens together.
Accounting == JobAccounting /\ TokenAccounting

\* "--resume still works after being interrupted": at every moment the list
\* holds all packages that are neither merged nor reported as failed, and when
\* merge() returns it holds none that is merged (emerge(1): "A resume list will
\* persist until it has been completed in entirety").
Planned == InSeq(MergeList) \ Uninstalls
ResumeListExact ==
  /\ Planned \subseteq resume \cup installed \cup failedAll
  /\ phase = "done" => resume \cap installed = {}

\* merge() reports success only when all packages have been merged, through any
\* number of --keep-going rounds (os.EX_OK unless _failed_pkgs_all).
SuccessMeansMerged ==
  phase = "done" /\ ~signalled /\ failedAll = {} => Planned \subseteq installed

\* When the main loop ends nothing is left running, queued or waiting, so that
\* emerge may exit, or --keep-going may start over, with clean structures.
ExitIsQuiet ==
  phase \in {"exited", "done", "raised"} =>
    /\ running = {} /\ jobs = 0 /\ waitQueue = <<>> /\ waitScheduled = {}
    /\ \A q \in Queues : ~Busy(q)
    /\ \A t \in Tasks : ~Alive(t)

\* After _terminate_tasks no merge is started any more: a task that has not
\* been started then "will never be started".
MergeStarts == \E p \in Pkgs : ~Alive(Merge(p)) /\ Alive(Merge(p))'
NoMergeAfterTermination == [][terminatedTasks => ~MergeStarts]_vars

\* --keep-going always gets through its rounds ("Continue as much as possible
\* after an error"): it does not raise for the kind of package that has failed.
KeepGoingSurvives == phase # "raised"

\* merge() returns: no order of exits leaves the main loop waiting for a
\* callback that never comes.
Returns == <>(phase \in {"done", "raised"})

\* terminate(): "graceful termination of the scheduler at the earliest
\* opportunity".
TerminationEnds == terminated ~> (phase \in {"done", "raised"})

=============================================================================
