# A TLA+ verification of corepkg

corepkg is a source-based package manager: `emerge` calculates a list of
packages, builds them in parallel, each in child processes, and merges the
results into the live file system, while other instances of `emerge` and the
build helpers work on the same disk.  This directory holds TLA+ models of the
parts of it whose correctness depends on order: the resolver's search and merge
list, the parallel scheduler and its task queues, the chains of builds and the
processes of an ebuild phase, the fetching of distfiles, the merge into the file
system, the databases on disk and the locks that protect them.  TLC checks the
models on small instances, and TLAPS proves theorems about eleven of them for every
value of their constants.

All paths below are relative to the root of the repository; the short name
`Scheduler.py` stands for `lib/_emerge/Scheduler.py`, and `locks.py` for
`lib/corepkg/locks.py`.

Contents

1. The system: inventory
2. The modules and how they correspond to the code
3. What each run checks and shows
4. Bounds
5. Fairness
6. What is proved
7. Where code and documentation disagree
8. What is only model-checked, and what is not modelled
9. Plan

## 1. The system: inventory

### 1.1 Scheduler (`_emerge/Scheduler.py`, `_emerge/PollScheduler.py`)

*State.*  The packages still to start (`_pkg_queue`), the tasks under way
(`_running_tasks`), the number of builds (`_jobs`), the merges that wait for all
builds to end (`_merge_wait_queue`, `_merge_wait_scheduled`,
`_flush_merge_wait_queue`), what has been done (`_completed_tasks`,
`_failed_pkgs`, `_failed_pkgs_all`), the runtime dependencies that a merged
system package still lacks (`_unsatisfied_system_deps`), the memory of
`_choose_pkg` that nothing can be chosen (`_choose_pkg_return_early`), the
termination flags, the job server's descriptor and the tokens held, and on disk
the resume list (`mtimedb["resume"]`).

*Operations.*  `merge()` runs `_merge()` once, or under `--keep-going` once per
round with a shorter list.  `_main_loop` adds the packages, calls `_schedule` and
runs the event loop until `_main_exit` is set.  `_schedule_tasks` moves waiting
merges to the merge queue, starts builds and uninstalls
(`_schedule_tasks_imp`), and sets `_main_exit` once there is nothing left.  The
exit handlers `_build_exit`, `_merge_exit` and `_merge_wait_exit_handler` count,
record, commit the resume list and call `_schedule` again.  `terminate()`, called
by the signal handlers, sets a flag and queues `_termination_check`, which cancels
what runs and what is queued.

*Interactions.*  One thread.  Everything is a callback of an asyncio event loop:
exit listeners through `call_soon`, the descriptor of the job server through
`add_reader`, a coroutine that waits for the merge queue.  Signals come between any
two steps.  The job tokens are shared with other programs.  The child processes
do the work and end whenever they like.

*Hard.*  The order of exit listeners depends on whether a queue could start a
task at once; termination meets tasks in every phase of their life; the main loop
must neither end early nor wait for a callback that never comes; a crash
may come at any time and the resume list on disk must suit.

*Correct when.*  The job count is exact and bounded; a build starts after its
dependencies are merged; waiting merges run while no build runs, and system
packages one at a time; no token is lost; the loop ends, and ends only when
nothing is left; the resume list is exact; success is reported only for success.

### 1.2 Task queues (`_emerge/SequentialTaskQueue.py`)

A deque, a set of running tasks and `max_jobs`.  `add`, `addFront`, `schedule`,
`_task_exit`, `clear`, `wait`.  The scheduler has three that matter here: `jobs`,
`merge` and `ebuild_locks`.  *Hard:* `schedule` is called from three places, and
the queue's own exit listener may come before or after those of its clients.
*Correct when* it never leaves a task behind while there is room, never runs more
than `max_jobs`, and never has a task twice.

### 1.3 Asynchronous tasks (`_emerge/AsynchronousTask.py`, `CompositeTask.py`, `MergeListItem.py`)

Start and exit listeners, `returncode`, `cancelled`.  A task that ends calls its
exit listeners once, in order, through `call_soon`.

### 1.4 fcntl lock files (`lib/corepkg/locks.py`: `lockfile`, `unlockfile`)

*State:* the lock file's name and inode, the kernel's lock table, the
descriptors of every process, and the temporary links by which a process finds out
whether its file still has its name.  *Operations:* `_lockfile_iteration` (open,
chown, a non-blocking and a blocking `lockf`, `_lockfile_was_removed`),
`_lock_manager`, `unlockfile`.  *Hard:* the holder removes the file that others
sleep on; processes die between any two system calls; a process may ask twice.
*Correct when* two processes never hold the lock, a release removes only the
process's own file, no lock is left on a file that nobody works on, and no sleeper
sleeps for ever.

### 1.5 Hard link lock files (`hardlink_lockfile`, `hardlink_is_mine`, `unhardlink_lockfile`)

The fallback for file systems without `lockf`.  *State:* the lock file, one private
link per process, and link counts.  *Hard:* each test is two system calls on names
that others change; a dead process leaves its link.  *Correct* as above.

### 1.6 Chains of builds and build directory locks (`EbuildBuild.py`, `Binpkg.py`, `PackageUninstall.py`, `EbuildMerge.py`, `EbuildBuildDir.py`, `AsynchronousLock.py`)

*State:* for each package the task of its chain that is under way, its return code and
whether it was cancelled; two nested locks, of the category directory and of the build
directory, each tried in `emerge`'s own process first and then waited for by a helper process;
the category directory itself.
*Operations:* every start and every exit handler of a chain, `async_lock`,
`async_unlock`, `_terminate_tasks` as the chain sees it.  *Hard:* failure and
cancellation between the two locks; another `emerge` removes the category directory while
this one is about to use it; two chains of one `emerge` ask for the lock of one category, and
one process cannot exclude itself with `lockf`; every exit handler has early returns that may
forget the lock.  *Correct when* whatever works in a build directory holds its lock, a chain
that ends releases it, and all chains end.

### 1.7 The processes of an ebuild phase (`EbuildPhase.py`, `AbstractEbuildProcess.py`, `SpawnProcess.py`, `EbuildIpcDaemon.py`, `bin/ebuild-ipc.py`)

*State:* the bash process of each step of a phase, the output pipe, the two fifos of the
daemon, the clients and their lock, the exit code that a client has announced.
*Hard:* an ebuild leaves processes behind; bash ends without a word; a client, bash or a
subshell is killed between any two system calls; the daemon reopens its fifo while a
client writes to it.  *Correct when* the verdict is what the ebuild announced, a
client gets the answer to its own question, and the phase ends.

### 1.8 Fetching (`ebuild/fetch.py`, `EbuildFetcher.py`) and bounded scheduling of futures (`AsyncScheduler.py`, `iter_completed.py`)

Fetching keeps distfiles under their final names and under a temporary one, a lock for
each, and a list of locations that is consumed; two fetchers of one `emerge` may want the
same file.  *Correct when* a file that is accepted is good, nothing of the user's is lost,
every location is tried before a file is given up, and every fetch ends.  The bounded
schedulers take futures from a generator, a limited number at a time; the consumer and the
scheduler meet in one map.  *Correct when* every future completes and the consumer ends.

### 1.9 Databases on disk

*Merge into the file system* (`dbapi/vartree.py`): entries, live files, the registry of
preserved libraries, the memory of configuration files, slot locks.  *Hard:* the
administrator and other merges work on the same files; a kill between any two steps; the
removal of the old instance comes after the merge of the new one.  *Correct when* the
database describes the disk and nobody's files are taken away.

*Repository snapshots* (`repository/storage/hardlink_rcu.py`, under the loop over mirrors of
`sync/modules/rsync/rsync.py`): snapshot directories, two links, and a timestamp in each
snapshot.  *Hard:* a crash between two renames; collection of snapshots in use; what several
attempts with several mirrors leave in one update.  *Correct when* readers always see a whole
snapshot, never an earlier one, and keep the ones they use.

*Binary packages* (`dbapi/bintree.py`): files and an index, under several processes.
*Hard:* the index is locked, the files are not.  *Correct when* the index tells what the
directory holds and no build is overwritten.

### 1.10 Resolver (`depgraph.py`, `resolver/`)

*State:* the tracker of packages with its caches and indexes; the graph and its masks; the
open nodes of the backtracking search; the graph from which the merge list is taken.
*Hard:* answers are cached while packages are added and taken back; choices made early
are stale later; the ordering loosens its criteria and starts over.  *Correct when* caches
answer what is true, a successful calculation leaves a system that works, and the list can be
carried out in its order.

### 1.11 The other components

| Component | State and operations | Hard behaviour | Correct when |
|---|---|---|---|
| Clean-up of stale links, `hardlock_cleanup` | all links in a directory; lists, locks, removes | removes links of processes in the middle of an attempt | a held lock survives it |
| Files moved into place, `util/movefile.py`, `util/__init__.py` | a file and its temporary copy | a crash between copy and rename | the old or the new contents |
| Resume and mtime database, `util/mtimedb.py` | one file | as above | as above |
| Dependency expressions, `dep/` | none (pure) | nesting, USE conditionals | agree with the specification |
| Version comparison, `versions.py` | none (pure) | suffixes, leading zeros | a total order |
| Package graph, `util/digraph.py` | nodes and edges | priorities | edges and inverse edges agree |
| Package sets, `_sets/` | the world file | concurrent changes | no change is lost |
| Configuration and profiles, `package/ebuild/config.py` | stacked settings | order of layers | reproducible |
| Metadata cache, `cache/` | key-value files | concurrent readers | a complete entry or none |
| Synchronisation, `sync/` | repositories | failure of an external tool | a failed sync changes nothing |
| Package moves, reports, mirror and maintenance tools, manifests, shell helpers | see the source | mostly sequential | see the source |

## 2. The modules and how they correspond to the code

| Module | Models |
|---|---|
| `QueueLoop` | the loop of `SequentialTaskQueue.schedule`: how many queued tasks one call may start; and `Only`, the filter that several modules use |
| `TaskQueue`, `TaskQueueProofs` | abstract specification of a `SequentialTaskQueue`, and its theorems |
| `Scheduler`, `SchedulerProofs` | the scheduler with its three queues, tasks, event loop, job server, signals and resume list |
| `HardlinkLock`, `HardlinkLockProofs` | the hard link lock |
| `FcntlLock`, `FcntlLockProofs` | the fcntl lock |
| `PackageBuild`, `PackageBuildProofs` | chains of builds, binary packages and uninstalls with their build directories |
| `EbuildProcess`, `PackageBuildProofs` | one phase of an ebuild: bash processes, daemon and clients |
| `Fetch`, `FetchProofs` | the fetchers of distfiles |
| `IterGather`, `TaskQueueProofs` | `iter_gather`, `async_iter_completed` and the `TaskScheduler` under them |
| `Dblink` | merges into the live file system |
| `HardlinkRCU`, `StoreProofs` | repository snapshots |
| `BinTree`, `StoreProofs` | `$PKGDIR` and its index |
| `PackageTracker`, `PackageTrackerProofs` | the packages of a calculation with their caches |
| `Resolver` | the choice of packages and the backtracking search |
| `DepPriority`, `MergeOrder` | priorities of dependencies, and the order of the merge list |
| `MC_*` | instances for TLC |

`Scheduler` composes the scheduler, its queues and the tasks; its three queues
implement `TaskQueue` (`QueuesImplement`, with the refinement mapping
`queue[q]`, `active[q]`, `QueueMax(q)`), and both use the loop of `QueueLoop`.
What other modules take as given is what one of them says: `PackageBuild` and
`BinTree` take locks that exclude other processes and are dropped by the dead, which `FcntlLock` is
about; `EbuildProcess` runs while the build directory is locked, which `PackageBuild`
is about; the merge list of `Scheduler` comes from `MergeOrder`, whose packages come
from `Resolver`, whose tracker is `PackageTracker`.

Modules that share no state are checked together where one run can ask the same kind of
question of all of them: `MC_Builds`, `MC_Fetches` and `MC_Disk` extend several modules, and a
constant variable `part`, chosen in the initial state, says which of them moves.  The
others keep their initial state, so the states of such a run are the disjoint union of those
of its parts, and fairness conditions of a part bind it alone.

### 2.1 Scheduler

The event loop.  `ready` is the FIFO of callbacks that `call_soon` has queued.
`RunCallback` takes the first one and performs the whole handler.  A task's exit
listeners are the sequence `listeners[t]`; `EndTask` appends them to `ready` in that
order.  `Pump`, the loop of `schedule()`, adds the queue's own listener when it
starts a task, so `Add` gets both orders right: a task that the queue starts in
`add()` has the queue's listener first, one that had to wait has its client's
first.

A pass of `_schedule_tasks`.  The pass is one Python call, but a signal handler may
run inside it, so it is several actions, with `phase` as the program counter:
`ScheduleTasks` (top of the loop, the merge-wait test), `Transfer` (one iteration of
the inner loop), then, in phase `imp`, one of `StopScheduling`, `ChooseNone`,
`StartUninstall`, `StartBuild` and `NoToken` (one iteration of
`_schedule_tasks_imp`), and `EndIteration` (the test of `state_change`, the wake-up
task and the exit of the main loop).  No callback runs before `phase` is `"loop"`
again.  Every handler that calls `_schedule` ends with `phase' = "wait"`.

| Action | Code |
|---|---|
| `Start`, `StartLoop` | `merge`, `_add_packages`, `_main_loop` up to `run_until_complete` |
| `ScheduleTasks`, `Transfer`, `EndIteration` | `_schedule_tasks` |
| `StopScheduling`, `ChooseNone`, `StartUninstall`, `StartBuild`, `NoToken` | `_schedule_tasks_imp`, `_choose_pkg`, `_acquire_job_token` |
| `BuildExit` | `_build_exit`, `_deallocate_config`, `_release_job_token` |
| `MergeExit` | `_merge_exit`, `_do_merge_exit`, `_merge_wait_exit_handler`, `_task_complete` |
| `SystemMergeStarted` | `_system_merge_started` |
| `TerminationCheck` | `_termination_check`, `_terminate_tasks`, `SequentialTaskQueue.clear` |
| `QueueExit` | `SequentialTaskQueue._task_exit` and `schedule` |
| `UnblockJobs`, `MergeWakeup` | `_unblock_jobs`, `_schedule_merge_wakeup` |
| `Stop`, `Finish`, `RemoveRaises`, `KeepGoingRound` | the end of `run_until_complete`, `_main_loop_cleanup`, the end of `merge` and its `--keep-going` loop |
| `ScheduleSetup`, `SetupExit` | `_schedule_setup` and the exit of `pkg_setup` |
| `EndTask`, `Signal`, `Flush`, `OtherClient` | the environment: child processes, SIGINT and SIGTERM, SIGUSR2, other users of the job server |

Abstractions.  A package is a model value.  The graph is the constant `Deps` with
the subset `RuntimeDeps`, the list the constant `MergeList`: the scheduler gets both
from the resolver.  A build is one task, whose only inner phase is `pkg_setup`,
because that phase goes through one of the scheduler's queues.  The load average
and the free space in the build directory appear as the freedom of
`StopScheduling` to refuse a job while something is under way, which is what
`_can_add_job` and `_job_delay` do.  The job server's fifo is the number of tokens in
it.  `installed` is a history variable: what child processes have really done.

### 2.2 HardlinkLock

One action per system call, with the names of the calls.  `path` is the inode that
`lockfilename` refers to and `hard[p]` the one that `hardlock_name` of `p` refers to;
`Nlink` is what `st_nlink` shows.  A `Crash` closes the process's descriptor and leaves
its link; a later process with the same number starts from `idle` and meets it.

### 2.3 FcntlLock

Likewise.  `owner[i]` is the kernel's lock table.  A POSIX lock belongs to a
process and an inode: a second request by the same process is granted, and closing
*any* descriptor of the inode drops the lock (`Close`, `Relock`).
`AfterLock` distinguishes the lock files that holders remove from those they keep
(`unlinkfile`).  The kernel, `lockf`, `link`, `stat` and `unlink` are modelled from
what the code relies on.

### 2.4 PackageBuild

One chain is one job `j`: `at[j]` is the task of the chain that is under way, `lk[j]` how far
its lock object is in `async_lock` or `async_unlock`.  `After(m, s)` says which tasks follow
task `s` in a chain of mode `m` (an ebuild, `--buildpkgonly`, `--fetchonly`, a binary
package, a `pkg_pretend` check, an uninstall, or a package that was merged before), and
`AfterFailure` what follows its failure; each
is a table whose entries are the exit handlers.  `TaskSucceeds` and `TaskFails` are those
handlers with all their early returns.

| Action | Code |
|---|---|
| `CatdirLocked`, `CatdirEnsured`, `BuilddirOpened`, `BuilddirLocked`, `CatdirUnlocked`, `LockFails` | `EbuildBuildDir.async_lock` and its callbacks |
| `HelperLocked`; `TryCatdir`, `ReleaseCatdir` within others | `AsynchronousLock._start` with the helper process; `_lock_manager` and `unlockfile` |
| `UnlockBuilddir`, `RelockCatdir`, `RemoveCatdir`, `Unlocked`, `UnlockDropped` | `async_unlock` and its callbacks |
| `StartBuild`, `LockTaken`, `QueueStarts`, `TaskSucceeds`, `TaskFails` | starts and exit handlers of the chains |
| `StartMerge`, `MergeExit` | `EbuildMerge`, and the release of the lock after it |
| `Terminate`, `CancelledExit`, `UnpackCancelled` | cancellation of a chain: its current task, its lock future, its thread |
| `EmergeExits` | `emerge` ends or dies, and its locks go |

`catOwner` and `dirOwner` are the owners of the kernel's locks on the two lock files.  The lock of
a category is asked for by many chains of one `emerge`, and so in the way that `TryCatdir` shows.
The first attempt is made in `emerge`'s own process (`catOpen` says which chains have the lock
file open there).  On a file that another chain of this `emerge` has locked, the kernel grants the
lock again, `_lock_manager` finds the inode among `_open_inodes` and closes the second
descriptor, which drops the first chain's lock; then a helper process waits for what may be free by
now.  A chain whose lock was lost goes on as if it had it.  `dropped` is a history variable: the categories
where that has happened.  The lock of a build directory is asked for by one chain of an
`emerge` at a time, since `_prevent_builddir_collisions` orders the others (`Collides`), so that
`dirOwner` excludes; the one exception is a chain that starts after a `buildpkgonly` which kept its
lock (section 8), which waits.  `BuilddirOpened` and `BuilddirLocked` are apart because the category
may go between the creation of the lock file and its lock.  Phases, fetches and merges are single tasks
that succeed or fail.

### 2.5 EbuildProcess

`role` is the process of the phase that is under way (the ebuild itself, the post-phase
commands, the die hooks, the clean-up after a failure); `bash`, `said` and `client` are the
state, announcement and `ebuild-ipc` client of each of them, `sub` a background subshell that the
ebuild leaves behind, `request` and the fifos what lies between client and daemon.  Client
steps are system calls (`Connect`, `Write`, `CloseFifo`, `Receive`), the daemon's are
callbacks cut at the system calls that the other side can see (`ReadCommand`, `ReopenInput`,
`Answer`, `EndOfFile`, `TryReopen`), and those of `emerge` are callbacks (`ProcessExit`,
`OutputEnds`, `Reaped`, `ExitTimeout`, `Cancel`).  An announced exit code wins over the exit
status; `Verdict` is `_async_waitpid_cb`.

### 2.6 Fetch and IterGather

`Fetch`: one process per fetcher; `fv[p]` holds the local variables of `async_fetch` that its
control depends on.  Actions are the stretches between two calls that others can see: the
checks of a file in place (`FileLock`, `CheckFinal`, `CheckAway`, `LinkToRo`,
`CopyFromMirror`, `CheckDownload`), the loop over locations (`NextUri`, `LayoutLock`,
`LayoutFetched`, `Command`, `CommandFails`, `Downloaded`, `VerifyFailed`, `GiveUp`) and the
end (`UnlockFile`, `Return`, `Term`, `Cancelled`, `FetcherDies`).  A file is what the checks
tell apart: missing, empty, a piece, good, of the right size but wrong, too long.

`IterGather`: `gready` is the FIFO of callbacks; every action is one callback with all the calls it
makes.  `ScheduleTasks` is the loop of `AsyncScheduler._schedule_tasks`, a recursive function
over the tasks that it adds.  `asyncio.wait` is external and modelled callback by callback,
since the order of its callbacks decides.

### 2.7 Dblink

`pc[p]` is the place of the merge (or unmerge) of package `p` in `treewalk`, `unmerge` and
`_merge_contents`; `w[p]` its local variables; `fs` the live files, `vdb` the entries,
`registry` the preserved libraries, `confmem` the memory of `CONFIG_PROTECT`.  Files are merged
and removed one at a time (`MergeFile`, `UnmergeFile`), so that the administrator (`Edit`), other
merges and a kill (`Killed`) come between any two.

| Action | Code |
|---|---|
| `StartMerge`, `CollisionProtect`, `Preinst` | `treewalk` up to the merge of the contents, `_collision_protect` |
| `MergeFile`, `MergeFails`, `ContentsWritten` | `mergeme`, `_protect`, CONTENTS |
| `Preserve`, `PruneReplaced`, `UnmergeFile`, `FilesRemoved`, `DeleteOld`, `CommitEntry` | `_find_libs_to_preserve`, `unmerge` of the replaced instance, `_prune_plib_registry`, the rename of the entry |
| `TakeFromBlockers`, `RegisterPreserved`, `FinalPrune` | the end of `treewalk` |
| `StartUnmerge`, `PruneUnmerged`, `FinishUnmerge` | `unmerge` by itself |

### 2.8 HardlinkRCU

Every system call that others can see is an action: `InitUpdate`, `CopyStarts`, `CopyEnds`,
`MigrateByRename`, `MigrateByCopy`, `AbortUpdate`, `CommitSnapshot`,
`CommitLatest` (remove, symlink, rename), `CommitUser`, `Collect`.  A directory holds
the files of a version of the server, or `Partial`, or `Rest` for what a crash leaves of a
directory under removal, and a `timestamp.chk` that names a version or is not there.

The rsync module above it is the loop of `update`.  `StartSync` reads the timestamp of the repository
into `stamp`, which stays what it is for the whole sync.  `DoRsync` is the probe of a
mirror: it fails, or is out of date; it has what `stamp` says, and ends the loop with `result`
`"current"`; or it has something newer, and `Download` transfers it: whole, not at all, or in
part, and then the timestamp of the repository is removed from the disk.  `AttemptFails` goes to
another attempt or to the end of the loop.  `same` is `local_state_unchanged`, which is false
as soon as one attempt has not been `"current"`; `ready` says that `download_dir` has been asked for,
which calls `init_update` the first time (`AfterInit` is where that returns to).  `Synced` is what
follows the loop: verification, commit or `abort_update`.

`lates` and `skipped` are history variables: the snapshots that have been the latest, and those that
were committed although the last attempt was `"current"`.  `Expire` is the passing of time, by
which snapshots become old enough.

### 2.9 BinTree

`file` and `index` are the disk, `tree[u]` what a process knows and does.  `populate` is
`Walk`, `Scan`, `Relock`, `Rescan`; a build is `Probe`, `Create`, `Make`, `Inject`, `Move`,
`Write`; an update of metadata `ChoosePkg`, `Open`, `Rewrite`, `Stat`, `Write`; a removal
`LockToRemove`, `Unindex`, `Unlink`.  `Kill` comes anywhere.  `stray` holds files whose process
died before it could write the index, `added` the builds that were completed.

### 2.10 PackageTracker, Resolver, MergeOrder

`PackageTracker`: `TrackPkg`, `AddInstalledPkg`, `RemovePkg`, `Match` and `Conflicts` are the
methods, the variables are the attributes.  Answers are sets: the order of lists, which no
caller depends on for correctness, is left out.

`Resolver`: a request says which packages exist, which are installed, what they depend on and
what is asked.  The graph of one try is the record `dg`, the search over masks the record
`search`.  An action is a stage of `_backtrack_depgraph`: a try (`StartTry`, `AddArgs`,
`CreateGraph`, `CompleteGraph`, `CompleteMore`), the solution of slot conflicts
(`StartSolve`, `Choose`, `RemoveUnforced`, `CreateAgain`), the judgement (`Judge`) and the
next try (`NextTry`).  The recursions of the code are recursive functions over the state of the
graph.

`DepPriority` gives the scales by which dependencies are ignored; `MergeOrder` is
`_validate_blockers` and the loop of `_serialize_tasks`: `Select` and `SelectIsolated` (which nodes
are taken), `IgnoreAsap`, `DropSatisfied` (the criteria are loosened), `ScheduleUninstall`,
`DropUninstall`, `Circular`, and `Finish` with the retry on the complete graph.

## 3. What each run checks and shows

| Run | Configuration | Properties | Distinct states |
|---|---|---|---|
| `system` | `MC_Scheduler_system` | `MergesApart`, `FragileSystemBuildsAlone` | 373,000 |
| `terminate` | `MC_Scheduler_terminate` | `Accounting`, `ExitIsQuiet`, `DepsMergedFirst`, `ResumeListExact`, `QueuesImplement`, `NoMergeAfterTermination` | 1.6 million |
| `returns` | `MC_Scheduler_returns` | `SuccessMeansMerged`, `Returns` | 95,000 |
| `builds` | `MC_Builds` | `OwnFileRemoved`, `HeldIsNamed`, `LocksSound`, `BlockedIsServed` (fcntl lock); `BuildDirSafe`, `LockReleased`, `BuildsEnd` (chains); `EbuildVerdict`, `EveryPhaseEnds` (phase) | 386,000 |
| `fetches` | `MC_Fetches` | `MutualExclusion`, `OwnFileRemoved`, `AloneAcquires` (hard link lock); `FetchSafe`, `Exhausted`, `NothingLost`, `FetchEnds` (fetchers); `GatherWhole`, `GatherEnds` (futures) | 388,000 |
| `disk` | `MC_Disk` | `Served` (queue); `DatabaseAgrees`, `FilesKept` (merges); `SnapshotsKept`, `NeverBack` (snapshots); `IndexTrue`, `InstancesKept` (binary packages); `AnswersTrue` (tracker); `Consistent` (resolver); `OrderRespected`, `OrderProgress` (merge list) | 992,000 |

The runs named `bug_*` and `fcntl_bug_*` end in a counterexample; they are the subject
of section 7.

- `system`: four packages, two of them system packages, one with a runtime
  dependency that needs it in turn, with parallel installs, setup phases in the merge
  queue and SIGUSR2 at any moment.  A merge that waited sees no build beside it (until
  SIGUSR2 asks for the opposite: `flushed`), two system packages are merged one after
  the other even then, and between the merge of the system package and that of its
  dependency no build starts beside another.  The tests that ensure this, in
  `_schedule_tasks_imp`, read sets that callbacks change.
- `terminate`: a package that needs another and the removal of a blocker, which the merge
  of the other may make superfluous, and a package that may overtake it; failures with rounds
  of `--keep-going`; tokens that other programs take and return, a fifo that may fail, and
  SIGINT at any of the steps.  The job count does not drift, no token is lost or returned
  twice, dependencies are merged first although packages go back to the front of the queue for
  lack of a token, the loop ends with empty structures, at every step the list on disk holds
  what is still to be merged (so a crash needs no action of its own), the queues behave as
  `TaskQueue` says under cancellation, and no merge starts after the termination.
- `returns`: whatever the order of exit listeners and whatever fails, `merge()` returns, and
  reports success only when all packages are merged.  One package is a system package, so
  that a merge waits; `pkg_postinst` may fail.
- `builds`: two processes with an fcntl lock and a crash; the history variable `twice` holds
  the processes that have asked for a lock they hold (section 7), and the properties say what
  the others keep.  Chains of every kind in two instances of `emerge`, with failing locks and
  phases and termination at any moment: a build directory has one user, its category
  directory is there although two chains of one `emerge` may take the category's lock from each
  other, locks are released, chains end.  What `BuildDirSafe` does not say after such a loss is in
  section 8.  And one phase under six settings: the
  verdict is the announced one, a dying subshell is not passed over, a client gets the
  answer to its own question, and the phase ends, but for the two waits that `PhaseEnds` names
  (section 8).
- `fetches`: the hard link lock with two crashes; `emerge` and its background fetcher, with
  every combination of leftovers, mirrors and answers; three futures in a scheduler with two
  places, failing, or cancelled with the result.
- `disk`: seven parts, all of them about safety.  Merges, replacements, blockers and
  unmerges with edits of a protected file and a kill at any step, or in parallel; three syncs
  with two crashes, with and without verification, each of which asks mirrors that do not answer,
  stop half-way, lag or have nothing new, in any order and as often as it likes; two processes at one `$PKGDIR` with a death; four packages added
  to the tracker and taken back in any order; 12,250 requests to the resolver; and merge lists
  from all graphs of three packages with dependencies of five kinds, and from chosen ones with
  blockers.

Each property of a passing run has a *mutant* in PROJECT.json: a plausible slip in
one definition, which makes TLC report the property violated.  The mutated forms,
named `Mut...`, stand in the modules before the definitions they replace and are
used nowhere else.

## 4. Bounds

Scheduler: two to four packages and `--jobs 2`.  Two builds, one that waits for a slot
and one for a dependency is the smallest list in which a package overtakes another and
a merge waits for a build that is not its own; with `--jobs 1` the graph is dropped
(`HasGraph`) and nothing overlaps.  `Tokens` is 1 and there is the implicit slot: one
build has a slot and the next must wait.  SIGINT comes once, since the handler ignores a
second one; SIGUSR2 may come again after each flush.  The state space is finite without
any bound on steps, since every package is started once per round, and the rounds shrink.
For any list and number of jobs there are the theorems (section 6).

Locks: two processes.  Inode numbers are reused, as on disk, and there are enough of them
for the lock file, the files that are still open without a name and leftover links (four
and three).  `MaxCrashes` bounds the processes that die: two for the hard link lock, so that a
leftover link is met by a process that dies in turn, one for the other.  In `MC_Builds` a new file
gets one fixed free inode (`AnyFree`): a free number has no history, and the choice between
two of them changes nothing but names.  Safety for any number of processes, inodes and crashes
is what the theorems add, where it holds; `fcntl_bug_unlink` has three processes, since its
property holds for two.

Chains: three packages of two instances of `emerge`, two build directories in one category, so
that one instance may remove the category directory of the other.  Each kind of chain is in one
of the seven lists at least.  In five of them an instance uses one build directory, for two
packages one after the other, or for one package beside the other instance in the same or the
other directory.  In the other two the packages of one instance use two directories, so that both chains ask for the category's lock at once: there the
bound `LockAtOnce` of `MC_Builds` leaves out terminations, which the other lists have, and lets
the two start only once the other instance has got past its own locking.
Phases: six settings that cover each optional step and each pair of events that
interferes (a killed client with queries, a fork with a cancellation).

Fetches: one distfile with a URI of its own and a third-party mirror, with and without a public
mirror; what is on disk may be missing, a piece or wrong, a read-only directory may have the good
file, a file system mirror a wrong one.  With `MaxTries` 3 (`PORTAGE_FETCH_CHECKSUM_TRY_MIRRORS`) the
locations may run out before the tries and the tries before the locations.  `MaxRuns` 2 lets each
of the two fetchers run, or one meet what its own earlier run has left.  Futures: three with two
places is the least in which the scheduler waits and the consumer may overtake it.

Disk: five tasks in a queue of two.  Two packages in two versions with libraries that one
needs of the other, and a package that blocks one of them, in three merges or unmerges,
with one edit and one kill, or none of either in parallel (each multiplies the states of the
other; together they are beyond the run).  Three syncs of two versions: an update after a
crashed update after a good one; one spare snapshot.  The number of attempts of a sync has
no bound: it may give up after any of them, which covers every `PORTAGE_RSYNC_RETRIES`.  A mirror offers
any version up to the server's, has a `timestamp.chk`, and does not change during a
transfer.  A snapshot grows too old just before `garbage_collection` asks (`AgeWhenLooked` of
`MC_Disk`): nothing else looks at its age.  Four build ids, and
three operations by two processes.  Four packages of two names, two slots and one soname: the
least in which a name has
three packages, so that taking one back leaves a conflict.  Requests: three names in two
versions with every choice of four atoms per dependency, and in three versions with
backtracking; depth of dependencies is two, with a cycle.  Merge lists: three new packages and two
installed ones, one of them replaced.

## 5. Fairness

- `Scheduler`: `WF` of `Main` and `Schedule`: the process keeps running.  `WF` of the
  end of every task: the scheduler itself puts no limit on a build, so `Returns` is
  about builds that end.  `SF` of `RunCallback`, `MergeWakeup` and `UnblockJobs`: asyncio
  takes its callbacks in turn and polls descriptors in each iteration; weak fairness
  is too little because a pass of `_schedule_tasks` disables callbacks for a while, and
  because another client may take the token before it is looked at.  None is assumed of
  signals, of SIGUSR2 or of the other clients of the job server: nothing obliges them
  to return a token.  That is the subject of `TerminationEnds`.
- `HardlinkLock`: `WF` of every process's next step: callers release what they lock, and
  `hardlink_lockfile` polls.  There is no queue in this lock, so a process may starve
  among others; `AloneAcquires` promises the lock only to one that is left alone.
- `FcntlLock`: `WF` of every process's next step and `SF` of the blocking `lockf`: the
  kernel does not pass over the same waiter for ever.
- `PackageBuild`: `WF` of every chain's next step and of the exit of each `emerge` that may
  exit.  None of `Terminate`.  Weak fairness is enough for a waiter because the number of
  chains is finite and each takes a lock a limited number of times.
- `EbuildProcess`: `WF` of the steps of `emerge`, of its daemon, of the clients together, and of
  bash and the subshell once they have a client to wait for or an announcement to make.  A
  subshell that merely lives need not end, which is why `PhaseEnds` makes an exception of it.
- `Fetch`: `WF` of a fetcher's next step; a download ends, well or badly.  `IterGather`: `WF` of the
  next callback and of the end of each future.
- `MC_Disk` states safety properties only, and no fairness.

## 6. What is proved

tlapm checks every theorem for all values of the constants, under the assumption
that the module names (`SchedulerAssumption`, `HardlinkAssumption`, `FcntlAssumption`,
`BuildAssumption`, `EbuildAssumption`, `FetchAssumption`, `GatherAssumption`, `RcuAssumption`,
`BinTreeAssumption`, `PackageTrackerAssumption`, `TaskQueueAssumption`): sets that
the code enumerates are finite, the null values are none of the real ones, flags are Booleans,
lists have each package once, bounds are numbers, and no phase both runs post-phase commands and
goes on after a failure.  TLC evaluates these assumptions in the runs.  Each safety theorem rests on an inductive invariant `IInv`, which TLC has checked on the
instances of the runs before it was proved; each `IInv` is there because the property is not
inductive by itself, as told below.

### 6.1 SchedulerProofs

| Theorem | States |
|---|---|
| `SchedulerInvariant`, `TypeCorrect` | `IInv`, and the types among it |
| `AccountingKept` | `Accounting`: `_jobs` is the number of builds under way and at most `--jobs`; every token is somewhere |
| `MergesAreApart` | `MergesApart` |
| `DependenciesFirst` | `DepsMergedFirst`, unless `--nodeps` |
| `FragileBuildsAlone` | `FragileSystemBuildsAlone`, whatever is terminated or interrupted |
| `ExitsQuietly` | `ExitIsQuiet`, where `Orderly` |
| `ResumeListComplete` | at every moment the resume list has every package that is neither merged nor reported as failed |
| `ResumeListKept` | `ResumeListExact`, where `Orderly` |
| `SuccessIsMerged` | `SuccessMeansMerged`, unless the job server may fail |
| `QueuesAreQueues` | `QueuesImplement`: each of the three queues implements `TaskQueue` |
| `TerminatedStartsNoMerge` | `NoMergeAfterTermination`, where `NeverWaits` |

They hold for every merge list, set of dependencies, number of jobs, combination of
features and sequence of failures and signals.  `IInv` has these parts:

- `TypeOK`, `Shapes`, `Once`: callbacks and listeners have the form that the code gives them,
  and no exit callback is queued twice.
- `LifeOK`: the heart, `TaskLife` for every task.  The state of a task, its exit listeners, the
  queue that holds it, the queue's set of running tasks and its callbacks that are still in
  the event loop agree.  Everything else is counted on this: a build under way has exactly
  one `build_exit` to come, so `_jobs` can be decremented for it; a task that has ended stays in
  its queue's set until exactly one `queue_exit` has been called.
- `Course`: a package is queued, then built, and only then merged.
- `Covered`: what is under way is in `_running_tasks`, so that the loop does not end before it.
- `JobAccounting`, `TokensKept`: the counts.
- `AtStart`, `Signals`, `Halting`: what holds before the first loop, after a signal, and from
  the moment the loop has decided to end.
- `Resumable`, `Tracked`: what is on the resume list is still queued, under way or failed; a merged
  package is on it only until the exit callback of its merge.
- `Ordered`: the queue keeps the order of the merge list between a package and what it
  depends on.  The queue is changed at its front and by overtaking, and this is what survives both.
- `Apart`, `Reports`: merges of system packages and merges that wait; who terminated the scheduler.

The proof has one lemma for each action.  Two hypotheses come from the code, not from the
prover.  `Orderly` (`terminatedTasks => NeverWaits`): a waiting merge that is started after
`_terminate_tasks` is no longer in `_running_tasks`, so the loop may end before it: the finding
of `bug_terminate` breaks `Covered`, and `ExitIsQuiet` and `ResumeListExact` at the end of the
loop with it.  In the run `terminate`, no merge waits.  The job server in `SuccessIsMerged`: its
failure at the start is reported as a success (section 8).

`FragileBuildsAlone` rests on two more invariants, which are about order in the event loop.
`SystemTold`: the runtime dependencies of a system package that are still to be merged are in
`_unsatisfied_system_deps` before its merge counts as complete; until then `_system_merge_started` is
still to be called, and it precedes the exit callback of the merge in the loop.  `BuildsServed`: a
build that ends tells its queue before the scheduler, so that no build waits in the queue
`jobs` when `_jobs` allows another one, and a build starts only where the scheduler has asked
whether it may.

`QueuesAreQueues` shows for each action that the queue's `Add`, `Exit` or `Clear` of `TaskQueue`
happens with the same tasks, or that the queue is left alone; `QueueMovesIs` is the lemma that
one call of `Pump` is one such step.

### 6.2 The other modules

`HardlinkLockProofs`: `TypeCorrect`, `Invariance`, `Exclusion`, `RemovesOwnFile`.
`MutualExclusion` is not inductive: it does not say why a second process cannot see
a link count of two.  `IInv` adds *claims*.  A process claims the lock from the
moment its first `stat` has seen its own inode with two names.  `ClaimIsPath` says that
a claimed inode is the one `lockfilename` refers to, `ClaimIsUnique` that it is claimed
once.  The heart of the proof is the lemma about counts: a path with two names, one
of them the claimant's link, leaves no room for a third, so a second process that
reads a count of two has not linked to that inode, and its second `stat` disagrees.  A
claim survives everyone else's steps because nobody but an owner removes the
path.

`FcntlLockProofs`: `Invariance`, `NoLockIsLost` (`LocksSound`).  `IInv` relates the
descriptor to the place in the program (`FdIsOpen`), the kernel's lock to the
descriptor (`LocksAreOpen`) and, for processes that have not asked twice, the place in
the program to the kernel's lock (`LockedOwn`).  A step of one process keeps the
lock of another because they own different inodes, or the same inode with
different owners, which the lock table excludes.  Exclusion is no theorem for every set of
processes (section 7), but `TwoProcessesExclude` and `TwoProcessesFindTheLock` prove it for two,
whatever they do and wherever they crash: `MutualExclusion`, `OwnFileRemoved` and `HeldIsNamed`.
They rest on `Links`: the temporary link is gone when `lockfile` returns (`TempDropped`), the file
that was compared or counted is the one at the path (`TempIsPath`, `CountedIsPath`), one that has
been counted has no link elsewhere (`CountedIsOnly`), and neither has one that lost its name while
somebody thinks he holds it (`GoneHasNoLink`).  The last is what a third process breaks: it may
have linked to the file before the second one removed the name.

`PackageBuildProofs`: `BuildInvariant`, `BuildDirsSafe` (`BuildDirSafe`), `LocksReleased`
(`LockReleased`), for any number of packages, instances, directories and categories.
`BuildDirSafe` speaks of what works in a directory; `IInv` says why it may: `LockFits`
relates the task of a chain to the progress of its lock object, `OwnersTrue` that progress to the
owners of the two lock files and to the lock file's existence, `OnItsWay` which tasks a chain of
each mode goes through, and `KeptForMerge` that a chain which ended well for its merge has kept the
lock.  The category directory stays for a chain that has its build directory, since the
lock file in it keeps the category from being empty: that needs no lock of the category.  It stays for a chain
that is on its way there because whoever removes it holds the category's lock, and the
chain holds it too; this half of `OwnersTrue`, and of `CategoryThere`, is about categories in
which no chain has lost its lock.  `TryCatdirDoes` is the lemma behind it: an attempt takes a lock that
nobody has, or leaves every owner alone except in a category that is then in `dropped`.

`PackageBuildProofs` also has `PhaseVerdict` (`EbuildVerdict`), for any set of combinations of options.
What a phase reports is put together from three sources: the daemon's exit command, the exit
status of bash and the end of its output.  `PhaseInv` orders them.  `Once`: a process announces its
success once, and the announcement is in the pipe, with the daemon, or heard.  `Heard`: what
has been heard has been said, so a post-phase command runs only after a success.  While nobody is killed,
`OneLetter`: the fifo has one letter, that of the client which holds the lock; `Foreground`: a
client runs while its bash, or the subshell, waits for it; and `Deaths`: the death of a subshell, once
it is answered, has been heard before its bash announced anything.  A kill ends these three, and the verdict claims less from then on.

`StoreProofs`, on repository snapshots: `RcuInvariant`, `SnapshotsAreKept` (`SnapshotsKept`), `VersionsNeverGoBack`
(`NeverBack`).  A crash may leave a commit at any point, so `IInv` speaks about what the next sync
finds: a numbered snapshot is whole and has no timestamp but its own, except one that was
committed unfinished (`AllWhole`, with `Sound` for what a migration moves); numbers grow (`Numbered`); the one that is
being made the latest is the newest and may take the place of the one before (`LatestThere`, with
`MayReplace`: it holds no earlier version, unless one of the cases of `NeverBack` applies); the source of the
copy is the latest (`CopyThere`); and the last snapshots are there even while the newest has not
become the latest yet (`LastKept`).  What a sync commits is the sum of its attempts, which is what
`UpdateFits` follows: a mirror is only asked for its files if it is newer than the timestamp that was read,
so the update is absent, a part, the copy of the latest, or newer than that timestamp (`Fetched`);
after a whole transfer it is that version with its timestamp; and a commit of anything else has either been
verified or followed a mirror with nothing new.

`StoreProofs`, on binary packages: `BinTreeIndexTrue` (`IndexTrue`) and `BinTreeInstancesKept`
(`InstancesKept`), for any number of users, numbers, builds and deaths.  The index is written long after the
file, from what the process knew in between, so `BinInv` follows each operation: who is between lock and
unlock has the lock of the index (`LockTaken`); what has been packed, moved or rewritten is the file that
the entry will describe (`MadeWhole`, `MovedThere`, `UpdatedThere`); a number that was probed is held
by a placeholder that no other process has taken for its own (`NumberHeld`); a removal has taken the entry
away first (`Unindexed`); and with a path per build the metadata that a process remembers are those of the
image it remembers (`MetaKnown`).

`FetchProofs`: `FetchIsSafe` (`FetchSafe`), `EveryLocationTried` (`Exhausted`), `NothingIsLost`
(`NothingLost`), for any number of processes of each kind, files, locations and tries.  `FetchInv`
says for each process: from the lock to the unlock the file is its own, and so is the layout that it
fetches (`LockedAt`); while it searches, neither the file nor a complete download of it is there
(`NotThereAt`), which is why a move into place replaces nothing; the files that it has
left behind are good (`GoodAt`) and stay so because the others see them and leave them alone; and
a location of the current file is among those tried or still in the list (`TriesAt`).  That the
filters of `SRC_URI` keep lists of locations (`OnlySeq`) is an induction over a sequence, made
with the least counterexample (`WFMin` of `WellFoundedInduction`), as in the other modules where one
is needed: the induction theorems themselves are out of the provers' reach.

`PackageTrackerProofs`: `TrackerAnswersTrue` (`AnswersTrue`).  `add_pkg`,
`add_installed_pkg` and `remove_pkg` each drop the kept answers of one name, and the conflicts under
a condition of their own.  `IInv` says what the
indexes are at every moment in terms of the two lists (`PairsTrue`, `MultiTrue`,
`IndexTrueToList`), and then that a kept answer is still the answer (`CachedTrue`), since an
operation changes answers for the name of its package only.

`TaskQueueProofs`: `AlwaysServed` (`Served`), `NeverTwice`, for any `max_jobs` and any set of tasks.
`schedule()` starts as many tasks as there is room for, hence afterwards the queue is
full or empty (`ScheduleServes`), and it moves the starting ones from the deque to the
running set without a change of their union (`ScheduleMoves`).

`TaskQueueProofs` also has `GathersWhole` (`GatherWhole`), for any number of futures and jobs: the result of
`iter_gather` is that of all the futures of the generator, or a failure after which nothing is left
running.  The bookkeeping is spread over callbacks that the event loop has not made yet, so
`GatherInv` is about its FIFO.  `Queued`: a future that has ended and is still in the set of the running
ones has exactly one callback to come.  `Counted`: what is pending has a task, and there are `max_jobs` tasks at most.
`OneCall`: while the result is pending, exactly one control callback is to come, and it is the one that
the place in the program wants (`Due`).  `Before`: the callbacks of futures that the wait has found
done come before the one that looks at the map of futures.  Hence an empty map means that
the generator is exhausted and nothing runs.

### 6.3 What the proofs have changed

A proof of `LockReleased` failed because a CASE expression had arms that overlapped, of which TLC
takes the first and TLA+ any: three definitions (`After` of `PackageBuild`, `Protect` of
`Dblink`, `Matches` of `Fetch`) now exclude one another.  The attempt at `ExitIsQuiet` showed that
the same cause that lets a merge start after the termination lets the loop end before it.
`Only` in `QueueLoop` is `SelectSeq` for a set: the provers have no rule for operators as
arguments.  The proofs of `BinTree`, `Fetch`, `EbuildProcess` and `IterGather` have named assumptions that
the models had made silently: `Locations` is a constant of `Fetch`, and `EbuildAssumption` excludes
a combination of options that `EbuildPhase` does not have.  In `IterGather` the order in which futures that are already done are called back is left open
(`InTurn`), where the model had fixed one.  And the attempt at exclusion for the fcntl lock has shown where
exactly the third process is needed: `GoneHasNoLink`.

## 7. Where code and documentation disagree

Each is a run that ends in a counterexample of one property, which states what a
comment, the manual or a test says.

- `bug_terminate` (`NoMergeAfterTermination`): the comment in `_terminate_tasks` says
  that a task which has not been started "will never be started".  A merge in
  `_merge_wait_queue` leaves `_running_tasks` but stays in that queue, and
  `_schedule_tasks` starts it when the last build has ended.
- `bug_tokens` (`TerminationEnds`): SIGINT while a package waits for a job token and
  nothing runs.  `_termination_check` does not call `_schedule`, so the loop goes on
  until somebody else returns a token.
- `bug_keep_going` (`KeepGoingSurvives`): a failed uninstall under `--keep-going` makes
  `merge()` remove it from the resume list, where uninstalls never are: ValueError.
- `fcntl_bug_unlink` (`OwnFileRemoved`): `unlockfile` takes a link count of one for the
  proof that its file still has its name.  With three processes the one name may be
  the temporary link of a third, and the process removes the lock file that the
  second has just locked.
- `fcntl_bug_relock` (`OneHolder`): a process that asks for a lock it holds is
  refused, but by then the second descriptor has been closed, and with it the
  first lock dropped.
- `bug_plib` (`TakenOver`): a comment in `_collision_protect` says that a package which
  collides with a preserved library takes it over.  The library is unregistered only after the
  merge; before that the replaced instance is unmerged, finds the library without consumers
  and removes the file that has just been merged.

Met on the way, without a run:

- `unmerge.py` says that `load` is called inside `remove()`; `EditablePackageSet.remove` loads
  once only, so a world file that another process has changed meanwhile is overwritten.
- `EbuildIpcDaemon`'s docstring promises "reliable ebuild termination" where an ebuild has left
  orphans running.  An orphan's client whose command went down with the daemon of its process keeps
  the lock `.ipc/lock`, and the next process's client waits for it without limit (`LeftBehind`).
- `depgraph.py` (9444-9448) says of a choice of priorities that it "must be avoided whenever
  possible"; it is made before `asap_nodes` is filtered, so that nodes which are gone may cause it.
- `fetch.py` orders `primaryuri_dict` "to match that in SRC_URI"; the list is consumed from its
  other end.
- `grab_updates` (`update.py`) promises a sorted list, and with a changed file all that come after
  it; the code goes through `os.listdir` as it comes and returns the changed files only.
- `BacktrackParameter.__deepcopy__` relies on immutable content; `_feedback_config` changes the
  inner sets.

## 8. What is only model-checked, and what is not modelled

Only model-checked:

- All liveness properties (`Returns`, `BuildsEnd`, `EveryPhaseEnds`, `BlockedIsServed`,
  `AloneAcquires`, `FetchEnds`, `GatherEnds`): proofs with fairness and ENABLED are out of the
  prover's reach.
- `Consistent`, `OrderRespected`, `OrderProgress`: `Resolver` and `MergeOrder` are recursive
  functions over graphs, and what a recursive definition computes for every input needs an
  induction that the provers cannot instantiate.
- `DatabaseAgrees` and `FilesKept` of `Dblink`: their invariant has to follow the closures over library
  consumers that decide what an unmerge keeps, which are recursive, and the hypotheses on
  collision features under which the files of two packages stay apart.

Limits that the properties name, because the code has them:

- *Scheduler.*  When the connection to the job server fails at the start, `terminate()` is called and
  no package is recorded as failed: `merge()` reports success with nothing merged.
  `SuccessMeansMerged` is checked, and proved, without that.
- *Category locks.*  Two chains of one `emerge` in one category lose the category's lock to each other,
  as `fcntl_bug_relock` shows for a lock file alone: `AsynchronousLock._start` tries `lockfile` in
  the process that has the lock already, and the descriptor that `_lock_manager` closes
  (`locks.py:71`) takes the kernel's lock with it.  Another `emerge` may then lock the
  category, find it empty and remove it (`EbuildBuildDir.py:144`) while a chain that believes it has the
  lock creates or waits for its build directory's lock.  That chain's `emerge` dies of an exception:
  the directory is not found, or a lock helper fails, for which `builddir_locked` has a handler that
  raises AttributeError itself (`catdir_lock.async_unlock.add_done_callback`, `EbuildBuildDir.py:89`).
  `CategoryThere` says so by its condition: it promises the directory to a chain that is still on its way
  only where no lock of the category was lost; without the condition TLC finds a counterexample of 15
  states.  A chain that *has* its build directory keeps its category in any case, and no other
  property depends on it.  Two holders of one lock file after `unlockfile` (`fcntl_bug_unlink`) are not part of
  `PackageBuild`.
- *Build chains.*  An `emerge` that is terminated while a lock future is pending dies of
  `InvalidStateError` (a comment at `Scheduler.py:383` knows of it); `buildpkgonly` keeps its lock
  where it packs nothing (`LockReleased`).
- *Phases.*  `emerge` waits without limit for the output that a process holds after bash has gone
  without an exit command (`Unannounced`).
- *Merges.*  With `parallel-install`, `Intact`, `LibrariesKept` and `ForeignFilesKept` do not
  hold between
  `DeleteOld` and `CommitEntry`, when a package is in no entry.  A kill there leaves the slot
  without entry, and files of it are torn (`torn`).
- *Binary packages.*  `MetadataTrue` needs a path per build, `InstancesKept` needs in addition that
  nothing is removed: a process whose knowledge is old may remove the empty file by which
  another one holds its number.
- *Snapshots.*  A crash while the user's directory is removed by a migration leaves the rest of it
  to be migrated.  And a sync that asks more than one mirror may commit what it has not
  finished.  When a transfer stops half-way, `_do_rsync` says of the timestamp (`rsync.py:827-831`)
  that "our previously read timestamp as well as the corresponding file can no longer be trusted", and sets
  `timestamp = 0`; but that is its own parameter, and `update` goes on with the old value.  If the next mirror
  has just that timestamp, the attempt is unchanged, synced and without error, while
  `local_state_unchanged` is false from the attempt before: line 482 commits the unfinished
  update, unless verification finds it.  (TLC needs 21 states for a repository that
  is `Partial`.)  The same happens after probes that failed: then what is committed is a copy of
  the latest snapshot, or, right after a migration, nothing, and `commit_update` raises OSError.  The timestamp
  that was removed, from the repository itself and not from the update, also lets a mirror that
  lags bring an earlier version back in a later sync, verified or not (33 states).  `AlwaysWhole`,
  `StampTrue` and `NeverBack` name these cases: an unfinished update only without verification
  and only where the last attempt found nothing new (`skipped`), an earlier version only there or where the
  sync did not know the timestamp of what it replaced.
- *Fetching.*  The termination of a download command is taken to be immediate.

Not modelled in the modelled parts.  *Scheduler*: what happens before the main loop (manifests,
digests, checks), prefetchers and the fetch and unpack queues, `--fetchonly` and `--buildpkgonly`,
the restart after an update of the package manager itself, the status display, elog.  *Locks*: a
descriptor passed by the caller, ENOLCK and read-only directories (they raise, before or instead of
a lock), file systems that change inode numbers, the message printed while waiting.  *Chains*: the
thread variant of `AsynchronousLock`.  *Phases*: `ebuild-locks`, a phase that locks its own build
directory, missing build directories, pseudo terminals, log filters.  *Fetching*: free space,
`BinpkgFetcher`, custom fetch commands.  *Futures*: `retry`, and `iter_completed` without
`iter_gather`.  *Merges*: directories, symbolic links, devices, INSTALL_MASK, backups, the counter.
*Binary packages*: remote indexes, two packages with one name, mixed layouts, containers,
signatures.  *Resolver*: USE, slot operators, `||` groups, virtuals, binary packages, autounmask,
removal.

Not modelled at all, with reasons: PROJECT.json lists every component.  In short: conversions,
formatting and evaluation of configuration (binary package containers, reports, manifests,
profiles) and the shell code have no state to interleave; the clean-up of lock links, the world
file and version comparison are planned.

## 9. Plan

Done: the modules of section 2, and the proofs of section 6.  Next:

1. Proofs about `Dblink`: `DatabaseAgrees`, `FilesKept` and `Intact`.
2. `HardlinkCleanup`: `hardlock_cleanup` beside `HardlinkLock`.
3. The world file (`_sets/files.py`) with two processes, and `movefile` as system calls.
4. `Versions`: `vercmp` as a function, against a reference order.
5. A run of the scheduler in which the job server fails at the start.
