---------------------------- MODULE EbuildProcess ----------------------------
(* One phase of an ebuild: the chain of bash processes that EbuildPhase runs  *)
(* for it, each an AbstractEbuildProcess with a daemon that answers the       *)
(* ebuild-ipc clients of the ebuild through two fifos.  The verdict on a      *)
(* process is the exit code which a client announces, never the exit status   *)
(* of bash: an ebuild may leave processes behind that keep its output open,   *)
(* a subshell of it may die, and bash may go without a word.                  *)
(* emerge runs one callback at a time, the other processes run at any time,   *)
(* also between two system calls of a callback.  emerge holds the lock of the *)
(* build directory all the time, so a client always finds the daemon alive.   *)
EXTENDS Sequences, FiniteSets, Naturals

\* Each of the Settings says whether there are post-phase commands (post),
\* FEATURES=fail-clean, and test-fail-continue in the test phase, and which of
\* "query", "subquery", "fork", "cancel" and "kill" may happen (events).
CONSTANT Settings

\* Only the test phase may go on after a failure, and it has no post-phase commands.
Options == [post : BOOLEAN, failClean : BOOLEAN, failContinue : BOOLEAN,
            events : SUBSET {"query", "subquery", "fork", "cancel", "kill"}]
ASSUME EbuildAssumption == Settings \subseteq {s \in Options : ~(s.post /\ s.failContinue)}

\* The process of the phase itself, of its post-phase commands, of the hooks
\* after a failure, and of the clean phase that FEATURES=fail-clean adds.
Roles == {"ebuild", "post", "hooks", "clean"}
\* Each bash runs one client at a time; so does the one background subshell.
Clients == Roles \cup {"sub"}
Idle == [at |-> "none", what |-> "query", got |-> "none"]

VARIABLES
  conf,       \* the settings of this phase
  role,       \* the process of the phase that runs; "starting" before the first, "over"
  verdict,    \* returncode of that process, before its exit listener has run
  result,     \* returncode of the phase
  stopped,    \* the phase has been cancelled
  cancelled,  \* the process has been cancelled
  logging,    \* _main_task waits for the end of the output
  timer,      \* _exit_timeout_id is set
  exitcode,   \* of the process's ExitCommand
  daemon,     \* where its _input_handler is, "closed" without a daemon
  request,    \* the command that the handler has read
  pipe,       \* what the input fifo holds
  writers,    \* clients that have it open
  hangup,     \* somebody has had it open since the daemon opened it
  lock,       \* holder of .ipc/lock
  answer,     \* what the output fifo holds
  client,     \* the ebuild-ipc process of each bash
  bash,       \* each bash process
  term,       \* it has a SIGTERM to handle
  said,       \* the exit code it set out to announce
  sub,        \* the background subshell; early: its death was answered before its bash announced
  kills

emergeVars  == <<conf, role, verdict, result, stopped, cancelled, logging, timer, exitcode, daemon, request>>
fifoVars    == <<pipe, writers, hangup, lock, answer, client>>
bashVars    == <<bash, term, said, sub, kills>>
ebuildVars  == <<emergeVars, fifoVars, bashVars>>

EbuildInit ==
  /\ conf \in Settings
  /\ role = "starting" /\ verdict = "none" /\ result = "none"
  /\ stopped = FALSE /\ cancelled = FALSE /\ logging = FALSE /\ timer = FALSE
  /\ exitcode = "none" /\ daemon = "closed" /\ request = <<>>
  /\ pipe = <<>> /\ writers = {} /\ hangup = FALSE /\ lock = "none" /\ answer = <<>>
  /\ client = [c \in Clients |-> Idle]
  /\ bash = [r \in Roles |-> "absent"] /\ term = [r \in Roles |-> FALSE]
  /\ said = [r \in Roles |-> "none"]
  /\ sub = [of |-> "none", at |-> "absent", holds |-> FALSE, early |-> FALSE]
  /\ kills = 0

May(event) == event \in conf.events

(****************************************************************************)
(* The fifos.  What nobody has open any more loses what it holds.            *)
(****************************************************************************)
Kept(data, open) == IF open THEN data ELSE <<>>

Reopened ==
  /\ pipe' = Kept(pipe, writers # {})
  /\ hangup' = (writers # {})

CloseInput(c) ==
  /\ writers' = writers \ {c}
  /\ pipe' = Kept(pipe, daemon # "closed" \/ writers' # {})

At(c, place) == client' = [client EXCEPT ![c].at = place]

(****************************************************************************)
(* ebuild-ipc: take the lock and open the output fifo, write the command,    *)
(* close the input fifo, read the answer.                                    *)
(****************************************************************************)
Connect(c) ==
  /\ client[c].at = "lock" /\ lock = "none"
  /\ lock' = c /\ At(c, "write")
  /\ UNCHANGED <<emergeVars, bashVars, pipe, writers, hangup, answer>>

\* Without a daemon the fifo has no reader and cannot be opened.
Refused(c) ==
  /\ client[c].at = "write" /\ daemon = "closed"
  /\ lock' = "none" /\ At(c, "done")
  /\ answer' = <<>>
  /\ UNCHANGED <<emergeVars, bashVars, pipe, writers, hangup>>

Write(c) ==
  /\ client[c].at = "write" /\ daemon # "closed"
  /\ pipe' = Append(pipe, [from |-> c, what |-> client[c].what])
  /\ writers' = writers \cup {c} /\ hangup' = TRUE
  /\ At(c, "close")
  /\ UNCHANGED <<emergeVars, bashVars, lock, answer>>

CloseFifo(c) ==
  /\ client[c].at = "close"
  /\ CloseInput(c) /\ At(c, "read")
  /\ UNCHANGED <<emergeVars, bashVars, hangup, lock, answer>>

\* Bash r has got as far as to write what it announces.
Announced(r) == said[r] # "none" /\ client[r].at # "lock"

Receive(c) ==
  /\ client[c].at = "read" /\ answer # <<>>
  /\ client' = [client EXCEPT ![c].at = "done",
                              ![c].got = IF Head(answer).from = c THEN "own" ELSE "other"]
  /\ lock' = "none" /\ answer' = <<>>
  /\ sub' = [sub EXCEPT !.early = @ \/ (c = "sub" /\ sub.at = "dies" /\ ~Announced(sub.of))]
  /\ UNCHANGED <<emergeVars, pipe, writers, hangup, bash, term, said, kills>>

ClientStep(c) == Connect(c) \/ Refused(c) \/ Write(c) \/ CloseFifo(c) \/ Receive(c)

Talking(c) == client[c].at \in {"lock", "write", "close", "read"}

KillClient(c) ==
  /\ Talking(c) /\ May("kill") /\ kills = 0
  /\ kills' = 1
  /\ At(c, "done") /\ CloseInput(c)
  /\ lock' = IF lock = c THEN "none" ELSE lock
  /\ answer' = IF lock = c THEN <<>> ELSE answer
  /\ UNCHANGED <<emergeVars, hangup, bash, term, said, sub>>

(****************************************************************************)
(* The bash processes: the ebuild may ask something, leave a subshell in the *)
(* background, die, exit without a word (bug #190128), or come to its end.   *)
(* A SIGTERM is handled when no client runs in the foreground.               *)
(****************************************************************************)
Gone(r) == bash[r] \in {"absent", "ok", "fail"}
HasIpc(r) == r # "clean"
Asks(c, what) == client' = [client EXCEPT ![c] = [at |-> "lock", what |-> what, got |-> "none"]]
Becomes(r, state) == bash' = [bash EXCEPT ![r] = state]

Query(r) ==
  /\ bash[r] = "works" /\ ~term[r] /\ HasIpc(r) /\ May("query") /\ client[r] = Idle
  /\ Becomes(r, "waits") /\ Asks(r, "query")
  /\ UNCHANGED <<emergeVars, pipe, writers, hangup, lock, answer, term, said, sub, kills>>

\* The end of ebuild.sh or misc-functions.sh, or die.
Announce(r, code) ==
  /\ bash[r] = "works" /\ ~term[r] /\ HasIpc(r)
  /\ said' = [said EXCEPT ![r] = code]
  /\ Becomes(r, "ends") /\ Asks(r, code)
  /\ UNCHANGED <<emergeVars, pipe, writers, hangup, lock, answer, term, sub, kills>>

ExitSilently(r, status) ==
  /\ bash[r] = "works"
  /\ term[r] => status = "fail"
  /\ Becomes(r, status)
  /\ UNCHANGED <<emergeVars, fifoVars, term, said, sub, kills>>

\* The status after an announcement is the one of ebuild-ipc, or 1 after a die.
ClientBack(r) ==
  /\ ~Talking(r)
  /\ \/ bash[r] = "waits" /\ Becomes(r, "works")
     \/ bash[r] = "ends" /\ Becomes(r, IF term[r] \/ said[r] = "fail" THEN "fail" ELSE "ok")
  /\ UNCHANGED <<emergeVars, fifoVars, term, said, sub, kills>>

KillBash(r) ==
  /\ ~Gone(r) /\ May("kill") /\ kills = 0
  /\ kills' = 1 /\ Becomes(r, "fail")
  /\ UNCHANGED <<emergeVars, fifoVars, term, said, sub>>

Fork(r, holds) ==
  /\ bash[r] = "works" /\ HasIpc(r) /\ May("fork") /\ sub.at = "absent"
  /\ sub' = [sub EXCEPT !.of = r, !.at = "lives", !.holds = holds]
  /\ UNCHANGED <<emergeVars, fifoVars, bash, term, said, kills>>

SubAsks(what, place) ==
  /\ sub.at = "lives" /\ (what = "query" => May("subquery") /\ client["sub"] = Idle)
  /\ sub' = [sub EXCEPT !.at = place] /\ Asks("sub", what)
  /\ UNCHANGED <<emergeVars, pipe, writers, hangup, lock, answer, bash, term, said, kills>>

SubBack ==
  /\ ~Talking("sub")
  /\ \/ /\ sub.at = "asks"
        /\ sub' = [sub EXCEPT !.at = "lives"] /\ UNCHANGED term
     \/ /\ sub.at = "dies"
        /\ sub' = [sub EXCEPT !.at = "gone"]
        /\ term' = [term EXCEPT ![sub.of] = @ \/ ~Gone(sub.of)]
  /\ UNCHANGED <<emergeVars, fifoVars, bash, said, kills>>

SubEnds ==
  /\ sub.at = "lives" /\ sub' = [sub EXCEPT !.at = "gone"]
  /\ UNCHANGED <<emergeVars, fifoVars, bash, term, said, kills>>

(****************************************************************************)
(* The daemon's _input_handler, with the steps of others between its system  *)
(* calls: read, re-open, answer; or after an end of file, lock and re-open.   *)
(****************************************************************************)
ReadCommand ==
  /\ daemon = "poll" /\ pipe # <<>>
  /\ request' = <<Head(pipe)>> /\ pipe' = <<>>
  /\ daemon' = "reopen"
  /\ UNCHANGED <<conf, role, verdict, result, stopped, cancelled, logging, timer, exitcode, bashVars>>
  /\ UNCHANGED <<writers, hangup, lock, answer, client>>

ReopenInput ==
  /\ daemon = "reopen"
  /\ Reopened /\ daemon' = "answer"
  /\ UNCHANGED <<conf, role, verdict, result, stopped, cancelled, logging, timer, exitcode, request>>
  /\ UNCHANGED <<writers, lock, answer, client, bashVars>>

MutExitCommand(code) == code
\* Only the first exit command counts.
ExitCommand(code) == IF exitcode = "none" THEN code ELSE exitcode
IsExit == Head(request).what # "query"
MutStartsTimer == FALSE
\* _exit_command_callback, which a second exit command takes away.
StartsTimer == exitcode = "none"
\* Who waits for an answer has the lock.
Listening == lock \in Clients

Answer ==
  /\ daemon = "answer"
  /\ answer' = IF Listening /\ answer = <<>> THEN request ELSE answer
  /\ exitcode' = IF IsExit THEN ExitCommand(Head(request).what) ELSE exitcode
  /\ timer' = (timer \/ (IsExit /\ StartsTimer))
  /\ request' = <<>> /\ daemon' = "poll"
  /\ UNCHANGED <<conf, role, verdict, result, stopped, cancelled, logging, bashVars>>
  /\ UNCHANGED <<pipe, writers, hangup, lock, client>>

\* An attempt while the holder of the lock waits for its answer changes nothing,
\* and is left out.
EndOfFile ==
  /\ daemon = "poll" /\ pipe = <<>> /\ writers = {} /\ hangup
  /\ lock # "none" => client[lock].at = "write"
  /\ daemon' = "locking"
  /\ UNCHANGED <<conf, role, verdict, result, stopped, cancelled, logging, timer, exitcode, request>>
  /\ UNCHANGED <<fifoVars, bashVars>>

MutMayReopen == TRUE
\* TryAgain is passed over, as the end of file comes up again.
MayReopen == lock = "none"
TryReopen ==
  /\ daemon = "locking" /\ daemon' = "poll"
  /\ IF MayReopen THEN Reopened ELSE UNCHANGED <<pipe, hangup>>
  /\ UNCHANGED <<conf, role, verdict, result, stopped, cancelled, logging, timer, exitcode, request>>
  /\ UNCHANGED <<writers, lock, answer, client, bashVars>>

DaemonStep == ReadCommand \/ ReopenInput \/ Answer \/ EndOfFile \/ TryReopen

(****************************************************************************)
(* emerge's other callbacks, none of them inside a handler.                  *)
(****************************************************************************)
Between == daemon \in {"closed", "poll"}
ProcessRuns == role \in Roles /\ verdict = "none"

StartDaemon(r) ==
  /\ daemon' = IF HasIpc(r) THEN "poll" ELSE "closed"
  /\ hangup' = (writers # {}) /\ exitcode' = "none"

\* The process before it, if any, is gone.
Spawned(r) ==
  /\ bash' = [q \in Roles |-> IF q = r THEN "works" ELSE "absent"]
  /\ term' = [q \in Roles |-> FALSE]
  /\ logging' = TRUE /\ cancelled' = FALSE /\ timer' = FALSE

StartProcess(r) ==
  /\ role' = r /\ verdict' = "none"
  /\ StartDaemon(r) /\ Spawned(r)
  /\ UNCHANGED <<conf, result, stopped, request, pipe, writers, lock, answer, client, said, sub, kills>>

Over(code) ==
  /\ role' = "over" /\ result' = code /\ verdict' = "none"
  /\ UNCHANGED <<conf, stopped, cancelled, logging, timer, exitcode, daemon, request, fifoVars, bashVars>>

\* EbuildPhase._async_start has come to its end.
FirstProcess == role = "starting" /\ StartProcess("ebuild")

\* The exit listener of each process says what comes next.
Failed == verdict = "fail" /\ ~(role = "ebuild" /\ conf.failContinue)
ProcessExit ==
  /\ Between /\ role \in Roles /\ verdict # "none"
  /\ CASE role = "hooks" -> IF conf.failClean THEN StartProcess("clean") ELSE Over("fail")
       [] role = "clean" -> Over("fail")
       [] OTHER -> IF Failed THEN StartProcess("hooks")
                   ELSE IF role = "ebuild" /\ conf.post THEN StartProcess("post") ELSE Over("ok")

\* The cancellation of a process stops the wait for its output and terminates bash.
CancelProcess ==
  /\ cancelled' = TRUE
  /\ IF cancelled \/ verdict # "none" THEN UNCHANGED <<logging, term>>
     ELSE logging' = FALSE /\ term' = [term EXCEPT ![role] = @ \/ ~Gone(role)]

\* EbuildPhase.cancel, from the scheduler.
Cancel ==
  /\ Between /\ May("cancel") /\ role # "over" /\ ~stopped /\ stopped' = TRUE
  /\ IF role = "starting"
     THEN role' = "over" /\ result' = "fail" /\ UNCHANGED <<cancelled, logging, term>>
     ELSE CancelProcess /\ UNCHANGED <<role, result>>
  /\ UNCHANGED <<conf, verdict, timer, exitcode, daemon, request, fifoVars, bash, said, sub, kills>>

\* Ten seconds after the exit command.  The timer that follows only asks again
\* for the exit status.
ExitTimeout ==
  /\ Between /\ ProcessRuns /\ timer /\ timer' = FALSE
  /\ CancelProcess
  /\ UNCHANGED <<conf, role, verdict, result, stopped, exitcode, daemon, request, fifoVars, bash, said, sub, kills>>

\* The output ends when all who have inherited it are gone.
SubHolds == sub.of = role /\ sub.holds /\ sub.at \in {"lives", "asks", "dies"}
HoldsOutput == ~Gone(role) \/ Talking(role) \/ SubHolds
OutputEnds ==
  /\ Between /\ ProcessRuns /\ logging /\ ~HoldsOutput
  /\ logging' = FALSE
  /\ UNCHANGED <<conf, role, verdict, result, stopped, cancelled, timer, exitcode, daemon, request, fifoVars, bashVars>>

MutVerdict(r) == IF HasIpc(r) /\ exitcode = "fail" THEN "fail" ELSE bash[r]
\* _async_waitpid_cb: the announced code, or a failure if there was none.
Verdict(r) ==
  IF HasIpc(r) THEN IF exitcode = "succeed" THEN "ok" ELSE "fail" ELSE bash[r]
Reaped ==
  /\ Between /\ ProcessRuns /\ ~logging /\ Gone(role)
  /\ verdict' = Verdict(role) /\ timer' = FALSE
  /\ daemon' = "closed" /\ pipe' = Kept(pipe, writers # {})
  /\ UNCHANGED <<conf, role, result, stopped, cancelled, logging, exitcode, request>>
  /\ UNCHANGED <<writers, hangup, lock, answer, client, bashVars>>

EmergeStep == FirstProcess \/ ProcessExit \/ ExitTimeout \/ OutputEnds \/ Reaped

BashStep(r) ==
  \/ Query(r) \/ ClientBack(r)
  \/ \E code \in {"succeed", "fail"} : Announce(r, code)
  \/ \E status \in {"ok", "fail"} : ExitSilently(r, status)
SubStep == SubAsks("query", "asks") \/ SubAsks("fail", "dies") \/ SubEnds

EbuildNext ==
  \/ EmergeStep \/ DaemonStep \/ Cancel
  \/ \E c \in Clients : ClientStep(c) \/ KillClient(c)
  \/ \E r \in Roles : BashStep(r) \/ KillBash(r) \/ (\E holds \in BOOLEAN : Fork(r, holds))
  \/ SubStep \/ SubBack

\* The event loop comes to every callback that is ready, the timer's too, and every
\* process goes on, but a subshell in the background may live for ever.
EbuildFairness ==
  /\ WF_ebuildVars(EmergeStep) /\ WF_ebuildVars(DaemonStep)
  /\ WF_ebuildVars(\E c \in Clients : ClientStep(c))
  /\ WF_ebuildVars(SubBack \/ \E r \in Roles : BashStep(r))
EbuildSpec == EbuildInit /\ [][EbuildNext]_ebuildVars /\ EbuildFairness

(****************************************************************************)
(* Properties.                                                               *)
(****************************************************************************)
\* A subshell whose death was heard before bash announced anything is not passed over.
DieHonoured == kills = 0 /\ sub.early /\ role = sub.of => verdict # "ok"
\* A client gets the answer to its own question.
OwnAnswer == kills = 0 => \A c \in Clients : client[c].got # "other"
\* A phase succeeds only when the ebuild's code did, and what follows it.
WholePhase ==
  result = "ok" => /\ said["ebuild"] = "succeed" \/ conf.failContinue
                   /\ conf.post => said["post"] = "succeed"
EbuildVerdict == DieHonoured /\ OwnAnswer /\ WholePhase

\* Once an exit code has been announced, or the phase has been cancelled, each
\* process of it comes to an end whatever the ebuild has left running.  There are
\* two things that emerge waits for without a limit: the output that a subshell
\* holds when bash has gone without a word, and a client of an earlier process whose
\* command got lost with that process's daemon, and which keeps the lock.
RunOf(c) == IF c = "sub" THEN sub.of ELSE c
LeftBehind == lock \in Clients /\ RunOf(lock) # role
Unannounced == exitcode = "none" /\ ~cancelled /\ SubHolds
PhaseEnds == []<>(role = "over" \/ LeftBehind \/ Unannounced)
==============================================================================
