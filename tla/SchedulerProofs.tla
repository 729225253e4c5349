--------------------------- MODULE SchedulerProofs ---------------------------
(***************************************************************************)
(* The scheduler, for every merge list, number of jobs, set of features    *)
(* and sequence of failures and signals.                                   *)
(*                                                                         *)
(* IInv is the inductive invariant.  Its heart is TaskLife: where a task   *)
(* is in its life, which exit listeners it has, which queue holds it and   *)
(* which of its callbacks are still to be called all agree.  From that     *)
(* follow the counts (a build under way has exactly one exit to come),     *)
(* the coverage of _running_tasks (so that the main loop ends last), the   *)
(* resume list (a package leaves it with its merge, whose exit callback    *)
(* comes once) and the exclusion of merges.  Then come one lemma for each  *)
(* action, and the theorems.                                               *)
(***************************************************************************)
EXTENDS Scheduler, FiniteSetTheorems, SequenceTheorems, NaturalsInduction,
        WellFoundedInduction, TLAPS

\* States of a task: ended, and on the way in a task queue.
Ended == {"ok", "fail"}
Live  == {"queued", "run"}
\* The exit listeners that the scheduler gives to its tasks.
ExitKinds == {"build_exit", "merge_exit", "wait_exit", "setup_exit"}

\* The exit listener that the scheduler gives to task t.
Own(k, t) == \/ t[1] = "build" /\ k = "build_exit"
             \/ t[1] = "merge" /\ k \in {"merge_exit", "wait_exit"}
             \/ t[1] = "setup" /\ k = "setup_exit"

\* The callback that ends the main loop.
Stopping == <<"stop", <<>>>>

\* No element of s comes twice.
Alone(s) == \A i, j \in 1..Len(s) : s[i] = s[j] => i = j

\* The life of task t, with states s, exit listeners ls, task queues qu, running
\* tasks ac and pending callbacks P.  Who is queued has the listener of the
\* scheduler; who runs that of its queue as well; who has ended leaves the
\* running tasks of its queue when the queue's callback comes.
TaskLife(t, s, ls, qu, ac, P) ==
  /\ s[t] \in {"none", "wait"} \cup Ended => ls[t] = <<>>
  /\ s[t] = "queued" =>
       t \in InSeq(qu[QueueOf(t)]) /\ \E k \in ExitKinds : Own(k, t) /\ ls[t] = <<k>>
  /\ s[t] = "run" =>
       /\ t \in ac[QueueOf(t)]
       /\ \E k \in ExitKinds : /\ Own(k, t)
                               /\ ls[t] \in {<<"queue_exit", k>>, <<k, "queue_exit">>}
  /\ \A q \in Queues : t \in InSeq(qu[q]) => q = QueueOf(t) /\ s[t] = "queued"
  /\ \A q \in Queues : t \in ac[q] =>
       /\ q = QueueOf(t)
       /\ s[t] = "run" \/ (s[t] \in Ended /\ <<"queue_exit", t>> \in P)
  /\ <<"queue_exit", t>> \in P => t \in ac[QueueOf(t)] /\ s[t] \in Ended
  /\ \A k \in ExitKinds : <<k, t>> \in P => Own(k, t) /\ s[t] \in Ended
  /\ ~ (<<"merge_exit", t>> \in P /\ <<"wait_exit", t>> \in P)

Life(s, ls, qu, ac, P) ==
  /\ \A q \in Queues : Alone(qu[q])
  /\ \A t \in Tasks : TaskLife(t, s, ls, qu, ac, P)

\* The callbacks that are still to be called.
Pending == InSeq(ready)
InLife == phase \notin {"done", "raised"}

\* A callback is about a task, or is one of the two about none.
Shapes == \A c \in Pending :
  \/ c[1] \in {"term", "stop"} /\ c[2] = <<>>
  \/ c[1] \notin {"term", "stop"} /\ c[2] \in Tasks

\* No exit callback is queued twice.
Single(s) == \A i, j \in 1..Len(s) :
               s[i] = s[j] /\ s[i][1] # "merge_started" => i = j

Once == Single(ready)

\* Where each task is, while merge() runs.
LifeOK == InLife => Life(st, listeners, queue, active, Pending)

\* The way of a package: queue, build, and only then its merge, which may wait.
Course == InLife =>
  /\ \A p \in InSeq(pkgQueue) : st[Build(p)] = "none" /\ st[Merge(p)] = "none"
  /\ Alone(pkgQueue) /\ Alone(waitQueue)
  /\ \A p \in Pkgs :
       /\ p \in InSeq(waitQueue) <=> st[Merge(p)] = "wait"
       /\ st[Merge(p)] # "none" => p \in Uninstalls \/ st[Build(p)] = "ok"
       /\ <<"build_exit", Build(p)>> \in Pending => st[Merge(p)] = "none"
       /\ p \in Uninstalls => st[Build(p)] = "none"
       /\ st[Setup(p)] \in Live => st[Build(p)] = "run"

\* No merge waits for the end of the builds: no merge-wait, and no package that is
\* known as a system package.
NeverWaits == ~MergeWait /\ \A p \in Pkgs : ~IsSystem(p)
\* A waiting merge that is started after _terminate_tasks has left _running_tasks, so
\* that the main loop may end before it: what follows from _running_tasks holds only
\* without termination, or where no merge waits.
Orderly == terminatedTasks => NeverWaits

\* _running_tasks covers what is under way.
Covered ==
  /\ NeverWaits => waitQueue = <<>> /\ waitScheduled = {} /\ \A t \in Tasks : st[t] # "wait"
  /\ Orderly /\ InLife => \A t \in Tasks :
        t[1] # "setup" /\ st[t] \in {"wait"} \cup Live => t \in running
  /\ ~terminatedTasks => \A k \in ExitKinds \ {"setup_exit"}, t \in Tasks :
        <<k, t>> \in Pending => t \in running
  /\ \A p \in waitScheduled :
        \/ "wait_exit" \in InSeq(listeners[Merge(p)])
        \/ <<"wait_exit", Merge(p)>> \in Pending

\* Job tokens: none is lost, and only builds under way hold one.
TokensKept ==
  /\ pool + Cardinality(Held) <= Tokens
  /\ {p \in Pkgs : token[p] # "none"} \subseteq UnderWay
  /\ server = "up" =>
       /\ Jobserver
       /\ Cardinality({p \in Pkgs : token[p] = "empty"}) + (IF implicit THEN 1 ELSE 0)
         = (IF HasImplicit THEN 1 ELSE 0)

\* Nothing has happened before the first main loop.
AtStart == phase = "start" => Init

\* "stop" is the last callback of a main loop, but for the check for termination.
StopLast(s) == \A i, j \in 1..Len(s) : i < j /\ s[i] = Stopping => s[j] = TermCallback

\* No main loop runs.
Outside == phase \in {"exited", "done", "raised"}

\* What has been decided is never taken back.
Signals ==
  /\ terminatedTasks => terminated
  /\ TermCallback \in Pending => terminated
  /\ Stopping \in Pending => mainExit /\ ~Outside
  /\ phase = "exited" => mainExit

\* Once _main_exit is done nothing is under way and nothing starts any more.
Halting ==
  /\ mainExit /\ Orderly => running = {} /\ ~KeepScheduling
  /\ Orderly => StopLast(ready)
  /\ Orderly /\ Outside => Pending \subseteq {TermCallback}
  /\ Orderly => ExitIsQuiet

\* The resume list: a package that has been merged is on it only until the exit
\* callback of its merge, which is still queued, has been called.
Resumable ==
  /\ Planned \subseteq resume \cup installed \cup failedAll
  /\ resume \subseteq Planned
  /\ \A p \in Pkgs : st[Merge(p)] = "ok" => p \in installed
  /\ InSeq(pkgQueue) \ Uninstalls \subseteq resume
  /\ \A p \in resume \cap installed :
        /\ InLife => st[Merge(p)] = "ok"
        /\ \E k \in {"merge_exit", "wait_exit"} : <<k, Merge(p)>> \in Pending
  /\ \A p \in completed \ Uninstalls : p \notin resume

\* What is on the resume list is queued, under way or has failed.
Tracked ==
  (~terminatedTasks /\ phase \notin {"start", "done", "raised"}) =>
    \A p \in resume :
      \/ p \in InSeq(pkgQueue) \cup failed
      \/ \E t \in {Build(p), Merge(p)} :
           \/ st[t] \in {"wait"} \cup Live
           \/ \E k \in ExitKinds : <<k, t>> \in Pending

\* The queue keeps the order of the merge list wherever it matters: for a package
\* and those it depends on.
Ordered == ~NoDeps =>
  /\ \A i, j \in 1..Len(pkgQueue) :
       /\ i < j
       /\ pkgQueue[j] \in DeepDeps(pkgQueue[i]) \ Uninstalls
       => ~ (Position(pkgQueue[j]) < Position(pkgQueue[i]))
  /\ \A p \in Pkgs : InLife /\ st[Build(p)] \in Live =>
       \A d \in DeepDeps(p) \ Uninstalls : Position(d) < Position(p) => d \notin resume

\* Merges of system packages, and merges that have waited.
Apart ==
  /\ \A p, q \in Pkgs : /\ IsSystem(p) /\ st[Merge(p)] \in Live
                        /\ IsSystem(q) /\ st[Merge(q)] \in Live
                        => p = q
  /\ flush => flushed
  /\ ~flushed =>
       /\ waitScheduled # {} \/ phase = "transfer" => jobs = 0
       /\ phase = "transfer" => \A p \in Pkgs : IsSystem(p) => st[Merge(p)] \notin Live
       /\ \A p \in waitScheduled, q \in Pkgs :
            IsSystem(p) /\ st[Merge(p)] \in Live /\ q # p => st[Merge(q)] \notin Live

\* Only a signal or the job server terminates the scheduler.
Reports == terminated => signalled \/ (Jobserver /\ JobserverMayFail)

\* The inductive invariant.
IInv == /\ TypeOK /\ Shapes /\ Once /\ LifeOK /\ Course /\ Covered /\ JobAccounting
        /\ TokensKept /\ AtStart /\ Signals /\ Halting /\ Resumable /\ Tracked /\ Ordered
        /\ Apart /\ Reports

-----------------------------------------------------------------------------
\* A set of naturals has a least element.
LEMMA LeastOne ==
  ASSUME NEW S, S \subseteq Nat, S # {}
  PROVE  \E x \in S : \A y \in S : x <= y
<1>1. PICK R : IsWellFoundedOn(R, Nat) /\ (\A x, y \in Nat : x < y => <<x, y>> \in R)
  <2>1. IsWellFoundedOn(OpToRel(<, Nat), Nat) BY NatLessThanWellFounded
  <2>2. \A x, y \in Nat : x < y => <<x, y>> \in OpToRel(<, Nat)
    BY DEF OpToRel
  <2> QED BY <2>1, <2>2
<1>2. PICK x \in S : \A y \in S : ~ (<<y, x>> \in R)
  <2>1. IsWellFoundedOn(R, Nat)
    BY <1>1
  <2>2. \A T : T \subseteq Nat /\ T # {} => \E z \in T : \A y \in T : ~ (<<y, z>> \in R)
    BY <2>1, WFMin, Zenon
  <2> QED BY <2>2
<1>3. ASSUME NEW y \in S PROVE x <= y
  <2>1. x \in Nat /\ y \in Nat OBVIOUS
  <2>2. ~ (y < x) BY <1>1, <1>2, <2>1
  <2> QED BY <2>1, <2>2
<1> QED BY <1>3

\* Order of a subsequence: h says where the elements of r come from in the
\* first n elements of s.
From(r, h, s, n) ==
  /\ h \in [1..Len(r) -> 1..n]
  /\ \A i, j \in 1..Len(r) : i < j => h[i] < h[j]
  /\ \A i \in 1..Len(r) : r[i] = s[h[i]]

\* Only keeps members of the set, in their order, and each once if it was there once.
LEMMA OnlyPart ==
  ASSUME NEW U, NEW S, NEW s \in Seq(U)
  PROVE  /\ Only(s, S) \in Seq(U)
         /\ \E h : From(Only(s, S), h, s, Len(s))
         /\ \A i \in 1..Len(Only(s, S)) : Only(s, S)[i] \in S
         /\ \A i \in 1..Len(s) : s[i] \in S => \E j \in 1..Len(Only(s, S)) : Only(s, S)[j] = s[i]
<1> DEFINE N == Len(s)
           Step(f, n) == IF n = 0 THEN <<>>
                         ELSE IF s[n] \in S THEN Append(f[n - 1], s[n]) ELSE f[n - 1]
           Good(f, m) == /\ f \in [0..m -> Seq(U)]
                         /\ \A n \in 0..m : f[n] = Step(f, n)
           bad == {m \in 0..N : ~ \E f : Good(f, m)}
<1>0. N \in Nat OBVIOUS
<1>1. bad = {}
  <2> SUFFICES ASSUME bad # {} PROVE FALSE OBVIOUS
  <2>1. PICK m \in bad : \A y \in bad : m <= y
    <3> HIDE DEF Good, N
    <3>1. bad \subseteq Nat BY <1>0
    <3> HIDE DEF bad
    <3> QED BY LeastOne, <3>1
  <2>2. m # 0
    <3>1. Good([n \in 0..0 |-> <<>>], 0)
      <4>1. 0..0 = {0} OBVIOUS
      <4> QED BY <4>1
    <3> HIDE DEF Good
    <3> QED BY <3>1, <2>1
  <2>3. m - 1 \in 0..N /\ m - 1 \notin bad
    <3> HIDE DEF Good
    <3>1. m \in 0..N OBVIOUS
    <3>2. m - 1 \in 0..N BY <3>1, <1>0, <2>2
    <3>3. ~ (m <= m - 1) BY <3>1, <1>0
    <3> HIDE DEF bad
    <3> QED BY <2>1, <3>2, <3>3
  <2>4. PICK f : Good(f, m - 1)
    <3> HIDE DEF Good
    <3> QED BY <2>3
  <2> DEFINE g == [n \in 0..m |-> IF n = m THEN Step(f, m) ELSE f[n]]
  <2>5. m \in 1..N BY <2>1, <2>2, <1>0
  <2>6. Step(f, m) \in Seq(U) BY <2>4, <2>5
  <2>7. g \in [0..m -> Seq(U)] BY <2>4, <2>5, <2>6
  <2>8. ASSUME NEW n \in 0..m PROVE g[n] = Step(g, n)
    <3>1. n # 0 => n - 1 \in 0..(m-1) /\ g[n - 1] = f[n - 1] BY <2>5
    <3>2. CASE n = m BY <3>1, <3>2
    <3>3. CASE n # m
      <4>1. n \in 0..(m - 1) BY <3>3, <2>5
      <4>2. f[n] = Step(f, n) BY <4>1, <2>4
      <4>3. g[n] = f[n] BY <3>3
      <4> QED BY <3>1, <4>2, <4>3
    <3> QED BY <3>2, <3>3
  <2>9. Good(g, m) BY <2>7, <2>8
  <2> HIDE DEF Good, g
  <2> QED BY <2>9, <2>1
<1>2. PICK f : Good(f, N)
  <2> HIDE DEF Good
  <2> QED BY <1>0, <1>1
<1>3. f = [n \in 0..N |-> Step(f, n)] BY <1>2
<1>4. PICK g : Only(s, S) = g[N] /\ g = [n \in 0..N |-> Step(g, n)]
  BY <1>3 DEF Only
<1>5. \A n \in 0..N : g[n] = Step(g, n)
  BY <1>4
\* Each prefix does what the whole does.
<1> DEFINE Ok(n) == /\ g[n] \in Seq(U)
                    /\ \E h : From(g[n], h, s, n)
                    /\ \A i \in 1..Len(g[n]) : g[n][i] \in S
                    /\ \A i \in 1..n : s[i] \in S => \E j \in 1..Len(g[n]) : g[n][j] = s[i]
           no == {n \in 0..N : ~ Ok(n)}
<1>6. Ok(0)
  <2>1. g[0] = <<>> BY <1>5, <1>0
  <2>2. From(<<>>, [i \in 1..0 |-> 1], s, 0) BY DEF From
  <2> QED BY <2>1, <2>2
<1>7. ASSUME NEW n \in 1..N, Ok(n - 1) PROVE Ok(n)
  <2>0. n \in Nat /\ n >= 1 /\ n - 1 \in Nat /\ s[n] \in U BY <1>0
  <2>1. PICK h : From(g[n - 1], h, s, n - 1) BY <1>7
  <2>2. g[n] = Step(g, n) BY <1>5, <1>0
  <2>3. CASE s[n] \notin S
    <3>1. g[n] = g[n - 1] BY <2>2, <2>3
    <3>2. From(g[n], h, s, n) BY <3>1, <2>1, <2>0 DEF From
    <3>3. \A i \in 1..n : s[i] \in S => i \in 1..(n - 1) BY <2>3, <2>0
    <3> QED BY <1>7, <3>1, <3>2, <3>3
  <2>4. CASE s[n] \in S
    <3> DEFINE L == Len(g[n - 1])
               k == [i \in 1..(L + 1) |-> IF i = L + 1 THEN n ELSE h[i]]
    <3>1. g[n] = Append(g[n - 1], s[n]) BY <2>2, <2>4
    <3>2. /\ g[n] \in Seq(U) /\ Len(g[n]) = L + 1
          /\ g[n][L + 1] = s[n] /\ \A i \in 1..L : g[n][i] = g[n - 1][i]
      BY <3>1, <2>0, <1>7
    <3>3. L \in Nat BY <1>7
    <3>a. From(g[n - 1], h, s, n - 1) /\ (\A i \in 1..L : g[n - 1][i] \in S)
      BY <2>1, <1>7
    <3> HIDE DEF L
    <3>b. \A i \in 1..(L + 1) : i = L + 1 \/ i \in 1..L BY <3>3
    <3>c. /\ \A i \in 1..L : h[i] \in 1..(n - 1) /\ k[i] = h[i] /\ g[n - 1][i] = s[h[i]]
          /\ \A i, j \in 1..L : i < j => h[i] < h[j]
          /\ k[L + 1] = n
      BY <3>a, <3>3, <2>0 DEF From, L
    <3>4. From(g[n], k, s, n)
      <4>1. k \in [1..(L + 1) -> 1..n]
        <5>1. \A x \in 1..(n - 1) : x \in 1..n BY <2>0
        <5>2. \A i \in 1..L : h[i] \in 1..n
          <6> HIDE DEF k
          <6> QED BY <3>c, <5>1
        <5> HIDE DEF N
        <5>3. \A i \in 1..(L + 1) : (IF i = L + 1 THEN n ELSE h[i]) \in 1..n
          BY <3>b, <2>0, <5>2
        <5> QED BY <5>3
      <4>2. ASSUME NEW i \in 1..(L + 1), NEW j \in 1..(L + 1), i < j PROVE k[i] < k[j]
        <5>1. i \in 1..L BY <4>2, <3>3
        <5> HIDE DEF k
        <5>2. CASE j = L + 1 BY <5>1, <5>2, <3>c, <2>0
        <5>3. CASE j \in 1..L BY <5>1, <5>3, <3>c, <4>2
        <5> QED BY <5>2, <5>3, <3>b
      <4>3. ASSUME NEW i \in 1..(L + 1) PROVE g[n][i] = s[k[i]]
        <5> HIDE DEF k
        <5> QED BY <3>b, <3>c, <3>2
      <4> HIDE DEF k
      <4> QED BY <4>1, <4>2, <4>3, <3>2 DEF From
    <3>5. \A i \in 1..(L + 1) : g[n][i] \in S BY <3>2, <3>a, <3>b, <2>4
    <3>6. ASSUME NEW i \in 1..n, s[i] \in S PROVE \E j \in 1..(L + 1) : g[n][j] = s[i]
      <4>1. CASE i = n BY <4>1, <3>2, <3>3
      <4>2. CASE i # n
        <5>1. i \in 1..(n - 1) BY <4>2, <2>0
        <5>2. PICK j \in 1..L : g[n - 1][j] = s[i] BY <5>1, <3>6, <1>7 DEF L
        <5> QED BY <5>2, <3>2, <3>3
      <4> QED BY <4>1, <4>2
    <3> QED BY <3>2, <3>4, <3>5, <3>6
  <2> QED BY <2>3, <2>4
<1>8. no = {}
  <2> SUFFICES ASSUME no # {} PROVE FALSE OBVIOUS
  <2> HIDE DEF Ok
  <2>1. no \subseteq Nat BY <1>0
  <2>2. PICK m \in no : \A y \in no : m <= y
    <3> HIDE DEF no
    <3> QED BY <2>1, LeastOne
  <2>3. m \in 1..N BY <1>6, <1>0
  <2>4. m - 1 \in 0..N /\ ~ (m <= m - 1) BY <2>3, <1>0
  <2>5. Ok(m - 1)
    <3>1. m - 1 \notin no
      <4> HIDE DEF no
      <4> QED BY <2>2, <2>4
    <3> QED BY <3>1, <2>4
  <2> QED BY <1>7, <2>3, <2>5
<1>9. Ok(N)
  <2> HIDE DEF Ok
  <2> QED BY <1>8, <1>0
<1> QED BY <1>9, <1>4
-----------------------------------------------------------------------------
(* Sequences and tasks                                                     *)

\* What Only returns, without its order.
LEMMA OnlyIs ==
  ASSUME NEW U, NEW S, NEW s \in Seq(U)
  PROVE  /\ Only(s, S) \in Seq(U)
         /\ InSeq(Only(s, S)) = InSeq(s) \cap S
         /\ Alone(s) => Alone(Only(s, S))
<1> DEFINE r == Only(s, S)
<1>1. /\ r \in Seq(U)
      /\ \A i \in 1..Len(r) : r[i] \in S
      /\ \A i \in 1..Len(s) : s[i] \in S => \E j \in 1..Len(r) : r[j] = s[i]
  BY OnlyPart
<1>2. PICK h : From(r, h, s, Len(s)) BY OnlyPart
<1> HIDE DEF r
<1>3. \A i \in 1..Len(r) : h[i] \in 1..Len(s) /\ r[i] = s[h[i]] BY <1>2 DEF From
<1>4. InSeq(r) = InSeq(s) \cap S BY <1>1, <1>3 DEF InSeq
<1>5. ASSUME Alone(s), NEW i \in 1..Len(r), NEW j \in 1..Len(r), r[i] = r[j] PROVE i = j
  <2>1. h[i] = h[j] BY <1>3, <1>5 DEF Alone
  <2>2. ~ (i < j) /\ ~ (j < i) BY <2>1, <1>2, <1>3 DEF From
  <2> QED BY <2>2, <1>1
<1> QED BY <1>1, <1>4, <1>5 DEF Alone, r

\* A sequence is its head and its tail.
LEMMA TailIs ==
  ASSUME NEW U, NEW s \in Seq(U), s # <<>>
  PROVE  /\ Tail(s) \in Seq(U) /\ Head(s) \in U
         /\ InSeq(s) = {Head(s)} \cup InSeq(Tail(s))
         /\ Alone(s) => Alone(Tail(s)) /\ Head(s) \notin InSeq(Tail(s))
<1>1. /\ Len(s) \in Nat /\ Len(s) >= 1 /\ Len(Tail(s)) = Len(s) - 1 /\ Head(s) = s[1]
      /\ Tail(s) \in Seq(U)
      /\ \A i \in 1..Len(Tail(s)) : Tail(s)[i] = s[i + 1] /\ i + 1 \in 1..Len(s)
  OBVIOUS
<1>2. InSeq(Tail(s)) \subseteq InSeq(s) /\ Head(s) \in InSeq(s)
  BY <1>1 DEF InSeq
<1>3. ASSUME NEW x \in InSeq(s), x # Head(s) PROVE x \in InSeq(Tail(s))
  <2>1. PICK i \in 1..Len(s) : x = s[i] BY DEF InSeq
  <2>2. i # 1 BY <2>1, <1>1, <1>3
  <2>3. i - 1 \in 1..Len(Tail(s)) /\ Tail(s)[i - 1] = s[i] BY <2>2, <1>1
  <2> QED BY <2>1, <2>3 DEF InSeq
<1>4. ASSUME Alone(s) PROVE Alone(Tail(s)) /\ Head(s) \notin InSeq(Tail(s))
  <2>1. Alone(Tail(s)) BY <1>1, <1>4 DEF Alone
  <2>2. ASSUME NEW i \in 1..Len(Tail(s)) PROVE Tail(s)[i] # Head(s)
    <3>1. i + 1 \in 1..Len(s) /\ 1 \in 1..Len(s) /\ i + 1 # 1 BY <1>1
    <3> QED BY <3>1, <1>1, <1>4 DEF Alone
  <2> QED BY <2>1, <2>2 DEF InSeq
<1> QED BY <1>1, <1>2, <1>3, <1>4

\* What a concatenation holds.
LEMMA ConcatIs ==
  ASSUME NEW U, NEW s \in Seq(U), NEW r \in Seq(U)
  PROVE  /\ s \o r \in Seq(U)
         /\ InSeq(s \o r) = InSeq(s) \cup InSeq(r)
         /\ Alone(s) /\ Alone(r) /\ InSeq(s) \cap InSeq(r) = {} => Alone(s \o r)
<1>1. /\ Len(s) \in Nat /\ Len(r) \in Nat /\ Len(s \o r) = Len(s) + Len(r)
      /\ s \o r \in Seq(U)
      /\ \A i \in 1..Len(s) : i \in 1..Len(s \o r) /\ (s \o r)[i] = s[i]
      /\ \A i \in 1..Len(r) : Len(s) + i \in 1..Len(s \o r) /\ (s \o r)[Len(s) + i] = r[i]
  OBVIOUS
<1>2. ASSUME NEW i \in 1..Len(s \o r), i \notin 1..Len(s)
      PROVE  i - Len(s) \in 1..Len(r) /\ (s \o r)[i] = r[i - Len(s)]
  BY <1>1, <1>2
<1>3. InSeq(s \o r) = InSeq(s) \cup InSeq(r)
  <2>1. InSeq(s) \cup InSeq(r) \subseteq InSeq(s \o r) BY <1>1 DEF InSeq
  <2>2. ASSUME NEW i \in 1..Len(s \o r) PROVE (s \o r)[i] \in InSeq(s) \cup InSeq(r)
    BY <1>1, <1>2 DEF InSeq
  <2> QED BY <2>1, <2>2 DEF InSeq
<1>4. ASSUME Alone(s), Alone(r), InSeq(s) \cap InSeq(r) = {},
             NEW i \in 1..Len(s \o r), NEW j \in 1..Len(s \o r), (s \o r)[i] = (s \o r)[j]
      PROVE  i = j
  <2>1. CASE i \in 1..Len(s) /\ j \in 1..Len(s) BY <1>1, <1>4, <2>1 DEF Alone
  <2>2. CASE i \notin 1..Len(s) /\ j \notin 1..Len(s)
    <3>1. i - Len(s) = j - Len(s) BY <1>2, <1>4, <2>2 DEF Alone
    <3> QED BY <3>1, <1>1
  <2>3. CASE i \in 1..Len(s) /\ j \notin 1..Len(s)
    <3>1. s[i] \in InSeq(s) /\ r[j - Len(s)] \in InSeq(r) BY <1>2, <2>3 DEF InSeq
    <3> QED BY <3>1, <1>1, <1>2, <1>4, <2>3
  <2>4. CASE i \notin 1..Len(s) /\ j \in 1..Len(s)
    <3>1. s[j] \in InSeq(s) /\ r[i - Len(s)] \in InSeq(r) BY <1>2, <2>4 DEF InSeq
    <3> QED BY <3>1, <1>1, <1>2, <1>4, <2>4
  <2> QED BY <2>1, <2>2, <2>3, <2>4
<1> QED BY <1>1, <1>3, <1>4 DEF Alone

\* What a sequence holds after an Append.
LEMMA AppendIs ==
  ASSUME NEW U, NEW s \in Seq(U), NEW x \in U
  PROVE  /\ Append(s, x) \in Seq(U)
         /\ InSeq(Append(s, x)) = InSeq(s) \cup {x}
         /\ Alone(s) /\ x \notin InSeq(s) => Alone(Append(s, x))
<1>1. /\ Len(Append(s, x)) = Len(s) + 1 /\ Len(s) \in Nat /\ Append(s, x) \in Seq(U)
      /\ \A i \in 1..Len(s) : Append(s, x)[i] = s[i]
      /\ Append(s, x)[Len(s) + 1] = x
      /\ \A i \in 1..(Len(s) + 1) : i \in 1..Len(s) \/ i = Len(s) + 1
  OBVIOUS
<1>2. InSeq(Append(s, x)) = InSeq(s) \cup {x}
  <2>1. InSeq(s) \cup {x} \subseteq InSeq(Append(s, x)) BY <1>1 DEF InSeq
  <2>2. InSeq(Append(s, x)) \subseteq InSeq(s) \cup {x} BY <1>1 DEF InSeq
  <2> QED BY <2>1, <2>2
<1>3. Alone(s) /\ x \notin InSeq(s) => Alone(Append(s, x))
  BY <1>1 DEF InSeq, Alone
<1> QED BY <1>1, <1>2, <1>3

\* Short sequences.
LEMMA Pairs ==
  ASSUME NEW a, NEW b
  PROVE  /\ Append(<<>>, a) = <<a>> /\ <<>> \o <<a>> = <<a>> /\ <<a>> \o <<>> = <<a>>
         /\ Append(<<a>>, b) = <<a, b>> /\ <<a>> \o <<b>> = <<a, b>>
         /\ <<a, b>> \o <<>> = <<a, b>>
         /\ InSeq(<<a>>) = {a} /\ InSeq(<<a, b>>) = {a, b}
<1> DEFINE T == {a, b}
<1>0. /\ <<>> \in Seq(T) /\ <<a>> \in Seq(T) /\ <<b>> \in Seq(T) /\ <<a, b>> \in Seq(T)
      /\ a \in T /\ b \in T
  OBVIOUS
<1> HIDE DEF T
<1>1. <<>> \o <<a>> = <<a>> /\ <<a>> \o <<>> = <<a>> /\ <<a, b>> \o <<>> = <<a, b>>
  BY <1>0, ConcatEmptySeq
<1>2. Append(<<>>, a) = <<a>>
  BY <1>0
<1>3. Append(<<a>>, b) = <<a, b>>
  <2>1. /\ Append(<<a>>, b) \in Seq(T) /\ Len(Append(<<a>>, b)) = 2
        /\ Append(<<a>>, b)[1] = a /\ Append(<<a>>, b)[2] = b
    BY <1>0
  <2>2. Len(<<a, b>>) = 2 /\ <<a, b>>[1] = a /\ <<a, b>>[2] = b /\ 1..2 = {1, 2} OBVIOUS
  <2> QED BY <2>1, <2>2, <1>0, SeqEqual
<1>4. <<a>> \o <<b>> = <<a, b>>
  <2>1. /\ <<a>> \o <<b>> \in Seq(T) /\ Len(<<a>> \o <<b>>) = 2
        /\ (<<a>> \o <<b>>)[1] = a /\ (<<a>> \o <<b>>)[2] = b
    BY <1>0, ConcatProperties
  <2>2. Len(<<a, b>>) = 2 /\ <<a, b>>[1] = a /\ <<a, b>>[2] = b /\ 1..2 = {1, 2} OBVIOUS
  <2> QED BY <2>1, <2>2, <1>0, SeqEqual
<1>5. InSeq(<<a>>) = {a} /\ InSeq(<<a, b>>) = {a, b}
  <2>1. 1..1 = {1} /\ 1..2 = {1, 2} OBVIOUS
  <2> QED BY <2>1 DEF InSeq
<1> QED BY <1>1, <1>2, <1>3, <1>4, <1>5

\* What a sequence holds with a new first element.
LEMMA FrontIs ==
  ASSUME NEW U, NEW s \in Seq(U), NEW x \in U
  PROVE  /\ <<x>> \o s \in Seq(U)
         /\ InSeq(<<x>> \o s) = InSeq(s) \cup {x}
         /\ Alone(s) /\ x \notin InSeq(s) => Alone(<<x>> \o s)
<1> DEFINE f == <<x>>
<1>1. f \in Seq(U) /\ Len(f) = 1 OBVIOUS
<1>2. InSeq(f) = {x} BY Pairs
<1>3. Alone(f) BY <1>1 DEF Alone
<1> HIDE DEF f
<1>4. /\ f \o s \in Seq(U)
      /\ InSeq(f \o s) = InSeq(f) \cup InSeq(s)
      /\ Alone(f) /\ Alone(s) /\ InSeq(f) \cap InSeq(s) = {} => Alone(f \o s)
  BY <1>1, ConcatIs
<1>5. x \notin InSeq(s) => InSeq(f) \cap InSeq(s) = {} BY <1>2
<1> QED BY <1>2, <1>3, <1>4, <1>5 DEF f

\* A sequence is a prefix and the rest; without repetitions the two are disjoint.
LEMMA PrefixIs ==
  ASSUME NEW U, NEW s \in Seq(U), NEW n \in 0..Len(s)
  PROVE  LET a == SubSeq(s, 1, n)
             b == SubSeq(s, n + 1, Len(s))
         IN  /\ a \in Seq(U) /\ b \in Seq(U)
             /\ InSeq(s) = InSeq(a) \cup InSeq(b)
             /\ Alone(s) => InSeq(a) \cap InSeq(b) = {} /\ Alone(b)
<1> DEFINE a == SubSeq(s, 1, n)
           b == SubSeq(s, n + 1, Len(s))
<1>1. /\ a \in Seq(U) /\ Len(a) = n /\ b \in Seq(U) /\ Len(b) = Len(s) - n
      /\ n \in Nat /\ Len(s) \in Nat /\ n <= Len(s)
      /\ \A i \in 1..n : a[i] = s[i]
      /\ \A i \in 1..Len(b) : b[i] = s[n + i]
  BY SubSeqProperties
<1> HIDE DEF a, b
<1>2. \A i \in 1..Len(b) : n + i \in 1..Len(s) BY <1>1
<1>3. \A i \in 1..n : i \in 1..Len(s) BY <1>1
<1>4. \A i \in 1..Len(s) : i \in 1..n \/ (i - n \in 1..Len(b) /\ i = n + (i - n)) BY <1>1
<1>5. InSeq(a) \cup InSeq(b) \subseteq InSeq(s)
  <2>1. \A i \in 1..n : a[i] \in InSeq(s) BY <1>1, <1>3 DEF InSeq
  <2>2. \A i \in 1..Len(b) : b[i] \in InSeq(s) BY <1>1, <1>2 DEF InSeq
  <2> QED BY <2>1, <2>2, <1>1 DEF InSeq
<1>6. ASSUME NEW i \in 1..Len(s) PROVE s[i] \in InSeq(a) \cup InSeq(b)
  <2>1. CASE i \in 1..n BY <2>1, <1>1 DEF InSeq
  <2>2. CASE i - n \in 1..Len(b) /\ i = n + (i - n)
    <3>1. b[i - n] = s[i] BY <2>2, <1>1
    <3> QED BY <2>2, <3>1 DEF InSeq
  <2> QED BY <2>1, <2>2, <1>4
<1>7. InSeq(s) = InSeq(a) \cup InSeq(b) BY <1>5, <1>6 DEF InSeq
<1>8. ASSUME Alone(s) PROVE InSeq(a) \cap InSeq(b) = {} /\ Alone(b)
  <2>1. ASSUME NEW i \in 1..n, NEW j \in 1..Len(b) PROVE a[i] # b[j]
    <3>1. i \in 1..Len(s) /\ n + j \in 1..Len(s) /\ i # n + j BY <1>1, <1>2, <1>3
    <3> QED BY <3>1, <1>1, <1>8 DEF Alone
  <2>2. ASSUME NEW i \in 1..Len(b), NEW j \in 1..Len(b), b[i] = b[j] PROVE i = j
    <3>1. n + i = n + j BY <2>2, <1>1, <1>2, <1>8 DEF Alone
    <3> QED BY <3>1, <1>1
  <2> QED BY <2>1, <2>2, <1>1 DEF InSeq, Alone
<1> QED BY <1>1, <1>7, <1>8 DEF a, b

\* What WithoutAt removes and keeps.
LEMMA WithoutIs ==
  ASSUME NEW U, NEW s \in Seq(U), NEW i \in 1..Len(s)
  PROVE  /\ WithoutAt(s, i) \in Seq(U)
         /\ Len(WithoutAt(s, i)) = Len(s) - 1
         /\ InSeq(WithoutAt(s, i)) \subseteq InSeq(s)
         /\ InSeq(s) = InSeq(WithoutAt(s, i)) \cup {s[i]}
         /\ Alone(s) => Alone(WithoutAt(s, i)) /\ s[i] \notin InSeq(WithoutAt(s, i))
<1> DEFINE r == WithoutAt(s, i)
           at(j) == IF j < i THEN j ELSE j + 1
<1>0. Len(s) \in Nat /\ Len(s) >= 1 OBVIOUS
<1>1. /\ r \in Seq(U) /\ Len(r) = Len(s) - 1
      /\ \A j \in 1..(Len(s) - 1) : r[j] = s[at(j)] /\ at(j) \in 1..Len(s) /\ at(j) # i
  BY <1>0 DEF WithoutAt
<1>2. \A j, k \in 1..(Len(s) - 1) : at(j) = at(k) => j = k BY <1>0
<1>3. \A k \in 1..Len(s) : k # i => \E j \in 1..(Len(s) - 1) : at(j) = k
  <2> SUFFICES ASSUME NEW k \in 1..Len(s), k # i PROVE \E j \in 1..(Len(s) - 1) : at(j) = k
    OBVIOUS
  <2>1. CASE k < i
    <3>1. k \in 1..(Len(s) - 1) /\ at(k) = k BY <2>1, <1>0
    <3> QED BY <3>1
  <2>2. CASE k > i
    <3>1. k - 1 \in 1..(Len(s) - 1) /\ at(k - 1) = k BY <2>2, <1>0
    <3> QED BY <3>1
  <2> QED BY <2>1, <2>2
<1> HIDE DEF r, at
<1>4. InSeq(r) \subseteq InSeq(s) BY <1>1 DEF InSeq
<1>5. InSeq(s) \subseteq InSeq(r) \cup {s[i]} BY <1>1, <1>3 DEF InSeq
<1>6. s[i] \in InSeq(s) BY DEF InSeq
<1>7. ASSUME Alone(s) PROVE Alone(r) /\ s[i] \notin InSeq(r)
  BY <1>1, <1>2, <1>7 DEF Alone, InSeq
<1> QED BY <1>1, <1>4, <1>5, <1>6, <1>7 DEF r

\* What the assumption says.
LEMMA Given ==
  /\ IsFiniteSet(Pkgs) /\ MergeList \in Seq(Pkgs) /\ Alone(MergeList)
  /\ Uninstalls \subseteq Pkgs /\ SystemPkgs \subseteq Pkgs \ Uninstalls
  /\ Replaces \in [Pkgs -> SUBSET Uninstalls]
  /\ RuntimeDeps \in [Pkgs -> SUBSET Pkgs] /\ Deps \in [Pkgs -> SUBSET Pkgs]
  /\ MaxJobs \in Nat \ {0} /\ Tokens \in Nat
  /\ Jobserver \in BOOLEAN /\ HasImplicit \in BOOLEAN
BY SchedulerAssumption DEF Alone

\* The three tasks of a package are different, and no two packages share one.
LEMMA TaskIs ==
  /\ \A p \in Pkgs : Build(p) \in Tasks /\ Merge(p) \in Tasks /\ Setup(p) \in Tasks
  /\ \A p : /\ Build(p)[1] = "build" /\ Merge(p)[1] = "merge" /\ Setup(p)[1] = "setup"
            /\ Build(p)[2] = p /\ Merge(p)[2] = p /\ Setup(p)[2] = p
  /\ \A p, q : /\ Build(p) = Build(q) => p = q
               /\ Merge(p) = Merge(q) => p = q
               /\ Setup(p) = Setup(q) => p = q
               /\ Build(p) # Merge(q) /\ Build(p) # Setup(q) /\ Merge(p) # Setup(q)
  /\ \A t \in Tasks : /\ t[2] \in Pkgs /\ t[1] \in {"build", "merge", "setup"}
                      /\ t[1] = "build" => t = Build(t[2])
                      /\ t[1] = "merge" => t = Merge(t[2])
                      /\ t[1] = "setup" => t = Setup(t[2])
BY DEF Build, Merge, Setup, Tasks

\* Each task has a queue, and each queue room for a task.
LEMMA QueueIs ==
  /\ \A t \in Tasks : QueueOf(t) \in Queues
  /\ \A p : QueueOf(Build(p)) = "jobs" /\ QueueOf(Merge(p)) = "merge"
            /\ QueueOf(Setup(p)) = SetupQueue /\ SetupQueue \in {"merge", "ebuild_locks"}
  /\ \A q \in Queues : QueueMax(q) \in Nat \ {0}
<1>1. \A p : QueueOf(Build(p)) = "jobs" /\ QueueOf(Merge(p)) = "merge"
             /\ QueueOf(Setup(p)) = SetupQueue
  BY DEF QueueOf, Build, Merge, Setup
<1>2. SetupQueue \in {"merge", "ebuild_locks"}
  BY DEF SetupQueue
<1>3. \A q \in Queues : QueueMax(q) \in Nat \ {0}
  BY Given DEF QueueMax, Queues, MergeMax
<1>4. \A t \in Tasks : QueueOf(t) \in Queues
  BY <1>1, <1>2, TaskIs DEF Queues
<1> QED BY <1>1, <1>2, <1>3, <1>4

TaskStates == {"none", "wait", "queued", "run", "ok", "fail"}

\* schedule() starts some of the tasks of dq, in order.
Pumped(q, dq, act, s, ls, rd, x, h, S, rest, ms) ==
  /\ S \subseteq Tasks /\ rest \in Seq(Tasks) /\ ms \in Seq(Callbacks)
  /\ IsFiniteSet(S)
  /\ InSeq(dq) = S \cup InSeq(rest)
  /\ Alone(dq) => S \cap InSeq(rest) = {} /\ Alone(rest)
  /\ \A c \in InSeq(ms) : c[1] = "merge_started" /\ c[2] \in S
  /\ \A t \in S \cap SystemMerges : <<"merge_started", t>> \in InSeq(ms)
  /\ queue' = [queue EXCEPT ![q] = rest]
  /\ active' = [active EXCEPT ![q] = act \cup S]
  /\ st' = [t \in Tasks |-> IF t \in S THEN "run" ELSE s[t]]
  /\ listeners' = [t \in Tasks |->
       (IF t \in S THEN Append(ls[t], "queue_exit") ELSE ls[t]) \o (IF t = x THEN h ELSE <<>>)]
  /\ ready' = rd \o ms

\* What schedule() leaves behind: the tasks S have been started, rest is queued.
LEMMA PumpIs ==
  ASSUME NEW q \in Queues, NEW dq \in Seq(Tasks), NEW act, NEW s,
         NEW ls \in [Tasks -> Seq(Kinds)], NEW rd, NEW x \in Tasks, NEW h \in Seq(Kinds),
         Pump(q, dq, act, s, ls, rd, x, h)
  PROVE  \E S, rest, ms : Pumped(q, dq, act, s, ls, rd, x, h, S, rest, ms)
<1>1. PICK n \in 0..Len(dq) :
    LET starts == SubSeq(dq, 1, n)
        l == [t \in Tasks |-> IF t \in InSeq(starts)
                              THEN Append(ls[t], "queue_exit") ELSE ls[t]]
        system == Only(starts, SystemMerges)
    IN  /\ queue' = [queue EXCEPT ![q] = SubSeq(dq, n + 1, Len(dq))]
        /\ active' = [active EXCEPT ![q] = act \cup InSeq(starts)]
        /\ st' = [t \in Tasks |-> IF t \in InSeq(starts) THEN "run" ELSE s[t]]
        /\ listeners' = [l EXCEPT ![x] = @ \o h]
        /\ ready' = rd \o [i \in 1..Len(system) |-> <<"merge_started", system[i]>>]
  BY DEF Pump
<1> DEFINE starts == SubSeq(dq, 1, n)
           S == InSeq(starts)
           rest == SubSeq(dq, n + 1, Len(dq))
           system == Only(starts, SystemMerges)
           ms == [i \in 1..Len(system) |-> <<"merge_started", system[i]>>]
           l == [t \in Tasks |-> IF t \in S THEN Append(ls[t], "queue_exit") ELSE ls[t]]
<1>2. /\ starts \in Seq(Tasks) /\ rest \in Seq(Tasks)
      /\ InSeq(dq) = S \cup InSeq(rest)
      /\ Alone(dq) => S \cap InSeq(rest) = {} /\ Alone(rest)
  BY PrefixIs
<1>3. /\ queue' = [queue EXCEPT ![q] = rest]
      /\ active' = [active EXCEPT ![q] = act \cup S]
      /\ st' = [t \in Tasks |-> IF t \in S THEN "run" ELSE s[t]]
      /\ listeners' = [l EXCEPT ![x] = @ \o h]
      /\ ready' = rd \o ms
  BY <1>1
<1> HIDE DEF starts, rest
<1>4. S \subseteq Tasks BY <1>2 DEF InSeq
<1>5. IsFiniteSet(S)
  <2> DEFINE f == [i \in 1..Len(starts) |-> starts[i]]
  <2>1. IsFiniteSet(1..Len(starts)) BY <1>2, FS_Interval
  <2>2. f \in Surjection(1..Len(starts), S) BY DEF InSeq, Surjection
  <2> QED BY <2>1, <2>2, FS_Surjection
<1>6. /\ system \in Seq(Tasks) /\ InSeq(system) \subseteq S
      /\ S \cap SystemMerges \subseteq InSeq(system)
  BY <1>2, OnlyIs
<1> HIDE DEF system
<1>7. /\ ms \in Seq(Callbacks) /\ \A c \in InSeq(ms) : c[1] = "merge_started" /\ c[2] \in S
      /\ \A t \in S \cap SystemMerges : <<"merge_started", t>> \in InSeq(ms)
  <2>0. \A i \in 1..Len(system) : system[i] \in InSeq(system) BY DEF InSeq
  <2>1. \A i \in 1..Len(system) : system[i] \in Tasks /\ system[i] \in S
    BY <2>0, <1>6
  <2>2. \A i \in 1..Len(system) : <<"merge_started", system[i]>> \in Callbacks
    BY <2>1 DEF Callbacks, Kinds
  <2>3. Len(system) \in Nat BY <1>6
  <2>4. ms \in Seq(Callbacks) /\ Len(ms) = Len(system) BY <2>2, <2>3
  <2> HIDE DEF S
  <2>5. \A i \in 1..Len(ms) : ms[i][1] = "merge_started" /\ ms[i][2] \in S
    BY <2>1, <2>4
  <2>6. \A t \in InSeq(system) : \E i \in 1..Len(ms) : ms[i] = <<"merge_started", t>>
    BY <2>4 DEF InSeq
  <2> HIDE DEF ms
  <2>7. \A t \in InSeq(system) : <<"merge_started", t>> \in InSeq(ms)
    BY <2>6 DEF InSeq
  <2> QED BY <1>6, <2>4, <2>5, <2>7 DEF InSeq
<1>8. listeners' = [t \in Tasks |->
        (IF t \in S THEN Append(ls[t], "queue_exit") ELSE ls[t]) \o (IF t = x THEN h ELSE <<>>)]
  <2>1. \A t \in Tasks : l[t] \in Seq(Kinds)
    <3>1. "queue_exit" \in Kinds BY DEF Kinds
    <3>2. \A t \in Tasks : ls[t] \in Seq(Kinds) /\ Append(ls[t], "queue_exit") \in Seq(Kinds)
      BY <3>1
    <3> HIDE DEF S
    <3> QED BY <3>2
  <2>2. \A t \in Tasks : l[t] = l[t] \o <<>> BY <2>1
  <2>3. l = [t \in Tasks |-> l[t]] OBVIOUS
  <2>4. l[x] \o h = l[x] \o (IF x = x THEN h ELSE <<>>) OBVIOUS
  <2> HIDE DEF l
  <2>5. listeners' = [t \in Tasks |-> l[t] \o (IF t = x THEN h ELSE <<>>)]
    BY <1>3, <2>2, <2>3
  <2> QED BY <2>5 DEF l
<1> HIDE DEF S, ms
<1>9. Pumped(q, dq, act, s, ls, rd, x, h, S, rest, ms)
  BY <1>2, <1>3, <1>4, <1>5, <1>7, <1>8 DEF Pumped
<1> QED BY <1>9

-----------------------------------------------------------------------------
(* The callbacks that are queued                                           *)

\* A callback that has been called is not queued any more.
LEMMA SingleTail ==
  ASSUME NEW s \in Seq(Callbacks), s # <<>>, Single(s)
  PROVE  /\ Single(Tail(s))
         /\ Head(s)[1] # "merge_started" => Head(s) \notin InSeq(Tail(s))
<1>1. /\ Len(s) \in Nat /\ Len(s) >= 1 /\ Len(Tail(s)) = Len(s) - 1 /\ Head(s) = s[1]
      /\ \A i \in 1..Len(Tail(s)) : Tail(s)[i] = s[i + 1] /\ i + 1 \in 1..Len(s) /\ i + 1 # 1
      /\ 1 \in 1..Len(s)
  OBVIOUS
<1>2. Single(Tail(s)) BY <1>1 DEF Single
<1>3. ASSUME Head(s)[1] # "merge_started", NEW i \in 1..Len(Tail(s)), Tail(s)[i] = Head(s)
      PROVE  FALSE
  BY <1>1, <1>3 DEF Single
<1> QED BY <1>2, <1>3 DEF InSeq

\* Callbacks that are not queued yet may be queued.
LEMMA SingleConcat ==
  ASSUME NEW s \in Seq(Callbacks), NEW r \in Seq(Callbacks), Single(s), Single(r),
         \A c \in InSeq(r) : c[1] = "merge_started" \/ c \notin InSeq(s)
  PROVE  Single(s \o r)
<1>1. /\ Len(s) \in Nat /\ Len(r) \in Nat /\ Len(s \o r) = Len(s) + Len(r)
      /\ \A i \in 1..Len(s) : (s \o r)[i] = s[i]
      /\ \A i \in 1..Len(r) : (s \o r)[Len(s) + i] = r[i]
  OBVIOUS
<1>2. ASSUME NEW i \in 1..Len(s \o r), i \notin 1..Len(s)
      PROVE  i - Len(s) \in 1..Len(r) /\ (s \o r)[i] = r[i - Len(s)]
  BY <1>1, <1>2
<1>4. ASSUME NEW i \in 1..Len(s \o r), NEW j \in 1..Len(s \o r), (s \o r)[i] = (s \o r)[j],
             (s \o r)[i][1] # "merge_started"
      PROVE  i = j
  <2>1. CASE i \in 1..Len(s) /\ j \in 1..Len(s) BY <1>1, <1>4, <2>1 DEF Single
  <2>2. CASE i \notin 1..Len(s) /\ j \notin 1..Len(s)
    <3>1. i - Len(s) = j - Len(s) BY <1>2, <1>4, <2>2 DEF Single
    <3> QED BY <3>1, <1>1
  <2>3. CASE i \in 1..Len(s) /\ j \notin 1..Len(s)
    <3>1. s[i] \in InSeq(s) /\ r[j - Len(s)] \in InSeq(r) BY <1>2, <2>3 DEF InSeq
    <3> QED BY <3>1, <1>1, <1>2, <1>4, <2>3
  <2>4. CASE i \notin 1..Len(s) /\ j \in 1..Len(s)
    <3>1. s[j] \in InSeq(s) /\ r[i - Len(s)] \in InSeq(r) BY <1>2, <2>4 DEF InSeq
    <3> QED BY <3>1, <1>1, <1>2, <1>4, <2>4
  <2> QED BY <2>1, <2>2, <2>3, <2>4
<1> QED BY <1>4 DEF Single

\* The same for one callback.
LEMMA SingleAppend ==
  ASSUME NEW s \in Seq(Callbacks), NEW c \in Callbacks, Single(s), c \notin InSeq(s)
  PROVE  Single(Append(s, c))
<1>1. /\ Len(Append(s, c)) = Len(s) + 1 /\ Len(s) \in Nat
      /\ \A i \in 1..Len(s) : Append(s, c)[i] = s[i]
      /\ Append(s, c)[Len(s) + 1] = c
      /\ \A i \in 1..(Len(s) + 1) : i \in 1..Len(s) \/ i = Len(s) + 1
  OBVIOUS
<1> QED BY <1>1 DEF Single, InSeq

\* Callbacks that only announce merges do not count.
LEMMA SinglePumped ==
  ASSUME NEW rd \in Seq(Callbacks), NEW ms \in Seq(Callbacks), Single(rd),
         \A c \in InSeq(ms) : c[1] = "merge_started"
  PROVE  Single(rd \o ms)
<1>1. Single(ms) BY DEF Single, InSeq
<1> QED BY <1>1, SingleConcat

\* The exit listeners of a running task, as callbacks: both, in some order, once.
LEMMA NotifyIs ==
  ASSUME TypeOK, NEW t \in Tasks, NEW k \in ExitKinds,
         listeners[t] \in {<<"queue_exit", k>>, <<k, "queue_exit">>}
  PROVE  /\ Notify(t) \in Seq(Callbacks) /\ Single(Notify(t))
         /\ InSeq(Notify(t)) = {<<"queue_exit", t>>, <<k, t>>}
<1>1. Len(listeners[t]) = 2 /\ k # "queue_exit"
  BY DEF ExitKinds
<1>2. /\ Len(Notify(t)) = 2 /\ Notify(t)[1] = <<listeners[t][1], t>>
      /\ Notify(t)[2] = <<listeners[t][2], t>>
      /\ Notify(t) = [i \in 1..2 |-> <<listeners[t][i], t>>]
  BY <1>1 DEF Notify
<1>3. 1..2 = {1, 2} OBVIOUS
<1>4. <<"queue_exit", t>> \in Callbacks /\ <<k, t>> \in Callbacks
  BY DEF Callbacks, Kinds, ExitKinds
<1>5. CASE listeners[t] = <<"queue_exit", k>>
  <2>1. Notify(t)[1] = <<"queue_exit", t>> /\ Notify(t)[2] = <<k, t>> BY <1>2, <1>5
  <2>2. Notify(t) \in Seq(Callbacks) BY <2>1, <1>2, <1>3, <1>4
  <2>3. InSeq(Notify(t)) = {<<"queue_exit", t>>, <<k, t>>} BY <2>1, <1>2, <1>3 DEF InSeq
  <2>4. Single(Notify(t)) BY <2>1, <1>1, <1>2, <1>3 DEF Single
  <2> QED BY <2>2, <2>3, <2>4
<1>6. CASE listeners[t] = <<k, "queue_exit">>
  <2>1. Notify(t)[2] = <<"queue_exit", t>> /\ Notify(t)[1] = <<k, t>> BY <1>2, <1>6
  <2>2. Notify(t) \in Seq(Callbacks) BY <2>1, <1>2, <1>3, <1>4
  <2>3. InSeq(Notify(t)) = {<<"queue_exit", t>>, <<k, t>>} BY <2>1, <1>2, <1>3 DEF InSeq
  <2>4. Single(Notify(t)) BY <2>1, <1>1, <1>2, <1>3 DEF Single
  <2> QED BY <2>2, <2>3, <2>4
<1> QED BY <1>5, <1>6

-----------------------------------------------------------------------------
(* The life of the tasks                                                   *)

\* Callbacks that are no exits come and go.
LEMMA LifeReady ==
  ASSUME NEW s, NEW ls, NEW qu, NEW ac, NEW P, NEW R, Life(s, ls, qu, ac, P),
         \A t \in Tasks, k \in ExitKinds : <<k, t>> \in R => <<k, t>> \in P,
         \A t \in Tasks : <<"queue_exit", t>> \in R <=> <<"queue_exit", t>> \in P
  PROVE  Life(s, ls, qu, ac, R)
<1> SUFFICES ASSUME NEW t \in Tasks PROVE TaskLife(t, s, ls, qu, ac, R)
  BY DEF Life
<1>1. TaskLife(t, s, ls, qu, ac, P) BY DEF Life
<1>2. "merge_exit" \in ExitKinds /\ "wait_exit" \in ExitKinds BY DEF ExitKinds
<1> QED BY <1>1, <1>2 DEF TaskLife

\* A new task t is added to its queue, which starts what it has room for.
Added(t, k) ==
  /\ st' \in [Tasks -> TaskStates] /\ listeners' \in [Tasks -> Seq(Kinds)]
  /\ queue' \in [Queues -> Seq(Tasks)] /\ active' \in [Queues -> SUBSET Tasks]
  /\ st'[t] \in Live
  /\ \A x \in Tasks \ {t} : st'[x] = st[x] \/ (st[x] = "queued" /\ st'[x] = "run")
  /\ \A x \in Tasks \ {t} : \A e \in ExitKinds :
       e \in InSeq(listeners[x]) => e \in InSeq(listeners'[x])
  /\ k \in InSeq(listeners'[t])

\* A new task joins its queue, and perhaps others start.
LEMMA LifeAdd ==
  ASSUME TypeOK, NEW P, NEW t \in Tasks, NEW k \in ExitKinds, Own(k, t),
         Life(st, listeners, queue, active, P), st[t] \in {"none", "wait"},
         NEW dq \in {Append(queue[QueueOf(t)], t), <<t>> \o queue[QueueOf(t)]},
         NEW ls \in [Tasks -> Seq(Kinds)], NEW h \in Seq(Kinds),
         \A x \in Tasks \ {t} : ls[x] = listeners[x],
         \/ ls[t] = <<>> /\ h = <<k>>
         \/ ls[t] = <<k>> /\ h = <<>>,
         NEW rd, NEW S, NEW rest, NEW ms,
         Pumped(QueueOf(t), dq, active[QueueOf(t)], [st EXCEPT ![t] = "queued"], ls, rd, t, h,
                S, rest, ms)
  PROVE  Life(st', listeners', queue', active', P \cup InSeq(ms)) /\ Added(t, k)
<1> DEFINE q == QueueOf(t)
<1>1. q \in Queues BY QueueIs
<1>2. /\ \A x \in Tasks : TaskLife(x, st, listeners, queue, active, P)
      /\ \A r \in Queues : Alone(queue[r])
  BY DEF Life
<1>3. /\ queue[q] \in Seq(Tasks) /\ st \in [Tasks -> TaskStates]
      /\ listeners \in [Tasks -> Seq(Kinds)]
      /\ queue \in [Queues -> Seq(Tasks)] /\ active \in [Queues -> SUBSET Tasks]
  BY <1>1 DEF TypeOK, TaskStates
<1>4. t \notin InSeq(queue[q]) /\ t \notin active[q]
  BY <1>1, <1>2 DEF TaskLife, Ended
<1>5. dq \in Seq(Tasks) /\ InSeq(dq) = InSeq(queue[q]) \cup {t} /\ Alone(dq)
  <2>1. CASE dq = Append(queue[q], t) BY <2>1, <1>1, <1>2, <1>3, <1>4, AppendIs
  <2>2. CASE dq = <<t>> \o queue[q] BY <2>2, <1>1, <1>2, <1>3, <1>4, FrontIs
  <2> QED BY <2>1, <2>2
<1>6. /\ S \subseteq Tasks /\ rest \in Seq(Tasks)
      /\ InSeq(dq) = S \cup InSeq(rest)
      /\ S \cap InSeq(rest) = {} /\ Alone(rest)
      /\ \A c \in InSeq(ms) : c[1] = "merge_started"
      /\ queue' = [queue EXCEPT ![q] = rest]
      /\ active' = [active EXCEPT ![q] = active[q] \cup S]
      /\ st' = [x \in Tasks |-> IF x \in S THEN "run" ELSE [st EXCEPT ![t] = "queued"][x]]
      /\ listeners' = [x \in Tasks |->
           (IF x \in S THEN Append(ls[x], "queue_exit") ELSE ls[x])
             \o (IF x = t THEN h ELSE <<>>)]
  BY <1>5 DEF Pumped
<1> HIDE DEF q
<1>7. /\ queue'[q] = rest /\ \A r \in Queues \ {q} : queue'[r] = queue[r]
      /\ active'[q] = active[q] \cup S /\ \A r \in Queues \ {q} : active'[r] = active[r]
      /\ queue' \in [Queues -> Seq(Tasks)] /\ active' \in [Queues -> SUBSET Tasks]
  BY <1>1, <1>3, <1>6
<1>8. \A x \in Tasks : /\ x \in S => st'[x] = "run"
                       /\ x \notin S => st'[x] = IF x = t THEN "queued" ELSE st[x]
  BY <1>3, <1>6
<1>9. ASSUME NEW x \in Tasks \ {t}
      PROVE  listeners'[x] = IF x \in S THEN Append(listeners[x], "queue_exit") ELSE listeners[x]
  <2>1. ls[x] = listeners[x] /\ listeners[x] \in Seq(Kinds) BY <1>3
  <2>2. "queue_exit" \in Kinds BY DEF Kinds
  <2>3. /\ listeners[x] \o <<>> = listeners[x]
        /\ Append(listeners[x], "queue_exit") \o <<>> = Append(listeners[x], "queue_exit")
    BY <2>1, <2>2
  <2>4. listeners'[x] = (IF x \in S THEN Append(ls[x], "queue_exit") ELSE ls[x]) \o <<>>
    BY <1>6
  <2> QED BY <2>1, <2>3, <2>4
<1>10. listeners'[t] = IF t \in S THEN IF h = <<>> THEN <<k, "queue_exit">> ELSE <<"queue_exit", k>>
                       ELSE <<k>>
  <2>1. listeners'[t] = (IF t \in S THEN Append(ls[t], "queue_exit") ELSE ls[t]) \o h
    BY <1>6
  <2>2. CASE ls[t] = <<>> /\ h = <<k>>
    <3>0. Append(<<>>, "queue_exit") = <<"queue_exit">> /\ <<>> \o <<k>> = <<k>> BY Pairs
    <3>1. <<"queue_exit">> \o <<k>> = <<"queue_exit", k>> BY Pairs
    <3>2. h # <<>> BY <2>2
    <3> QED BY <2>1, <2>2, <3>0, <3>1, <3>2
  <2>3. CASE ls[t] = <<k>> /\ h = <<>>
    <3>1. Append(<<k>>, "queue_exit") \o <<>> = <<k, "queue_exit">> /\ <<k>> \o <<>> = <<k>>
      BY Pairs
    <3> QED BY <2>1, <2>3, <3>1
  <2> QED BY <2>2, <2>3
<1>11. \A r \in Queues : Alone(queue'[r])
  BY <1>2, <1>6, <1>7
<1>12. \A x \in Tasks : \A e : e # "merge_started" =>
         (<<e, x>> \in P \cup InSeq(ms) <=> <<e, x>> \in P)
  <2> SUFFICES ASSUME NEW x \in Tasks, NEW e, e # "merge_started", <<e, x>> \in InSeq(ms)
               PROVE  FALSE
    OBVIOUS
  <2>1. <<e, x>>[1] = "merge_started" BY <1>6
  <2> QED BY <2>1
<1>13. "queue_exit" # "merge_started" /\ \A e \in ExitKinds : e # "merge_started" BY DEF ExitKinds
<1>14. TaskLife(t, st', listeners', queue', active', P \cup InSeq(ms))
  <2>1. TaskLife(t, st, listeners, queue, active, P) BY <1>2
  <2>2. t \in S \/ t \in InSeq(rest) BY <1>5, <1>6
  <2>3. \A r \in Queues : t \notin InSeq(queue[r]) /\ t \notin active[r]
    BY <2>1 DEF TaskLife, Ended
  <2>4. \A e \in ExitKinds \cup {"queue_exit"} : <<e, t>> \notin P \cup InSeq(ms)
    BY <2>1, <1>12, <1>13 DEF TaskLife, Ended
  <2>5. \A r \in Queues : /\ t \in InSeq(queue'[r]) => r = q /\ t \notin S
                          /\ t \in active'[r] => r = q /\ t \in S
    BY <2>3, <1>6, <1>7
  <2>6. CASE t \in S
    <3>1. st'[t] = "run" /\ t \in active'[q] BY <2>6, <1>7, <1>8
    <3>2. listeners'[t] \in {<<"queue_exit", k>>, <<k, "queue_exit">>} BY <2>6, <1>10
    <3> QED BY <3>1, <3>2, <2>4, <2>5, <2>6 DEF TaskLife, Ended, q, ExitKinds
  <2>7. CASE t \notin S
    <3>1. st'[t] = "queued" /\ t \in InSeq(queue'[q]) BY <2>2, <2>7, <1>7, <1>8
    <3>2. listeners'[t] = <<k>> BY <2>7, <1>10
    <3> QED BY <3>1, <3>2, <2>4, <2>5, <2>7 DEF TaskLife, Ended, q, ExitKinds
  <2> QED BY <2>6, <2>7
<1>15. ASSUME NEW x \in Tasks \ {t}
       PROVE  TaskLife(x, st', listeners', queue', active', P \cup InSeq(ms))
  <2>1. TaskLife(x, st, listeners, queue, active, P) BY <1>2
  <2>2. \A e \in ExitKinds \cup {"queue_exit"} : <<e, x>> \in P \cup InSeq(ms) <=> <<e, x>> \in P
    BY <1>12, <1>13
  <2>3. CASE x \in S
    <3>1. x \in InSeq(queue[q]) BY <2>3, <1>5, <1>6
    <3>2. QueueOf(x) = q /\ st[x] = "queued" BY <3>1, <2>1, <1>1 DEF TaskLife
    <3>3. st'[x] = "run" /\ x \in active'[q] /\ x \notin InSeq(rest) BY <2>3, <1>6, <1>7, <1>8
    <3>4. PICK e \in ExitKinds : Own(e, x) /\ listeners[x] = <<e>> BY <3>2, <2>1 DEF TaskLife
    <3>5. listeners'[x] = <<e, "queue_exit">>
      <4>1. Append(<<e>>, "queue_exit") = <<e, "queue_exit">> BY Pairs
      <4> QED BY <4>1, <2>3, <3>4, <1>9
    <3>6. \A r \in Queues : /\ x \notin InSeq(queue'[r])
                            /\ x \in active'[r] => r = q
      BY <2>1, <3>2, <3>3, <1>7 DEF TaskLife, Ended
    <3>7. \A f \in ExitKinds \cup {"queue_exit"} : <<f, x>> \notin P
      BY <2>1, <3>2 DEF TaskLife, Ended
    <3> QED BY <3>2, <3>3, <3>4, <3>5, <3>6, <3>7, <2>2 DEF TaskLife, Ended, ExitKinds
  <2>4. CASE x \notin S
    <3>1. st'[x] = st[x] /\ listeners'[x] = listeners[x] BY <2>4, <1>8, <1>9
    <3>2. \A r \in Queues : x \in active'[r] <=> x \in active[r] BY <2>4, <1>7
    <3>3. \A r \in Queues : x \in InSeq(queue'[r]) <=> x \in InSeq(queue[r])
      <4>1. x \in InSeq(rest) <=> x \in InSeq(queue[q]) BY <2>4, <1>5, <1>6
      <4> QED BY <4>1, <1>7
    <3>4. QueueOf(x) \in Queues BY QueueIs
    <3> QED BY <2>1, <2>2, <3>1, <3>2, <3>3, <3>4 DEF TaskLife, ExitKinds
  <2> QED BY <2>3, <2>4
<1>16. st' \in [Tasks -> TaskStates]
  BY <1>3, <1>6 DEF TaskStates
<1>17. listeners' \in [Tasks -> Seq(Kinds)]
  <2>1. k \in Kinds /\ "queue_exit" \in Kinds BY DEF Kinds, ExitKinds
  <2>2. listeners'[t] \in Seq(Kinds) BY <2>1, <1>10
  <2>3. ASSUME NEW x \in Tasks \ {t} PROVE listeners'[x] \in Seq(Kinds)
    <3>1. Append(listeners[x], "queue_exit") \in Seq(Kinds) /\ listeners[x] \in Seq(Kinds)
      BY <2>1, <1>3, AppendIs
    <3> QED BY <3>1, <1>9
  <2> QED BY <2>2, <2>3, <1>6
<1>18. \A x \in Tasks \ {t} : st'[x] = st[x] \/ (st[x] = "queued" /\ st'[x] = "run")
  <2> SUFFICES ASSUME NEW x \in Tasks \ {t}, x \in S PROVE st[x] = "queued"
    BY <1>8
  <2>1. x \in InSeq(queue[q]) BY <1>5, <1>6
  <2> QED BY <2>1, <1>1, <1>2 DEF TaskLife
<1>19. st'[t] \in Live BY <1>8 DEF Live
<1>20. \A x \in Tasks \ {t} : \A e \in ExitKinds :
         e \in InSeq(listeners[x]) => e \in InSeq(listeners'[x])
  <2>1. "queue_exit" \in Kinds BY DEF Kinds
  <2>2. \A x \in Tasks : InSeq(Append(listeners[x], "queue_exit")) = InSeq(listeners[x]) \cup {"queue_exit"}
    BY <2>1, <1>3, AppendIs
  <2> QED BY <2>2, <1>9
<1>21. k \in InSeq(listeners'[t])
  <2>1. k \in InSeq(<<k, "queue_exit">>) /\ k \in InSeq(<<"queue_exit", k>>) /\ k \in InSeq(<<k>>)
    BY DEF InSeq
  <2> QED BY <2>1, <1>10
<1> QED BY <1>7, <1>11, <1>14, <1>15, <1>16, <1>17, <1>18, <1>19, <1>20, <1>21 DEF Life, Added

\* Tasks start, and nothing else.
Moved ==
  /\ st' \in [Tasks -> TaskStates] /\ listeners' \in [Tasks -> Seq(Kinds)]
  /\ queue' \in [Queues -> Seq(Tasks)] /\ active' \in [Queues -> SUBSET Tasks]
  /\ \A x \in Tasks : st'[x] = st[x] \/ (st[x] = "queued" /\ st'[x] = "run")
  /\ \A x \in Tasks : \A e \in ExitKinds :
       e \in InSeq(listeners[x]) => e \in InSeq(listeners'[x])

\* A task leaves the running tasks of its queue, and the queue starts others.
LEMMA LifeLeave ==
  ASSUME TypeOK, NEW P, NEW t \in Tasks, <<"queue_exit", t>> \in P,
         Life(st, listeners, queue, active, P), NEW rd, NEW S, NEW rest, NEW ms,
         Pumped(QueueOf(t), queue[QueueOf(t)], active[QueueOf(t)] \ {t}, st, listeners, rd, t, <<>>,
                S, rest, ms)
  PROVE  Life(st', listeners', queue', active', (P \ {<<"queue_exit", t>>}) \cup InSeq(ms)) /\ Moved
<1> DEFINE q == QueueOf(t)
           R == (P \ {<<"queue_exit", t>>}) \cup InSeq(ms)
<1>1. q \in Queues BY QueueIs
<1>2. /\ \A x \in Tasks : TaskLife(x, st, listeners, queue, active, P)
      /\ \A r \in Queues : Alone(queue[r])
  BY DEF Life
<1>3. /\ queue[q] \in Seq(Tasks) /\ st \in [Tasks -> TaskStates]
      /\ listeners \in [Tasks -> Seq(Kinds)]
      /\ queue \in [Queues -> Seq(Tasks)] /\ active \in [Queues -> SUBSET Tasks]
  BY <1>1 DEF TypeOK, TaskStates
<1>6. /\ S \subseteq Tasks /\ rest \in Seq(Tasks)
      /\ InSeq(queue[q]) = S \cup InSeq(rest)
      /\ S \cap InSeq(rest) = {} /\ Alone(rest)
      /\ \A c \in InSeq(ms) : c[1] = "merge_started"
      /\ queue' = [queue EXCEPT ![q] = rest]
      /\ active' = [active EXCEPT ![q] = (active[q] \ {t}) \cup S]
      /\ st' = [x \in Tasks |-> IF x \in S THEN "run" ELSE st[x]]
      /\ listeners' = [x \in Tasks |->
           (IF x \in S THEN Append(listeners[x], "queue_exit") ELSE listeners[x])
             \o (IF x = t THEN <<>> ELSE <<>>)]
  BY <1>1, <1>2 DEF Pumped
<1>7. /\ queue'[q] = rest /\ \A r \in Queues \ {q} : queue'[r] = queue[r]
      /\ active'[q] = (active[q] \ {t}) \cup S
      /\ \A r \in Queues \ {q} : active'[r] = active[r]
      /\ queue' \in [Queues -> Seq(Tasks)] /\ active' \in [Queues -> SUBSET Tasks]
  <2> HIDE DEF q
  <2> QED BY <1>1, <1>3, <1>6
<1>8. \A x \in Tasks : st'[x] = IF x \in S THEN "run" ELSE st[x]
  BY <1>3, <1>6
<1>9. ASSUME NEW x \in Tasks
      PROVE  listeners'[x] = IF x \in S THEN Append(listeners[x], "queue_exit") ELSE listeners[x]
  <2>1. listeners[x] \in Seq(Kinds) BY <1>3
  <2>2. "queue_exit" \in Kinds BY DEF Kinds
  <2>3. /\ listeners[x] \o <<>> = listeners[x]
        /\ Append(listeners[x], "queue_exit") \o <<>> = Append(listeners[x], "queue_exit")
    BY <2>1, <2>2
  <2>4. listeners'[x] = (IF x \in S THEN Append(listeners[x], "queue_exit") ELSE listeners[x]) \o <<>>
    BY <1>6
  <2> QED BY <2>1, <2>3, <2>4
<1> HIDE DEF q
<1>10. \A x \in S : x \in InSeq(queue[q]) /\ x \in Tasks BY <1>6
<1>11. \A r \in Queues : Alone(queue'[r])
  BY <1>2, <1>6, <1>7
<1>12. \A x \in Tasks, e \in ExitKinds : <<e, x>> \in R <=> <<e, x>> \in P
  <2> SUFFICES ASSUME NEW x \in Tasks, NEW e \in ExitKinds
               PROVE  <<e, x>> \in R <=> <<e, x>> \in P
    OBVIOUS
  <2>1. <<e, x>>[1] # "merge_started" /\ <<e, x>> # <<"queue_exit", t>> BY DEF ExitKinds
  <2>2. <<e, x>> \notin InSeq(ms) BY <2>1, <1>6
  <2> QED BY <2>1, <2>2
<1>13. \A x \in Tasks : <<"queue_exit", x>> \in R <=> x # t /\ <<"queue_exit", x>> \in P
  <2> SUFFICES ASSUME NEW x \in Tasks
               PROVE  <<"queue_exit", x>> \in R <=> x # t /\ <<"queue_exit", x>> \in P
    OBVIOUS
  <2>1. <<"queue_exit", x>>[1] # "merge_started" OBVIOUS
  <2>2. <<"queue_exit", x>> \notin InSeq(ms) BY <2>1, <1>6
  <2>3. <<"queue_exit", x>> = <<"queue_exit", t>> <=> x = t OBVIOUS
  <2> QED BY <2>2, <2>3
<1> HIDE DEF R
<1>14. t \notin S /\ st[t] \in Ended /\ t \in active[q]
  <2>1. TaskLife(t, st, listeners, queue, active, P) BY <1>2
  <2>2. st[t] \in Ended /\ t \in active[q] BY <2>1 DEF TaskLife, q
  <2>3. t \notin InSeq(queue[q]) BY <2>1, <2>2, <1>1 DEF TaskLife, Ended
  <2> QED BY <2>2, <2>3, <1>10
<1>15. ASSUME NEW x \in Tasks
       PROVE  TaskLife(x, st', listeners', queue', active', R)
  <2>1. TaskLife(x, st, listeners, queue, active, P) BY <1>2
  <2>2. \A e \in ExitKinds : <<e, x>> \in R <=> <<e, x>> \in P
    BY <1>12
  <2>0. <<"queue_exit", x>> \in R <=> x # t /\ <<"queue_exit", x>> \in P
    BY <1>13
  <2>3. CASE x \in S
    <3>1. x \in InSeq(queue[q]) BY <2>3, <1>10
    <3>2. QueueOf(x) = q /\ st[x] = "queued" BY <3>1, <2>1, <1>1 DEF TaskLife
    <3>3. st'[x] = "run" /\ x \in active'[q] /\ x \notin InSeq(rest) BY <2>3, <1>6, <1>7, <1>8
    <3>4. PICK e \in ExitKinds : Own(e, x) /\ listeners[x] = <<e>> BY <3>2, <2>1 DEF TaskLife
    <3>5. listeners'[x] = <<e, "queue_exit">>
      <4>1. Append(<<e>>, "queue_exit") = <<e, "queue_exit">> BY Pairs
      <4> QED BY <4>1, <2>3, <3>4, <1>9
    <3>6. \A r \in Queues : /\ x \notin InSeq(queue'[r])
                            /\ x \in active'[r] => r = q
      BY <2>1, <3>2, <3>3, <1>7 DEF TaskLife, Ended
    <3>7. \A f \in ExitKinds \cup {"queue_exit"} : <<f, x>> \notin P
      BY <2>1, <3>2 DEF TaskLife, Ended
    <3> QED BY <3>2, <3>3, <3>4, <3>5, <3>6, <3>7, <2>0, <2>2 DEF TaskLife, Ended, ExitKinds
  <2>4. CASE x \notin S
    <3>1. st'[x] = st[x] /\ listeners'[x] = listeners[x] BY <2>4, <1>8, <1>9
    <3>2. \A r \in Queues : x \in active'[r] <=> x \in active[r] /\ (r # q \/ x # t)
      BY <2>4, <1>7
    <3>3. \A r \in Queues : x \in InSeq(queue'[r]) <=> x \in InSeq(queue[r])
      <4>1. x \in InSeq(rest) <=> x \in InSeq(queue[q]) BY <2>4, <1>6
      <4> QED BY <4>1, <1>7
    <3>4. QueueOf(x) \in Queues BY QueueIs
    <3>5. CASE x = t
      <4>1. \A r \in Queues : x \notin active'[r] BY <3>2, <3>5, <2>1 DEF TaskLife, q
      <4> QED BY <4>1, <2>0, <2>1, <2>2, <3>1, <3>3, <3>5, <1>14 DEF TaskLife, ExitKinds, Ended
    <3>6. CASE x # t
      <4>1. \A r \in Queues : x \in active'[r] <=> x \in active[r] BY <3>2, <3>6
      <4> QED BY <4>1, <2>0, <2>1, <2>2, <3>1, <3>3, <3>4, <3>6 DEF TaskLife, ExitKinds
    <3> QED BY <3>5, <3>6
  <2> QED BY <2>3, <2>4
<1>16. st' \in [Tasks -> TaskStates]
  BY <1>3, <1>6 DEF TaskStates
<1>17. listeners' \in [Tasks -> Seq(Kinds)]
  <2>1. "queue_exit" \in Kinds BY DEF Kinds
  <2>3. ASSUME NEW x \in Tasks PROVE listeners'[x] \in Seq(Kinds)
    <3>1. Append(listeners[x], "queue_exit") \in Seq(Kinds) /\ listeners[x] \in Seq(Kinds)
      BY <2>1, <1>3, AppendIs
    <3> QED BY <3>1, <1>9
  <2> QED BY <2>3, <1>6
<1>18. \A x \in Tasks : st'[x] = st[x] \/ (st[x] = "queued" /\ st'[x] = "run")
  <2> SUFFICES ASSUME NEW x \in Tasks, x \in S PROVE st[x] = "queued"
    BY <1>8
  <2>1. x \in InSeq(queue[q]) BY <1>10
  <2> QED BY <2>1, <1>1, <1>2 DEF TaskLife
<1>20. \A x \in Tasks : \A e \in ExitKinds :
         e \in InSeq(listeners[x]) => e \in InSeq(listeners'[x])
  <2>1. "queue_exit" \in Kinds BY DEF Kinds
  <2>2. \A x \in Tasks : InSeq(Append(listeners[x], "queue_exit")) = InSeq(listeners[x]) \cup {"queue_exit"}
    BY <2>1, <1>3, AppendIs
  <2> QED BY <2>2, <1>9
<1> QED BY <1>7, <1>11, <1>15, <1>16, <1>17, <1>18, <1>20 DEF Life, Moved, R

\* A task ends: its exit listeners are called soon.
LEMMA LifeEnd ==
  ASSUME TypeOK, NEW t \in Tasks, NEW P, Life(st, listeners, queue, active, P),
         st[t] = "run", NEW r \in Ended,
         st' = [st EXCEPT ![t] = r], listeners' = [listeners EXCEPT ![t] = <<>>],
         UNCHANGED <<queue, active>>
  PROVE  \E k \in ExitKinds :
           /\ Own(k, t) /\ k \in InSeq(listeners[t])
           /\ \A e \in ExitKinds : e \in InSeq(listeners[t]) => e = k
           /\ Notify(t) \in Seq(Callbacks) /\ Single(Notify(t))
           /\ InSeq(Notify(t)) = {<<"queue_exit", t>>, <<k, t>>}
           /\ <<k, t>> \notin P /\ <<"queue_exit", t>> \notin P
           /\ Life(st', listeners', queue', active', P \cup InSeq(Notify(t)))
<1>1. \A x \in Tasks : TaskLife(x, st, listeners, queue, active, P) BY DEF Life
<1>2. TaskLife(t, st, listeners, queue, active, P) BY <1>1
<1>3. PICK k \in ExitKinds : /\ Own(k, t) /\ t \in active[QueueOf(t)]
                             /\ listeners[t] \in {<<"queue_exit", k>>, <<k, "queue_exit">>}
  BY <1>2 DEF TaskLife
<1>4. /\ Notify(t) \in Seq(Callbacks) /\ Single(Notify(t))
      /\ InSeq(Notify(t)) = {<<"queue_exit", t>>, <<k, t>>}
  BY <1>3, NotifyIs
<1>5. InSeq(listeners[t]) = {"queue_exit", k}
  <2>1. InSeq(<<"queue_exit", k>>) = {"queue_exit", k} BY Pairs
  <2>2. InSeq(<<k, "queue_exit">>) = {k, "queue_exit"} BY Pairs
  <2> QED BY <2>1, <2>2, <1>3
<1>6. \A e \in ExitKinds \cup {"queue_exit"} : <<e, t>> \notin P
  BY <1>2 DEF TaskLife, Ended
<1> DEFINE R == P \cup InSeq(Notify(t))
<1>7. \A x \in Tasks : \A e : <<e, x>> \in R <=> <<e, x>> \in P \/ (x = t /\ e \in {k, "queue_exit"})
  BY <1>4
<1> HIDE DEF R
<1>8. /\ st \in [Tasks -> TaskStates] /\ listeners \in [Tasks -> Seq(Kinds)]
  BY DEF TypeOK, TaskStates
<1>9. /\ st'[t] = r /\ \A x \in Tasks \ {t} : st'[x] = st[x]
      /\ listeners'[t] = <<>> /\ \A x \in Tasks \ {t} : listeners'[x] = listeners[x]
  BY <1>8
<1>10. TaskLife(t, st', listeners', queue', active', R)
  <2>1. \A e \in ExitKinds : <<e, t>> \in R <=> e = k BY <1>6, <1>7 DEF ExitKinds
  <2>2. <<"queue_exit", t>> \in R BY <1>7
  <2>3. "merge_exit" \in ExitKinds /\ "wait_exit" \in ExitKinds BY DEF ExitKinds
  <2>4. \A q \in Queues : t \notin InSeq(queue[q]) BY <1>2 DEF TaskLife
  <2>5. \A q \in Queues : t \in active[q] => q = QueueOf(t) BY <1>2 DEF TaskLife
  <2> QED BY <1>3, <1>9, <2>1, <2>2, <2>3, <2>4, <2>5 DEF TaskLife, Ended
<1>11. ASSUME NEW x \in Tasks, x # t PROVE TaskLife(x, st', listeners', queue', active', R)
  <2>1. TaskLife(x, st, listeners, queue, active, P) BY <1>1
  <2>2. \A e : <<e, x>> \in R <=> <<e, x>> \in P BY <1>7, <1>11
  <2>3. st'[x] = st[x] /\ listeners'[x] = listeners[x] BY <1>9, <1>11
  <2> QED BY <2>1, <2>2, <2>3 DEF TaskLife
<1>12. \A q \in Queues : Alone(queue'[q]) BY DEF Life
<1>13. Life(st', listeners', queue', active', R) BY <1>10, <1>11, <1>12 DEF Life
<1> QED BY <1>3, <1>4, <1>5, <1>6, <1>13 DEF R, ExitKinds

Cancelled == queue["merge"] \o queue["jobs"] \o queue["ebuild_locks"]
Called == [i \in 1..Len(Cancelled) |-> <<listeners[Cancelled[i]][1], Cancelled[i]>>]

\* What the queues hold: the tasks that have been queued.
LEMMA CancelledIs ==
  ASSUME TypeOK, NEW P, Life(st, listeners, queue, active, P)
  PROVE  /\ Cancelled \in Seq(Tasks) /\ Alone(Cancelled)
         /\ InSeq(Cancelled) = {t \in Tasks : st[t] = "queued"}
         /\ Called \in Seq(Callbacks) /\ Single(Called)
         /\ \A c \in InSeq(Called) :
              /\ c[2] \in Tasks /\ st[c[2]] = "queued" /\ c[1] \in ExitKinds
              /\ listeners[c[2]] = <<c[1]>> /\ c = <<c[1], c[2]>>
         /\ \A t \in Tasks : \A k : st[t] = "queued" /\ listeners[t] = <<k>> =>
              <<k, t>> \in InSeq(Called)
<1>1. \A x \in Tasks : TaskLife(x, st, listeners, queue, active, P) BY DEF Life
<1> DEFINE a == queue["merge"]
           b == queue["jobs"]
           c == queue["ebuild_locks"]
<1>2. /\ a \in Seq(Tasks) /\ b \in Seq(Tasks) /\ c \in Seq(Tasks)
      /\ Alone(a) /\ Alone(b) /\ Alone(c)
  BY DEF TypeOK, Queues, Life
<1>3. \A x \in Tasks : /\ x \in InSeq(a) => QueueOf(x) = "merge" /\ st[x] = "queued"
                       /\ x \in InSeq(b) => QueueOf(x) = "jobs" /\ st[x] = "queued"
                       /\ x \in InSeq(c) => QueueOf(x) = "ebuild_locks" /\ st[x] = "queued"
  BY <1>1 DEF TaskLife, Queues
<1>4. InSeq(a) \subseteq Tasks /\ InSeq(b) \subseteq Tasks /\ InSeq(c) \subseteq Tasks
  BY <1>2 DEF InSeq
<1>5. InSeq(a) \cap InSeq(b) = {} /\ (InSeq(a) \cup InSeq(b)) \cap InSeq(c) = {}
  BY <1>3, <1>4
<1>6. \A x \in Tasks : st[x] = "queued" => x \in InSeq(a) \cup InSeq(b) \cup InSeq(c)
  BY <1>1, QueueIs DEF TaskLife, Queues
<1> HIDE DEF a, b, c
<1>7. a \o b \in Seq(Tasks) /\ Alone(a \o b) /\ InSeq(a \o b) = InSeq(a) \cup InSeq(b)
  BY <1>2, <1>5, ConcatIs
<1> DEFINE d == a \o b
<1>8. d \in Seq(Tasks) /\ Alone(d) /\ InSeq(d) = InSeq(a) \cup InSeq(b) BY <1>7
<1> HIDE DEF d
<1>9. d \o c \in Seq(Tasks) /\ Alone(d \o c) /\ InSeq(d \o c) = InSeq(d) \cup InSeq(c)
  BY <1>2, <1>5, <1>8, ConcatIs
<1>10. Cancelled = d \o c BY DEF Cancelled, a, b, c, d
<1>11. /\ Cancelled \in Seq(Tasks) /\ Alone(Cancelled)
       /\ InSeq(Cancelled) = {t \in Tasks : st[t] = "queued"}
  BY <1>3, <1>4, <1>6, <1>8, <1>9, <1>10
<1>12. \A i \in 1..Len(Cancelled) : Cancelled[i] \in Tasks /\ st[Cancelled[i]] = "queued"
  BY <1>11 DEF InSeq
<1>13. \A x \in Tasks : st[x] = "queued" =>
         \E k \in ExitKinds : listeners[x] = <<k>> /\ listeners[x][1] = k
  <2> SUFFICES ASSUME NEW x \in Tasks, st[x] = "queued"
               PROVE  \E k \in ExitKinds : listeners[x] = <<k>> /\ listeners[x][1] = k
    OBVIOUS
  <2>1. PICK k \in ExitKinds : listeners[x] = <<k>> BY <1>1 DEF TaskLife
  <2>2. <<k>>[1] = k OBVIOUS
  <2> QED BY <2>1, <2>2
<1>14. \A i \in 1..Len(Cancelled) :
         /\ listeners[Cancelled[i]][1] \in ExitKinds
         /\ listeners[Cancelled[i]] = <<listeners[Cancelled[i]][1]>>
  BY <1>12, <1>13
<1>15. /\ Len(Called) = Len(Cancelled) /\ Len(Cancelled) \in Nat
       /\ \A i \in 1..Len(Cancelled) :
            /\ Called[i] = <<listeners[Cancelled[i]][1], Cancelled[i]>>
            /\ Called[i][1] = listeners[Cancelled[i]][1] /\ Called[i][2] = Cancelled[i]
  BY <1>11 DEF Called
<1>16. ASSUME NEW i \in 1..Len(Cancelled)
       PROVE  /\ Called[i] \in Callbacks
              /\ Called[i][2] \in Tasks /\ st[Called[i][2]] = "queued" /\ Called[i][1] \in ExitKinds
              /\ listeners[Called[i][2]] = <<Called[i][1]>>
              /\ Called[i] = <<Called[i][1], Called[i][2]>>
  <2>1. /\ listeners[Cancelled[i]][1] \in ExitKinds /\ Cancelled[i] \in Tasks
        /\ listeners[Cancelled[i]] = <<listeners[Cancelled[i]][1]>>
    BY <1>12, <1>14
  <2>2. /\ Called[i] = <<listeners[Cancelled[i]][1], Cancelled[i]>>
        /\ Called[i][1] = listeners[Cancelled[i]][1] /\ Called[i][2] = Cancelled[i]
    BY <1>15
  <2>3. ExitKinds \subseteq Kinds BY DEF ExitKinds, Kinds
  <2>4. Called[i] \in Callbacks BY <2>1, <2>2, <2>3 DEF Callbacks
  <2> QED BY <2>1, <2>2, <2>4, <1>12
<1>17. Called \in Seq(Callbacks)
  BY <1>15, <1>16 DEF Called
<1>18. Single(Called)
  <2> SUFFICES ASSUME NEW i \in 1..Len(Cancelled), NEW j \in 1..Len(Cancelled),
                      Called[i] = Called[j]
               PROVE  i = j
    BY <1>15 DEF Single
  <2>1. Cancelled[i] = Cancelled[j] BY <1>15
  <2> QED BY <2>1, <1>11 DEF Alone
<1>19. \A i \in 1..Len(Called) :
         /\ Called[i][2] \in Tasks /\ st[Called[i][2]] = "queued" /\ Called[i][1] \in ExitKinds
         /\ listeners[Called[i][2]] = <<Called[i][1]>> /\ Called[i] = <<Called[i][1], Called[i][2]>>
  BY <1>15, <1>16
<1>20. ASSUME NEW t \in Tasks, NEW k, st[t] = "queued", listeners[t] = <<k>>
       PROVE  <<k, t>> \in InSeq(Called)
  <2>1. t \in InSeq(Cancelled) BY <1>11, <1>20
  <2>2. PICK i \in 1..Len(Cancelled) : t = Cancelled[i] BY <2>1 DEF InSeq
  <2>3. Called[i] = <<listeners[t][1], t>> BY <2>2, <1>15
  <2>4. listeners[t][1] = k BY <1>20
  <2> QED BY <2>2, <2>3, <2>4, <1>15 DEF InSeq
<1>21. \A e \in InSeq(Called) :
         /\ e[2] \in Tasks /\ st[e[2]] = "queued" /\ e[1] \in ExitKinds
         /\ listeners[e[2]] = <<e[1]>> /\ e = <<e[1], e[2]>>
  BY <1>19 DEF InSeq
<1> QED BY <1>11, <1>17, <1>18, <1>20, <1>21

\* The queues are emptied, and the exit listeners of what they held are called.
LEMMA LifeCancel ==
  ASSUME TypeOK, NEW P, Life(st, listeners, queue, active, P),
         st' = [t \in Tasks |-> IF t \in InSeq(Cancelled) THEN "fail" ELSE st[t]],
         queue' = [q \in Queues |-> <<>>], UNCHANGED active,
         listeners' = [t \in Tasks |-> IF t \in InSeq(Cancelled) THEN <<>> ELSE listeners[t]]
  PROVE  /\ Life(st', listeners', queue', active', P \cup InSeq(Called))
         /\ \A c \in InSeq(Called) : c \notin P
<1>1. \A x \in Tasks : TaskLife(x, st, listeners, queue, active, P) BY DEF Life
<1>2. /\ InSeq(Cancelled) = {t \in Tasks : st[t] = "queued"}
      /\ \A c \in InSeq(Called) :
              /\ c[2] \in Tasks /\ st[c[2]] = "queued" /\ c[1] \in ExitKinds
              /\ listeners[c[2]] = <<c[1]>> /\ c = <<c[1], c[2]>>
  BY CancelledIs
<1>3. ASSUME NEW x \in Tasks, NEW e
      PROVE  <<e, x>> \in InSeq(Called) =>
               st[x] = "queued" /\ listeners[x] = <<e>> /\ e \in ExitKinds
  <2>1. <<e, x>>[1] = e /\ <<e, x>>[2] = x OBVIOUS
  <2> QED BY <2>1, <1>2
<1> DEFINE R == P \cup InSeq(Called)
<1>4. \A q \in Queues : queue'[q] = <<>> OBVIOUS
<1>5. InSeq(<<>>) = {} /\ Alone(<<>>) BY DEF InSeq, Alone
<1>6. ASSUME NEW x \in Tasks PROVE TaskLife(x, st', listeners', queue', active', R)
  <2>1. TaskLife(x, st, listeners, queue, active, P) BY <1>1
  <2>2. \A q \in Queues : x \notin InSeq(queue'[q]) BY <1>4, <1>5
  <2>3. CASE st[x] = "queued"
    <3>1. st'[x] = "fail" /\ listeners'[x] = <<>> BY <2>3, <1>2
    <3>2. PICK k \in ExitKinds : Own(k, x) /\ listeners[x] = <<k>> BY <2>1, <2>3 DEF TaskLife
    <3>3. \A e : <<e, x>> \in InSeq(Called) => e = k /\ e \in ExitKinds BY <3>2, <1>3
    <3>4. \A e \in ExitKinds \cup {"queue_exit"} : <<e, x>> \notin P BY <2>1, <2>3 DEF TaskLife, Ended
    <3>5. \A q \in Queues : x \notin active[q] BY <2>1, <2>3 DEF TaskLife, Ended
    <3>6. <<"queue_exit", x>> \notin R BY <3>3, <3>4 DEF ExitKinds
    <3>7. \A e \in ExitKinds : <<e, x>> \in R => e = k BY <3>3, <3>4
    <3>8. "merge_exit" \in ExitKinds /\ "wait_exit" \in ExitKinds BY DEF ExitKinds
    <3> HIDE DEF R
    <3> QED BY <3>1, <3>2, <3>5, <3>6, <3>7, <3>8, <2>2 DEF TaskLife, Ended
  <2>4. CASE st[x] # "queued"
    <3>1. st'[x] = st[x] /\ listeners'[x] = listeners[x]
      <4>1. x \notin InSeq(Cancelled) BY <2>4, <1>2
      <4> QED BY <4>1
    <3>2. \A e : <<e, x>> \in R <=> <<e, x>> \in P BY <2>4, <1>3
    <3>3. \A q \in Queues : x \notin InSeq(queue[q]) BY <2>1, <2>4 DEF TaskLife
    <3> HIDE DEF R
    <3> QED BY <2>1, <2>2, <2>4, <3>1, <3>2, <3>3 DEF TaskLife
  <2> QED BY <2>3, <2>4
<1>7. ASSUME NEW c \in InSeq(Called) PROVE c \notin P
  <2>1. /\ c[2] \in Tasks /\ st[c[2]] = "queued" /\ c[1] \in ExitKinds /\ c = <<c[1], c[2]>>
    BY <1>2
  <2>2. TaskLife(c[2], st, listeners, queue, active, P) BY <2>1, <1>1
  <2>3. <<c[1], c[2]>> \notin P BY <2>1, <2>2 DEF TaskLife, Ended
  <2> QED BY <2>1, <2>3
<1>8. \A q \in Queues : Alone(queue'[q]) BY <1>4, <1>5
<1> QED BY <1>6, <1>7, <1>8 DEF Life

-----------------------------------------------------------------------------
(* Steps that leave the tasks alone                                        *)

\* A step inside the main loop that changes no task and no plan.
LEMMA PhaseStep ==
  ASSUME IInv, phase \in {"loop", "wait", "transfer", "imp", "tail"},
         phase' \in {"loop", "wait", "transfer", "imp", "tail"},
         phase' = "transfer" => phase = "transfer" \/ flushed \/ (jobs = 0 /\ ~Busy("merge")),
         flush' \in BOOLEAN, flush' => flush, wakeup' \in BOOLEAN, changed' \in BOOLEAN,
         returnEarly' \in BOOLEAN, reader' \in {"off", "on", "stale"},
         UNCHANGED <<pkgQueue, completed, failed, unsatisfied, jobVars, waitQueue,
                     waitScheduled, flushed, taskVars, ready, mainExit, termVars, server,
                     implicit, pool, token, diskVars>>
  PROVE  IInv'
<1> USE DEF jobVars, taskVars, termVars, diskVars
<1>1. TypeOK' BY DEF IInv, TypeOK
<1>2. Shapes' /\ Once' BY DEF IInv, Shapes, Once, Pending
<1>3. LifeOK' BY DEF IInv, LifeOK, InLife, Pending
<1>4. Course' BY DEF IInv, Course, InLife, Pending
<1>5. Covered' BY DEF IInv, Covered, InLife, Pending, Orderly
<1>6. JobAccounting' BY DEF IInv, JobAccounting, UnderWay
<1>7. TokensKept' BY DEF IInv, TokensKept, UnderWay, Held
<1>8. AtStart' BY DEF AtStart
<1>9. Signals' BY DEF IInv, Signals, Pending, Outside
<1>10. Halting' BY DEF IInv, Halting, Orderly, Outside, ExitIsQuiet, KeepScheduling, Pending
<1>11. Resumable' BY DEF IInv, Resumable, Pending, InLife
<1>12. Tracked' BY DEF IInv, Tracked, Pending
<1>13. Ordered' BY DEF IInv, Ordered, InLife
<1>14. Apart'
  <2>1. ~Busy("merge") => \A p \in Pkgs : st[Merge(p)] \notin Live
    <3> SUFFICES ASSUME NEW p \in Pkgs, st[Merge(p)] \in Live PROVE Busy("merge")
      OBVIOUS
    <3>1. TaskLife(Merge(p), st, listeners, queue, active, Pending)
      BY TaskIs DEF IInv, LifeOK, InLife, Life
    <3>2. Merge(p) \in InSeq(queue["merge"]) \/ Merge(p) \in active["merge"]
      BY <3>1, QueueIs DEF TaskLife, Live
    <3>3. queue["merge"] = <<>> => InSeq(queue["merge"]) = {} BY DEF InSeq
    <3> QED BY <3>2, <3>3 DEF Busy
  <2> QED BY <2>1 DEF IInv, Apart
<1>15. Reports' BY DEF IInv, Reports
<1> QED BY <1>1, <1>2, <1>3, <1>4, <1>5, <1>6, <1>7, <1>8, <1>9, <1>10, <1>11, <1>12, <1>13,
           <1>14, <1>15 DEF IInv

\* Queueing the check for termination.
LEMMA TermIs ==
  ASSUME TypeOK, NEW rd \in Seq(Callbacks), Single(rd), TermCallback \in InSeq(rd) => terminated,
         terminated => terminated', terminated' \in BOOLEAN, NEW r, r = Terminated(rd)
  PROVE  /\ r \in Seq(Callbacks) /\ Single(r)
         /\ InSeq(rd) \subseteq InSeq(r) /\ InSeq(r) \subseteq InSeq(rd) \cup {TermCallback}
         /\ TermCallback \in InSeq(r) => terminated'
         /\ StopLast(rd) => StopLast(r)
<1>1. CASE terminated' /\ ~terminated
  <2>1. r = Append(rd, TermCallback) BY <1>1 DEF Terminated
  <2>2. TermCallback \in Callbacks BY DEF TermCallback, Callbacks, Kinds
  <2>3. TermCallback \notin InSeq(rd) BY <1>1
  <2>4. r \in Seq(Callbacks) /\ InSeq(r) = InSeq(rd) \cup {TermCallback} BY <2>1, <2>2, AppendIs
  <2>5. Single(r) BY <2>1, <2>2, <2>3, SingleAppend
  <2>6. StopLast(rd) => StopLast(r)
    <3>1. /\ Len(r) = Len(rd) + 1 /\ Len(rd) \in Nat
          /\ \A i \in 1..Len(rd) : r[i] = rd[i]
          /\ r[Len(rd) + 1] = TermCallback
          /\ \A i \in 1..(Len(rd) + 1) : i \in 1..Len(rd) \/ i = Len(rd) + 1
      BY <2>1, <2>2
    <3>2. \A i, j \in 1..(Len(rd) + 1) : i < j => i \in 1..Len(rd) BY <3>1
    <3> HIDE DEF TermCallback
    <3> QED BY <3>1, <3>2 DEF StopLast
  <2> QED BY <1>1, <2>4, <2>5, <2>6
<1>2. CASE ~ (terminated' /\ ~terminated)
  <2>1. r = rd BY <1>2 DEF Terminated
  <2> QED BY <2>1
<1> QED BY <1>1, <1>2

\* Callbacks that are about tasks are not those two.
LEMMA Others ==
  \A k, t : t \in Tasks => <<k, t>> # TermCallback /\ <<k, t>> # Stopping
<1> SUFFICES ASSUME NEW k, NEW t \in Tasks PROVE t # <<>>
  BY DEF TermCallback, Stopping
<1> QED BY DEF Tasks

\* A step that only queues the check for termination.
LEMMA SignalStep == ASSUME IInv, Signal PROVE IInv'
<1> USE DEF Signal, planVars, jobVars, waitVars, taskVars, termVars, tokenVars, diskVars
<1>0. /\ terminated' = TRUE /\ signalled' = TRUE /\ phase' = phase /\ Up
      /\ UNCHANGED <<st, listeners, queue, active, terminatedTasks>>
  OBVIOUS
<1>a. /\ ready' \in Seq(Callbacks) /\ Single(ready')
      /\ Pending \subseteq Pending' /\ Pending' \subseteq Pending \cup {TermCallback}
      /\ StopLast(ready) => StopLast(ready')
  <2>1. ready \in Seq(Callbacks) /\ Single(ready) /\ TypeOK BY DEF IInv, TypeOK, Once
  <2>2. TermCallback \in InSeq(ready) => terminated BY DEF IInv, Signals, Pending
  <2> QED BY <2>1, <2>2, TermIs DEF Pending
<1>b. \A k, t : t \in Tasks => (<<k, t>> \in Pending' <=> <<k, t>> \in Pending)
  BY <1>a, Others
<1>c. Stopping \in Pending' <=> Stopping \in Pending
  <2>1. Stopping # TermCallback BY DEF Stopping, TermCallback
  <2> QED BY <2>1, <1>a
<1> HIDE DEF Pending
<1>1. TypeOK' BY <1>a DEF IInv, TypeOK
<1>2. Shapes'
  <2>1. TermCallback[1] = "term" /\ TermCallback[2] = <<>> BY DEF TermCallback
  <2> QED BY <1>a, <2>1 DEF IInv, Shapes
<1>3. Once' BY <1>a DEF Once
<1>4. LifeOK'
  <2>1. CASE InLife
    <3>1. Life(st, listeners, queue, active, Pending) BY <2>1 DEF IInv, LifeOK
    <3>2. Life(st, listeners, queue, active, Pending') BY <3>1, <1>b, LifeReady
    <3> QED BY <3>2, <1>0 DEF LifeOK
  <2> QED BY <2>1, <1>0 DEF LifeOK, InLife
<1>5. Course'
  <2>1. \A p \in Pkgs : Build(p) \in Tasks BY TaskIs
  <2> QED BY <1>b, <2>1 DEF IInv, Course, InLife
<1>6. Covered'
  <2>1. \A p \in waitScheduled : Merge(p) \in Tasks BY TaskIs DEF IInv, TypeOK
  <2> QED BY <1>0, <1>b, <2>1 DEF IInv, Covered, InLife, Orderly
<1>7. UnderWay' = UnderWay
  <2>1. \A p \in Pkgs : Build(p) \in Tasks BY TaskIs
  <2> QED BY <1>b, <2>1 DEF UnderWay, Pending
<1>8. JobAccounting' /\ TokensKept' BY <1>7 DEF IInv, JobAccounting, TokensKept, Held
<1>9. AtStart' BY DEF AtStart, Up
<1>10. Signals' BY <1>a, <1>c DEF IInv, Signals, Outside
<1>11. Halting'
  <2>1. Orderly' = Orderly BY DEF Orderly
  <2>2. ExitIsQuiet' = ExitIsQuiet BY DEF ExitIsQuiet, Busy, Alive
  <2> QED BY <1>0, <1>a, <2>1, <2>2 DEF IInv, Halting, Outside, KeepScheduling, Up
<1>12. Resumable'
  <2>1. \A p \in resume : Merge(p) \in Tasks BY TaskIs DEF IInv, TypeOK
  <2> QED BY <1>0, <1>b, <2>1 DEF IInv, Resumable, InLife
<1>13. Tracked'
  <2>1. \A p \in resume : Merge(p) \in Tasks /\ Build(p) \in Tasks BY TaskIs DEF IInv, TypeOK
  <2> QED BY <1>0, <1>b, <2>1 DEF IInv, Tracked
<1>14. Ordered' BY DEF IInv, Ordered, InLife
<1>15. Apart' BY DEF IInv, Apart
<1>16. Reports' BY DEF Reports
<1> QED BY <1>1, <1>2, <1>3, <1>4, <1>5, <1>6, <1>8, <1>9, <1>10, <1>11, <1>12, <1>13,
           <1>14, <1>15, <1>16 DEF IInv

\* SIGUSR2 arrives.
LEMMA FlushStep == ASSUME IInv, Flush PROVE IInv'
<1> USE DEF Flush, planVars, jobVars, taskVars, loopVars, termVars, tokenVars, diskVars
<1>1. TypeOK' BY DEF IInv, TypeOK
<1>2. Shapes' /\ Once' BY DEF IInv, Shapes, Once, Pending
<1>3. LifeOK' BY DEF IInv, LifeOK, InLife, Pending
<1>4. Course' BY DEF IInv, Course, InLife, Pending
<1>5. Covered' BY DEF IInv, Covered, InLife, Pending, Orderly
<1>6. JobAccounting' BY DEF IInv, JobAccounting, UnderWay
<1>7. TokensKept' BY DEF IInv, TokensKept, UnderWay, Held
<1>8. AtStart' BY DEF AtStart, Up
<1>9. Signals' BY DEF IInv, Signals, Pending, Outside
<1>10. Halting' BY DEF IInv, Halting, Orderly, Outside, ExitIsQuiet, KeepScheduling, Pending,
                       Busy, Alive
<1>11. Resumable' BY DEF IInv, Resumable, Pending, InLife
<1>12. Tracked' BY DEF IInv, Tracked, Pending
<1>13. Ordered' BY DEF IInv, Ordered, InLife
<1>14. Apart' BY DEF IInv, Apart
<1>15. Reports' BY DEF IInv, Reports
<1> QED BY <1>1, <1>2, <1>3, <1>4, <1>5, <1>6, <1>7, <1>8, <1>9, <1>10, <1>11, <1>12, <1>13,
           <1>14, <1>15 DEF IInv

\* The tokens held by builds can be counted.
LEMMA HeldIs ==
  ASSUME TypeOK
  PROVE  /\ IsFiniteSet(Held) /\ Cardinality(Held) \in Nat
         /\ IsFiniteSet({p \in Pkgs : token[p] = "empty"})
         /\ Cardinality({p \in Pkgs : token[p] = "empty"}) \in Nat
<1>1. IsFiniteSet(Held) /\ IsFiniteSet({p \in Pkgs : token[p] = "empty"})
  BY Given, FS_Subset DEF Held
<1> QED BY <1>1, FS_CardinalityType

\* Another client takes or returns a token.
LEMMA OtherClientStep == ASSUME IInv, OtherClient PROVE IInv'
<1> USE DEF OtherClient, planVars, jobVars, waitVars, taskVars, loopVars, termVars, diskVars
<1>1. TypeOK' /\ pool' + Cardinality(Held) <= Tokens
  <2>1. Cardinality(Held) \in Nat /\ Tokens \in Nat /\ TypeOK BY Given, HeldIs DEF IInv
  <2>2. pool' \in 0..(Tokens - Cardinality(Held)) OBVIOUS
  <2>3. pool' \in 0..Tokens /\ pool' + Cardinality(Held) <= Tokens BY <2>1, <2>2
  <2> QED BY <2>1, <2>3 DEF TypeOK
<1>2. Shapes' /\ Once' BY DEF IInv, Shapes, Once, Pending
<1>3. LifeOK' BY DEF IInv, LifeOK, InLife, Pending
<1>4. Course' BY DEF IInv, Course, InLife, Pending
<1>5. Covered' BY DEF IInv, Covered, InLife, Pending, Orderly
<1>6. JobAccounting' BY DEF IInv, JobAccounting, UnderWay
<1>7. TokensKept'
  <2>1. Held' = Held BY DEF Held
  <2> QED BY <1>1, <2>1 DEF IInv, TokensKept, UnderWay
<1>8. AtStart' BY DEF IInv, AtStart, Init
<1>9. Signals' BY DEF IInv, Signals, Pending, Outside
<1>10. Halting' BY DEF IInv, Halting, Orderly, Outside, ExitIsQuiet, KeepScheduling, Pending,
                       Busy, Alive
<1>11. Resumable' BY DEF IInv, Resumable, Pending, InLife
<1>12. Tracked' BY DEF IInv, Tracked, Pending
<1>13. Ordered' BY DEF IInv, Ordered, InLife
<1>14. Apart' BY DEF IInv, Apart
<1>15. Reports' BY DEF IInv, Reports
<1> QED BY <1>1, <1>2, <1>3, <1>4, <1>5, <1>6, <1>7, <1>8, <1>9, <1>10, <1>11, <1>12, <1>13,
           <1>14, <1>15 DEF IInv

-----------------------------------------------------------------------------
(* What the invariant says of a moment                                     *)

\* A build has listeners from when it is queued until it has ended.
LEMMA UnderWayIs ==
  ASSUME NEW s \in [Tasks -> TaskStates], NEW ls, NEW qu, NEW ac, NEW P,
         Life(s, ls, qu, ac, P), NEW t \in Tasks
  PROVE  ls[t] # <<>> <=> s[t] \in Live
<1>1. TaskLife(t, s, ls, qu, ac, P) BY DEF Life
<1>2. s[t] \in Live \/ s[t] \in {"none", "wait"} \cup Ended BY DEF TaskStates, Live, Ended
<1>3. ASSUME s[t] \in Live PROVE ls[t] # <<>>
  <2>1. PICK k : ls[t] = <<k>> \/ ls[t] = <<"queue_exit", k>> \/ ls[t] = <<k, "queue_exit">>
    BY <1>1, <1>3 DEF TaskLife, Live
  <2>2. <<k>> # <<>> /\ <<"queue_exit", k>> # <<>> /\ <<k, "queue_exit">> # <<>> OBVIOUS
  <2> QED BY <2>1, <2>2
<1>4. ASSUME s[t] \in {"none", "wait"} \cup Ended PROVE ls[t] = <<>> /\ s[t] \notin Live
  BY <1>1, <1>4 DEF TaskLife, Live, Ended
<1> QED BY <1>2, <1>3, <1>4

\* A queued exit callback is that of a task that has ended.
LEMMA ExitOf ==
  ASSUME IInv, InLife, NEW t \in Tasks, NEW k \in ExitKinds, <<k, t>> \in Pending
  PROVE  /\ Own(k, t) /\ st[t] \in Ended /\ listeners[t] = <<>>
         /\ t[1] = "build" <=> k = "build_exit"
         /\ t[1] = "merge" <=> k \in {"merge_exit", "wait_exit"}
         /\ t[1] = "setup" <=> k = "setup_exit"
<1>1. TaskLife(t, st, listeners, queue, active, Pending) BY DEF IInv, LifeOK, Life
<1>2. Own(k, t) /\ st[t] \in Ended /\ listeners[t] = <<>> BY <1>1 DEF TaskLife
<1>3. t[1] \in {"build", "merge", "setup"} BY TaskIs
<1> QED BY <1>2, <1>3 DEF Own

\* A main loop that is about to end has nothing left to do.
LEMMA Still ==
  ASSUME IInv, mainExit, Orderly, InLife
  PROVE  /\ running = {} /\ waitQueue = <<>>
         /\ \A t \in Tasks : st[t] \notin Live /\ listeners[t] = <<>>
         /\ \A q \in Queues : queue[q] = <<>>
<1>1. running = {} BY DEF IInv, Halting
<1>2. \A t \in Tasks : t[1] # "setup" => st[t] \notin {"wait"} \cup Live
  BY <1>1 DEF IInv, Covered
<1>3. \A p \in Pkgs : st[Setup(p)] \notin Live
  <2>1. \A p \in Pkgs : st[Build(p)] # "run" BY <1>2, TaskIs DEF Live
  <2> QED BY <2>1 DEF IInv, Course
<1>4. ASSUME NEW t \in Tasks PROVE st[t] \notin Live
  <2>1. CASE t[1] = "setup" BY <2>1, <1>3, TaskIs
  <2>2. CASE t[1] # "setup" BY <2>2, <1>2
  <2> QED BY <2>1, <2>2
<1>5. Life(st, listeners, queue, active, Pending) /\ TypeOK BY DEF IInv, LifeOK
<1>6. \A t \in Tasks : listeners[t] = <<>>
  BY <1>4, <1>5, UnderWayIs DEF TypeOK, TaskStates
<1>7. ASSUME NEW q \in Queues PROVE queue[q] = <<>>
  <2>1. queue[q] \in Seq(Tasks) BY <1>5 DEF TypeOK
  <2>2. \A t \in Tasks : t \notin InSeq(queue[q])
    BY <1>4, <1>5 DEF Life, TaskLife, Live
  <2> SUFFICES ASSUME queue[q] # <<>> PROVE FALSE OBVIOUS
  <2>3. Head(queue[q]) \in Tasks /\ Head(queue[q]) \in InSeq(queue[q]) BY <2>1, TailIs
  <2> QED BY <2>2, <2>3
<1>8. waitQueue = <<>>
  <2> SUFFICES ASSUME waitQueue # <<>> PROVE FALSE OBVIOUS
  <2>1. Head(waitQueue) \in Pkgs /\ Head(waitQueue) \in InSeq(waitQueue)
    BY <1>5, TailIs DEF TypeOK
  <2>2. st[Merge(Head(waitQueue))] = "wait" BY <2>1 DEF IInv, Course
  <2> QED BY <1>2, <2>1, <2>2, TaskIs
<1> QED BY <1>1, <1>4, <1>6, <1>7, <1>8

\* A sequence without the stop callback keeps to its order.
LEMMA NoStop == ASSUME NEW s, Stopping \notin InSeq(s) PROVE StopLast(s)
BY DEF StopLast, InSeq

\* The first callback is taken from the queue.
LEMMA CallIs ==
  ASSUME IInv, ready # <<>>, NEW c, c = Head(ready), NEW rd, rd = Tail(ready)
  PROVE  /\ rd \in Seq(Callbacks) /\ Single(rd)
         /\ Pending = {c} \cup InSeq(rd)
         /\ c[1] # "merge_started" => c \notin InSeq(rd)
         /\ TermCallback \in InSeq(rd) => terminated
         /\ StopLast(ready) => StopLast(rd)
         /\ StopLast(ready) /\ c = Stopping => InSeq(rd) \subseteq {TermCallback}
         /\ c = <<c[1], c[2]>>
         /\ \/ c[1] \in {"term", "stop"} /\ c[2] = <<>>
            \/ c[1] \in Kinds \ {"term", "stop"} /\ c[2] \in Tasks
<1>1. ready \in Seq(Callbacks) /\ Single(ready) BY DEF IInv, TypeOK, Once
<1>2. /\ rd \in Seq(Callbacks) /\ Single(rd) /\ Pending = {c} \cup InSeq(rd) /\ c \in Callbacks
      /\ c[1] # "merge_started" => c \notin InSeq(rd)
  BY <1>1, TailIs, SingleTail DEF Pending
<1>3. TermCallback \in InSeq(rd) => terminated BY <1>2 DEF IInv, Signals
<1>4. /\ Len(ready) \in Nat /\ Len(ready) >= 1 /\ Len(rd) = Len(ready) - 1 /\ c = ready[1]
      /\ \A i \in 1..Len(rd) : rd[i] = ready[i + 1] /\ i + 1 \in 1..Len(ready) /\ 1 < i + 1
      /\ \A i, j \in 1..Len(rd) : i < j => i + 1 < j + 1
      /\ 1 \in 1..Len(ready)
  BY <1>1
<1>5. StopLast(ready) => StopLast(rd) BY <1>4 DEF StopLast
<1>6. StopLast(ready) /\ c = Stopping => InSeq(rd) \subseteq {TermCallback}
  BY <1>4 DEF StopLast, InSeq
<1>7. c = <<c[1], c[2]>> BY <1>2 DEF Callbacks
<1>8. \/ c[1] \in {"term", "stop"} /\ c[2] = <<>>
      \/ c[1] \in Kinds \ {"term", "stop"} /\ c[2] \in Tasks
  BY <1>2 DEF IInv, Shapes, Callbacks
<1> QED BY <1>2, <1>3, <1>5, <1>6, <1>7, <1>8

-----------------------------------------------------------------------------
(* Callbacks                                                               *)

\* A callback that is called and does nothing to the tasks.
LEMMA DropStep ==
  ASSUME IInv, phase = "loop", ready # <<>>, NEW c, c = Head(ready),
         c[1] \in {"setup_exit", "merge_started"},
         ready' = Tail(ready), unsatisfied' \in SUBSET Pkgs,
         UNCHANGED <<pkgQueue, completed, failed, returnEarly, jobVars, waitVars, taskVars,
                     phase, changed, wakeup, mainExit, termVars, tokenVars, diskVars>>
  PROVE  IInv'
<1> USE DEF jobVars, waitVars, taskVars, termVars, tokenVars, diskVars
<1>a. /\ ready' \in Seq(Callbacks) /\ Single(ready') /\ Pending = {c} \cup Pending'
      /\ TermCallback \in Pending' => terminated
      /\ StopLast(ready) => StopLast(ready')
  BY CallIs DEF Pending
<1>b. Pending' \subseteq Pending BY <1>a
<1>c. ASSUME NEW t, NEW k, k \notin {"setup_exit", "merge_started"}
      PROVE  <<k, t>> \in Pending' <=> <<k, t>> \in Pending
  <2>1. <<k, t>>[1] = k OBVIOUS
  <2> QED BY <2>1, <1>a, <1>c
<1> HIDE DEF Pending
<1>1. TypeOK' BY <1>a DEF IInv, TypeOK
<1>2. Shapes' /\ Once' BY <1>a, <1>b DEF IInv, Shapes, Once
<1>3. LifeOK'
  <2>1. Life(st, listeners, queue, active, Pending) BY DEF IInv, LifeOK, InLife
  <2>2. Life(st, listeners, queue, active, Pending') BY <2>1, <1>b, <1>c, LifeReady
  <2> QED BY <2>2 DEF LifeOK
<1>4. Course' BY <1>b DEF IInv, Course, InLife
<1>5. Covered' BY <1>b, <1>c DEF IInv, Covered, InLife, Orderly
<1>6. UnderWay' = UnderWay BY <1>c DEF UnderWay, Pending
<1>7. JobAccounting' BY <1>6 DEF IInv, JobAccounting
<1>8. TokensKept' BY <1>6 DEF IInv, TokensKept, Held
<1>9. AtStart' BY DEF AtStart
<1>10. Signals' BY <1>a, <1>b DEF IInv, Signals, Outside
<1>11. Halting' BY <1>a DEF IInv, Halting, Orderly, Outside, ExitIsQuiet, KeepScheduling
<1>12. Resumable' BY <1>c DEF IInv, Resumable, InLife
<1>13. Tracked'
  <2>1. ASSUME NEW p \in Pkgs, NEW t \in {Build(p), Merge(p)}, NEW k \in ExitKinds,
               <<k, t>> \in Pending
        PROVE  <<k, t>> \in Pending'
    <3>1. t \in Tasks /\ t[1] # "setup" BY TaskIs
    <3>2. k # "setup_exit" BY <3>1, <2>1, ExitOf DEF InLife
    <3>3. k # "merge_started" BY DEF ExitKinds
    <3> QED BY <3>2, <3>3, <2>1, <1>c
  <2>2. resume \subseteq Pkgs BY DEF IInv, TypeOK
  <2> QED BY <2>1, <2>2 DEF IInv, Tracked
<1>14. Ordered' BY DEF IInv, Ordered, InLife
<1>15. Apart' BY DEF IInv, Apart
<1>16. Reports' BY DEF IInv, Reports
<1> QED BY <1>1, <1>2, <1>3, <1>4, <1>5, <1>7, <1>8, <1>9, <1>10, <1>11, <1>12, <1>13,
           <1>14, <1>15, <1>16 DEF IInv

\* The exit of a setup phase.
LEMMA SetupExitStep ==
  ASSUME IInv, phase = "loop", ready # <<>>, Head(ready)[1] = "setup_exit", SetupExit
  PROVE  IInv'
BY DropStep DEF SetupExit, planVars, IInv, TypeOK

\* The start of a merge of a system package.
LEMMA SystemMergeStartedStep ==
  ASSUME IInv, phase = "loop", ready # <<>>, Head(ready)[1] = "merge_started",
         SystemMergeStarted(Head(ready)[2][2])
  PROVE  IInv'
<1>1. Head(ready)[2][2] \in Pkgs BY CallIs, TaskIs
<1>2. unsatisfied' \in SUBSET Pkgs
  BY <1>1, Given DEF SystemMergeStarted, IInv, TypeOK
<1> QED BY <1>2, DropStep DEF SystemMergeStarted

\* The main loop ends, and nothing is left.
LEMMA StopStep ==
  ASSUME IInv, phase = "loop", ready # <<>>, Head(ready)[1] = "stop", Stop
  PROVE  IInv'
<1> USE DEF Stop, planVars, jobVars, waitVars, taskVars, termVars, tokenVars, diskVars
<1> DEFINE c == Head(ready)
<1>a. /\ ready' \in Seq(Callbacks) /\ Single(ready') /\ Pending = {c} \cup Pending'
      /\ TermCallback \in Pending' => terminated
      /\ StopLast(ready) => Pending' \subseteq {TermCallback}
      /\ StopLast(ready) => StopLast(ready')
      /\ c = Stopping /\ c \notin Pending'
  BY CallIs DEF Pending, Stopping
<1>b. Pending' \subseteq Pending BY <1>a
<1>c. ASSUME NEW t, NEW k, k # "stop"
      PROVE  <<k, t>> \in Pending' <=> <<k, t>> \in Pending
  BY <1>a, <1>c DEF Stopping
<1>d. InLife /\ mainExit BY <1>a DEF InLife, IInv, Signals
<1> HIDE DEF Pending, c
<1>1. TypeOK' BY <1>a DEF IInv, TypeOK
<1>2. Shapes' /\ Once' BY <1>a, <1>b DEF IInv, Shapes, Once
<1>3. LifeOK'
  <2>1. Life(st, listeners, queue, active, Pending) BY <1>d DEF IInv, LifeOK
  <2>2. Life(st, listeners, queue, active, Pending') BY <2>1, <1>b, <1>c, LifeReady
  <2> QED BY <2>2 DEF LifeOK
<1>4. Course' BY <1>b, <1>d DEF IInv, Course
<1>5. Covered' BY <1>b, <1>c, <1>d DEF IInv, Covered, Orderly
<1>6. UnderWay' = UnderWay BY <1>c DEF UnderWay, Pending
<1>7. JobAccounting' BY <1>6 DEF IInv, JobAccounting
<1>8. TokensKept' BY <1>6 DEF IInv, TokensKept, Held
<1>9. AtStart' BY DEF AtStart
<1>10. Signals' BY <1>a, <1>b, <1>d DEF IInv, Signals, Outside
<1>11. Halting'
  <2> SUFFICES ASSUME Orderly PROVE Halting'
    BY DEF Halting, Orderly
  <2>1. Pending' \subseteq {TermCallback} /\ StopLast(ready') BY <1>a DEF IInv, Halting
  <2>2. /\ running = {} /\ waitQueue = <<>>
        /\ \A t \in Tasks : st[t] \notin Live /\ listeners[t] = <<>>
        /\ \A q \in Queues : queue[q] = <<>>
    BY <1>d, Still
  <2>3. \A t \in Tasks : \A k : k # "stop" => <<k, t>> \notin Pending
    BY <2>1, <1>c, Others
  <2>4. waitScheduled = {}
    <3> SUFFICES ASSUME NEW p \in waitScheduled PROVE FALSE OBVIOUS
    <3>1. Merge(p) \in Tasks BY TaskIs DEF IInv, TypeOK
    <3>2. InSeq(<<>>) = {} BY DEF InSeq
    <3> QED BY <3>1, <3>2, <2>2, <2>3 DEF IInv, Covered
  <2>5. jobs = 0
    <3>1. UnderWay = {} BY <2>2, <2>3, TaskIs DEF UnderWay, Pending
    <3> QED BY <3>1, FS_EmptySet DEF IInv, JobAccounting
  <2>6. \A q \in Queues : active[q] = {}
    <3> SUFFICES ASSUME NEW q \in Queues, NEW t \in active[q] PROVE FALSE OBVIOUS
    <3>1. t \in Tasks BY DEF IInv, TypeOK
    <3>2. TaskLife(t, st, listeners, queue, active, Pending) BY <1>d, <3>1 DEF IInv, LifeOK, Life
    <3>3. st[t] = "run" \/ <<"queue_exit", t>> \in Pending BY <3>2 DEF TaskLife
    <3> QED BY <3>1, <3>3, <2>2, <2>3 DEF Live
  <2>7. ExitIsQuiet' BY <2>2, <2>4, <2>5, <2>6 DEF ExitIsQuiet, Busy, Alive, Live
  <2>8. ~KeepScheduling BY <1>d DEF IInv, Halting
  <2> QED BY <2>1, <2>2, <2>7, <2>8 DEF Halting, KeepScheduling
<1>12. Resumable' BY <1>c, <1>d DEF IInv, Resumable
<1>13. Tracked'
  <2>1. \A k \in ExitKinds : k # "stop" BY DEF ExitKinds
  <2> QED BY <1>c, <2>1 DEF IInv, Tracked
<1>14. Ordered' BY <1>d DEF IInv, Ordered
<1>15. Apart' BY DEF IInv, Apart
<1>16. Reports' BY DEF IInv, Reports
<1> QED BY <1>1, <1>2, <1>3, <1>4, <1>5, <1>7, <1>8, <1>9, <1>10, <1>11, <1>12, <1>13,
           <1>14, <1>15, <1>16 DEF IInv

\* The end of an iteration, which may be the last.
LEMMA EndIterationStep == ASSUME IInv, EndIteration PROVE IInv'
<1> USE DEF EndIteration, planVars, jobVars, waitVars, taskVars, termVars, tokenVars, diskVars
<1>0. phase = "tail" /\ phase' \in {"wait", "loop"} /\ InLife BY DEF InLife
<1>1. CASE UNCHANGED ready /\ mainExit' = mainExit
  BY <1>0, <1>1, PhaseStep DEF IInv, TypeOK
<1>2. CASE ready' = Append(ready, Stopping) /\ mainExit' = TRUE /\ MayExit
  <2>0. ready' = Append(ready, Stopping) /\ mainExit' /\ ~mainExit /\ running = {} /\ ~KeepScheduling
    BY <1>2 DEF MayExit
  <2>a. /\ ready' \in Seq(Callbacks) /\ Single(ready') /\ Pending' = Pending \cup {Stopping}
        /\ Stopping \notin Pending
    <3>1. Stopping \notin Pending BY <2>0 DEF IInv, Signals
    <3>2. Stopping \in Callbacks BY DEF Stopping, Callbacks, Kinds
    <3>3. ready \in Seq(Callbacks) /\ Single(ready) BY DEF IInv, TypeOK, Once
    <3> QED BY <2>0, <3>1, <3>2, <3>3, AppendIs, SingleAppend DEF Pending
  <2>b. \A t \in Tasks : \A k : <<k, t>> \in Pending' <=> <<k, t>> \in Pending
    BY <2>a, Others
  <2>c. Stopping[1] = "stop" /\ Stopping[2] = <<>> /\ Stopping # TermCallback
    BY DEF Stopping, TermCallback
  <2>d. StopLast(ready')
    <3>1. ready \in Seq(Callbacks) BY DEF IInv, TypeOK
    <3>2. /\ Len(ready') = Len(ready) + 1 /\ Len(ready) \in Nat
          /\ \A i \in 1..Len(ready) : ready'[i] = ready[i]
      BY <2>0, <3>1
    <3>3. \A i, j \in 1..Len(ready') : i < j => i \in 1..Len(ready) BY <3>2
    <3>4. \A i \in 1..Len(ready) : ready[i] # Stopping BY <2>a DEF Pending, InSeq
    <3> QED BY <3>2, <3>3, <3>4 DEF StopLast
  <2> HIDE DEF Pending
  <2>1. TypeOK' BY <2>0, <2>a, <1>0 DEF IInv, TypeOK
  <2>2. Shapes' /\ Once' BY <2>a, <2>c DEF IInv, Shapes, Once
  <2>3. LifeOK'
    <3>1. Life(st, listeners, queue, active, Pending) BY <1>0 DEF IInv, LifeOK
    <3>2. Life(st, listeners, queue, active, Pending') BY <3>1, <2>b, LifeReady
    <3> QED BY <3>2 DEF LifeOK
  <2>4. Course'
    <3>1. \A p \in Pkgs : Build(p) \in Tasks BY TaskIs
    <3> QED BY <3>1, <2>b, <1>0 DEF IInv, Course
  <2>5. Covered'
    <3>1. \A p \in waitScheduled : Merge(p) \in Tasks BY TaskIs DEF IInv, TypeOK
    <3> QED BY <3>1, <2>b, <1>0 DEF IInv, Covered, Orderly
  <2>6. UnderWay' = UnderWay
    <3>1. \A p \in Pkgs : Build(p) \in Tasks BY TaskIs
    <3> QED BY <3>1, <2>b DEF UnderWay, Pending
  <2>7. JobAccounting' BY <2>6 DEF IInv, JobAccounting
  <2>8. TokensKept' BY <2>6 DEF IInv, TokensKept, Held
  <2>9. AtStart' BY <1>0 DEF AtStart
  <2>10. Signals' BY <1>0, <2>a, <2>c, <2>0 DEF IInv, Signals, Outside
  <2>11. Halting' BY <1>0, <2>0, <2>d DEF Halting, Outside, KeepScheduling, Orderly, ExitIsQuiet
  <2>12. Resumable'
    <3>1. \A p \in resume : Merge(p) \in Tasks BY TaskIs DEF IInv, TypeOK
    <3> QED BY <3>1, <2>b, <1>0 DEF IInv, Resumable
  <2>13. Tracked'
    <3>1. \A p \in resume : Merge(p) \in Tasks /\ Build(p) \in Tasks BY TaskIs DEF IInv, TypeOK
    <3> QED BY <3>1, <2>b, <1>0 DEF IInv, Tracked
  <2>14. Ordered' BY <1>0 DEF IInv, Ordered
  <2>15. Apart' BY <1>0 DEF IInv, Apart
  <2>16. Reports' BY DEF IInv, Reports
  <2> QED BY <2>1, <2>2, <2>3, <2>4, <2>5, <2>7, <2>8, <2>9, <2>10, <2>11, <2>12, <2>13,
             <2>14, <2>15, <2>16 DEF IInv
<1>3. mainExit \in BOOLEAN BY DEF IInv, TypeOK
<1> QED BY <1>1, <1>2, <1>3 DEF Stopping

-----------------------------------------------------------------------------
(* The main loop begins and ends                                           *)

\* FirstIndex is the least element of a set of indices.
LEMMA FirstIndexIs ==
  ASSUME NEW S, S \subseteq Nat, S # {}
  PROVE  FirstIndex(S) \in S /\ \A j \in S : FirstIndex(S) <= j
BY LeastOne DEF FirstIndex

\* A package of the merge list is found at its index.
LEMMA PositionIs ==
  ASSUME NEW i \in 1..Len(MergeList)
  PROVE  Position(MergeList[i]) = i
<1>1. {j \in 1..Len(MergeList) : MergeList[j] = MergeList[i]} = {i}
  BY Given DEF Alone
<1>2. FirstIndex({i}) = i
  <2>1. {i} \subseteq Nat /\ {i} # {} BY Given
  <2> QED BY <2>1, FirstIndexIs
<1> QED BY <1>1, <1>2 DEF Position

\* What a round has of the merge list is in the order of the merge list.
LEMMA RoundOrder ==
  ASSUME NEW S, NEW list, list = Only(MergeList, S),
         NEW i \in 1..Len(list), NEW j \in 1..Len(list), i < j
  PROVE  ~ (Position(list[j]) < Position(list[i]))
<1>1. PICK h : From(list, h, MergeList, Len(MergeList)) BY Given, OnlyPart
<1>2. /\ h[i] \in 1..Len(MergeList) /\ h[j] \in 1..Len(MergeList) /\ h[i] < h[j]
      /\ list[i] = MergeList[h[i]] /\ list[j] = MergeList[h[j]]
  BY <1>1 DEF From
<1>3. Position(list[i]) = h[i] /\ Position(list[j]) = h[j] BY <1>2, PositionIs
<1>4. h[i] \in Nat /\ h[j] \in Nat BY <1>2
<1> QED BY <1>2, <1>3, <1>4

\* A main loop begins with clean structures.
LEMMA BeginStep ==
  ASSUME TypeOK, NEW list \in Seq(Pkgs), Alone(list), StartLoop(list),
         \A i, j \in 1..Len(list) : i < j => ~ (Position(list[j]) < Position(list[i])),
         InSeq(list) \ Uninstalls \subseteq resume', resume' \subseteq InSeq(list),
         resume' \subseteq Planned, Planned \subseteq resume' \cup installed \cup failedAll',
         resume' \cap installed = {}, failedAll' \in SUBSET Pkgs,
         ready = <<>>, running = {}, jobs = 0, waitQueue = <<>>, waitScheduled = {},
         \A t \in Tasks : listeners[t] = <<>>,
         \A q \in Queues : queue[q] = <<>> /\ active[q] = {},
         \A p \in Pkgs : token[p] = "none",
         ~terminated, ~terminatedTasks, flush => flushed,
         st' = [t \in Tasks |-> "none"], completed' = {}, failed' = {}, unsatisfied' = {},
         returnEarly' = FALSE, wakeup' \in BOOLEAN, reader' \in {"off", "on", "stale"},
         UNCHANGED <<jobVars, waitVars, listeners, queue, active, changed, terminatedTasks,
                     signalled, pool, token, installed>>
  PROVE  IInv'
<1> USE DEF jobVars, waitVars
<1>0. /\ pkgQueue' = list /\ mainExit' = FALSE /\ phase' = "wait"
      /\ implicit' = (Jobserver /\ HasImplicit)
      /\ server' \in {"none", "up", "dead"} /\ (server' = "up" => Jobserver)
      /\ terminated' \in BOOLEAN /\ (terminated' => Jobserver /\ JobserverMayFail)
      /\ ready' = ready \/ ready' = Terminated(ready)
  <2>1. CASE server' = (IF Jobserver THEN "up" ELSE "none") /\ UNCHANGED <<ready, terminated>>
    BY <2>1, Given DEF StartLoop, TypeOK
  <2>2. CASE /\ Jobserver /\ JobserverMayFail
             /\ server' = "dead"
             /\ terminated' = TRUE
             /\ ready' = Terminated(ready)
    BY <2>2 DEF StartLoop
  <2> QED BY <2>1, <2>2 DEF StartLoop
<1>a. /\ ready' \in Seq(Callbacks) /\ Single(ready') /\ Pending' \subseteq {TermCallback}
      /\ TermCallback \in Pending' => terminated'
  <2>1. ready \in Seq(Callbacks) /\ Single(ready) /\ InSeq(ready) = {}
    BY DEF TypeOK, Single, InSeq
  <2>2. CASE ready' = ready BY <2>1, <2>2 DEF Pending
  <2>3. CASE ready' = Terminated(ready)
    <3>1. TermCallback \in InSeq(ready) => terminated BY <2>1
    <3> QED BY <1>0, <2>1, <2>3, <3>1, TermIs DEF Pending
  <2> QED BY <1>0, <2>2, <2>3
<1>b. \A t \in Tasks : \A k : <<k, t>> \notin Pending' BY <1>a, Others
<1>c. Stopping \notin Pending' BY <1>a DEF Stopping, TermCallback
<1> HIDE DEF Pending
<1>1. TypeOK'
  <2>1. Planned \subseteq Pkgs BY Given DEF Planned, InSeq
  <2>2. implicit' \in BOOLEAN BY <1>0, Given
  <2> QED BY <1>0, <1>a, <2>1, <2>2 DEF TypeOK
<1>2. Shapes' /\ Once'
  <2>1. TermCallback[1] = "term" /\ TermCallback[2] = <<>> BY DEF TermCallback
  <2> QED BY <1>a, <2>1 DEF Shapes, Once
<1>e. InSeq(<<>>) = {} /\ Alone(<<>>) BY DEF InSeq, Alone
<1>f. /\ \A t \in Tasks : st'[t] = "none" /\ listeners'[t] = <<>>
      /\ \A q \in Queues : queue'[q] = <<>> /\ active'[q] = {}
  OBVIOUS
<1>3. LifeOK'
  <2>1. ASSUME NEW t \in Tasks
        PROVE  TaskLife(t, st', listeners', queue', active', Pending')
    <3>1. \A k : <<k, t>> \notin Pending' BY <1>b
    <3> QED BY <1>e, <1>f, <3>1 DEF TaskLife, Ended, Live
  <2>2. \A q \in Queues : Alone(queue'[q]) BY <1>e, <1>f
  <2> QED BY <2>1, <2>2 DEF LifeOK, Life
<1>4. Course'
  <2>1. \A p \in Pkgs : /\ st'[Build(p)] = "none" /\ st'[Merge(p)] = "none"
                        /\ st'[Setup(p)] = "none"
                        /\ \A k : <<k, Build(p)>> \notin Pending'
    BY <1>b, <1>f, TaskIs
  <2>2. \A p \in InSeq(list) : p \in Pkgs BY DEF InSeq
  <2>3. waitQueue' = <<>> OBVIOUS
  <2> QED BY <1>0, <1>e, <2>1, <2>2, <2>3 DEF Course, Live
<1>5. Covered' BY <1>b, <1>f DEF Covered, InLife, Orderly, Live
<1>6. UnderWay' = {} BY <1>b, <1>f, TaskIs DEF UnderWay, Pending
<1>7. JobAccounting' BY <1>6, FS_EmptySet, Given DEF JobAccounting
<1>8. TokensKept'
  <2>1. Held' = {} /\ {p \in Pkgs : token'[p] = "empty"} = {} /\ {p \in Pkgs : token'[p] # "none"} = {}
    BY DEF Held
  <2>2. Cardinality({}) = 0 BY FS_EmptySet
  <2>3. pool' \in 0..Tokens /\ pool' + 0 <= Tokens BY Given DEF TypeOK
  <2>4. server' = "up" => implicit' = HasImplicit BY <1>0, Given
  <2>5. server' = "up" => 0 + (IF implicit' THEN 1 ELSE 0) = (IF HasImplicit THEN 1 ELSE 0)
    BY <2>4
  <2> QED BY <1>0, <2>1, <2>2, <2>3, <2>5 DEF TokensKept
<1>9. AtStart' BY <1>0 DEF AtStart
<1>10. Signals' BY <1>0, <1>a, <1>c DEF Signals
<1>11. Halting' BY <1>0, <1>c, NoStop DEF Halting, Outside, ExitIsQuiet, Pending
<1>12. Resumable'
  <2>1. \A p \in Pkgs : st'[Merge(p)] = "none" BY <1>f, TaskIs
  <2> QED BY <1>0, <2>1 DEF Resumable, Planned
<1>13. Tracked' BY <1>0 DEF Tracked
<1>14. Ordered'
  <2>1. \A p \in Pkgs : st'[Build(p)] = "none" BY <1>f, TaskIs
  <2> QED BY <1>0, <2>1 DEF Ordered, Live
<1>15. Apart'
  <2>1. \A p \in Pkgs : st'[Merge(p)] = "none" BY <1>f, TaskIs
  <2> QED BY <1>0, <2>1 DEF Apart, Live
<1>16. Reports' BY <1>0 DEF Reports
<1> QED BY <1>1, <1>2, <1>3, <1>4, <1>5, <1>7, <1>8, <1>9, <1>10, <1>11, <1>12, <1>13,
           <1>14, <1>15, <1>16 DEF IInv

\* merge() begins its first main loop.
LEMMA StartStep == ASSUME IInv, Start PROVE IInv'
<1> USE DEF Start, diskVars
<1>1. Init /\ TypeOK BY DEF IInv, AtStart
<1>2. /\ MergeList \in Seq(Pkgs) /\ Alone(MergeList) BY Given
<1>3. ASSUME NEW i \in 1..Len(MergeList), NEW j \in 1..Len(MergeList), i < j
      PROVE  ~ (Position(MergeList[j]) < Position(MergeList[i]))
  <2>1. i \in Nat /\ j \in Nat BY Given
  <2> QED BY <1>3, <2>1, PositionIs
<1>4. resume = Planned /\ installed = {} BY <1>1 DEF Init, Planned, InSeq
<1>5. InSeq(MergeList) \ Uninstalls \subseteq resume /\ resume \subseteq InSeq(MergeList)
  BY <1>4 DEF Planned
<1>6. /\ StartLoop(MergeList)
      /\ st' = [t \in Tasks |-> "none"] /\ completed' = {} /\ failed' = {} /\ unsatisfied' = {}
      /\ returnEarly' = FALSE /\ wakeup' = FALSE /\ reader' = "off"
      /\ UNCHANGED <<jobVars, waitVars, listeners, queue, active, changed, terminatedTasks,
                     signalled, pool, token, resume, installed, failedAll>>
  BY <1>1 DEF Init, taskVars
<1>7. /\ ready = <<>> /\ running = {} /\ jobs = 0 /\ waitQueue = <<>> /\ waitScheduled = {}
      /\ \A t \in Tasks : listeners[t] = <<>>
      /\ \A q \in Queues : queue[q] = <<>> /\ active[q] = {}
      /\ \A p \in Pkgs : token[p] = "none"
      /\ ~terminated /\ ~terminatedTasks /\ ~flush
  BY <1>1 DEF Init
<1>8. failedAll' \in SUBSET Pkgs BY <1>1, <1>6 DEF TypeOK
<1> HIDE DEF Start
<1> QED BY <1>1, <1>2, <1>3, <1>4, <1>5, <1>6, <1>7, <1>8, BeginStep

\* merge() is over.
LEMMA OverStep ==
  ASSUME IInv, phase = "exited", phase' \in {"done", "raised"}, pkgQueue' = <<>>,
         completed' = {}, unsatisfied' = {}, returnEarly' = FALSE, wakeup' = FALSE,
         reader' \in {"off", "on", "stale"}, server' = "none", failed' \in SUBSET Pkgs,
         failedAll' \in SUBSET Pkgs, resume' \subseteq resume,
         Planned \subseteq resume' \cup installed \cup failedAll',
         st' \in {st, [t \in Tasks |-> "none"]},
         UNCHANGED <<jobVars, waitVars, listeners, queue, active, ready, changed, mainExit,
                     termVars, implicit, pool, token, installed>>
  PROVE  IInv'
<1> USE DEF jobVars, waitVars, termVars
<1>1. TypeOK'
  <2>1. st' \in [Tasks -> {"none", "wait", "queued", "run", "ok", "fail"}] BY DEF IInv, TypeOK
  <2>2. pkgQueue' \in Seq(Pkgs) OBVIOUS
  <2> QED BY <2>1, <2>2 DEF IInv, TypeOK
<1>2. Shapes' /\ Once' BY DEF IInv, Shapes, Once, Pending
<1>3. LifeOK' /\ Course' BY DEF LifeOK, Course, InLife
<1>4. Covered' BY DEF IInv, Covered, InLife, Pending
<1>5. JobAccounting' BY DEF IInv, JobAccounting, UnderWay
<1>6. TokensKept' BY DEF IInv, TokensKept, UnderWay, Held
<1>7. AtStart' BY DEF AtStart
<1>8. Signals' BY DEF IInv, Signals, Pending, Outside
<1>a. \A t \in Tasks : st'[t] = "none" \/ st'[t] = st[t]
  OBVIOUS
<1>9. Halting'
  <2>1. ExitIsQuiet => ExitIsQuiet' BY <1>a DEF ExitIsQuiet, Busy, Alive
  <2> QED BY <2>1 DEF IInv, Halting, Orderly, Outside, KeepScheduling, Pending
<1>10. Resumable'
  <2>1. \A p \in Pkgs : st'[Merge(p)] = "ok" => st[Merge(p)] = "ok" BY <1>a, TaskIs
  <2>2. InSeq(<<>>) = {} BY DEF InSeq
  <2> QED BY <2>1, <2>2 DEF IInv, Resumable, Pending, InLife, Planned
<1>11. Tracked' BY DEF Tracked
<1>12. Ordered' BY DEF Ordered, InLife
<1>13. Apart'
  <2>1. \A p \in Pkgs : st'[Merge(p)] \in Live => st[Merge(p)] \in Live BY <1>a, TaskIs DEF Live
  <2>2. /\ waitScheduled \subseteq Pkgs /\ phase' # "transfer"
        /\ UNCHANGED <<flush, flushed, waitScheduled, jobs>>
    BY DEF IInv, TypeOK
  <2> QED BY <2>1, <2>2 DEF IInv, Apart
<1>14. Reports' BY DEF IInv, Reports
<1> QED BY <1>1, <1>2, <1>3, <1>4, <1>5, <1>6, <1>7, <1>8, <1>9, <1>10, <1>11, <1>12, <1>13,
           <1>14 DEF IInv

\* merge() returns.
LEMMA FinishStep == ASSUME IInv, Finish PROVE IInv'
<1>1. /\ failed' \in SUBSET Pkgs /\ failedAll' \in SUBSET Pkgs
      /\ Planned \subseteq resume' \cup installed \cup failedAll'
      /\ reader' \in {"off", "on", "stale"}
  BY DEF Finish, Cleanup, IInv, TypeOK, Resumable
<1> QED BY <1>1, OverStep DEF Finish, Cleanup, taskVars

\* merge() raises when a failed package is not in the resume list.
LEMMA RemoveRaisesStep == ASSUME IInv, RemoveRaises PROVE IInv'
<1>1. /\ failed' \in SUBSET Pkgs /\ failedAll' \in SUBSET Pkgs
      /\ Planned \subseteq resume' \cup installed \cup failedAll'
      /\ reader' \in {"off", "on", "stale"}
  BY DEF RemoveRaises, Cleanup, IInv, TypeOK, Resumable, diskVars
<1> QED BY <1>1, OverStep DEF RemoveRaises, Cleanup, taskVars, diskVars

\* Another round: everything is clean, because emerge has not been terminated.
LEMMA KeepGoingStep ==
  ASSUME IInv, NEW dropped \in SUBSET (resume \ failed), KeepGoingRound(dropped)
  PROVE  IInv'
<1> DEFINE rest == (resume \ failed) \ dropped
           list == Only(MergeList, rest)
<1>0. /\ phase = "exited" /\ failed \subseteq resume
      /\ failedAll' = Reported(dropped) /\ failed' = {}
      /\ completed' = {} /\ unsatisfied' = {} /\ returnEarly' = FALSE
      /\ wakeup' = FALSE /\ resume' = rest
      /\ reader' \in {"off", "on", "stale"}
      /\ st' = [t \in Tasks |-> "none"]
      /\ UNCHANGED <<jobVars, waitVars, listeners, queue, active, changed,
                     terminatedTasks, signalled, pool, token, installed>>
  BY DEF KeepGoingRound, IInv, TypeOK
<1>1. failedAll' \in SUBSET Pkgs
  BY <1>0 DEF Reported, IInv, TypeOK
<1>2. Planned \subseteq resume' \cup installed \cup failedAll'
  BY <1>0 DEF Reported, IInv, Resumable
<1>3. CASE ~terminated /\ StartLoop(list)
  <2>1. ~terminatedTasks /\ Orderly BY <1>3 DEF IInv, Signals, Orderly
  <2>2. ExitIsQuiet /\ Pending = {}
    <3>1. TermCallback \notin Pending BY <1>3 DEF IInv, Signals
    <3> QED BY <3>1, <2>1, <1>0 DEF IInv, Halting, Outside
  <2>3. /\ running = {} /\ jobs = 0 /\ waitQueue = <<>> /\ waitScheduled = {}
        /\ \A q \in Queues : queue[q] = <<>> /\ active[q] = {}
        /\ \A t \in Tasks : st[t] # "run"
    BY <2>2, <1>0 DEF ExitIsQuiet, Busy, Alive
  <2>4. ready = <<>>
    <3> SUFFICES ASSUME ready # <<>> PROVE FALSE OBVIOUS
    <3>1. Head(ready) \in InSeq(ready) BY TailIs DEF IInv, TypeOK
    <3> QED BY <3>1, <2>2 DEF Pending
  <2>5. Life(st, listeners, queue, active, Pending) /\ TypeOK
    BY <1>0 DEF IInv, LifeOK, InLife
  <2>6. \A t \in Tasks : st[t] \notin Live
    <3>1. InSeq(<<>>) = {} BY DEF InSeq
    <3> QED BY <2>3, <2>5, <3>1, QueueIs DEF Life, TaskLife, Live
  <2>7. \A t \in Tasks : listeners[t] = <<>>
    BY <2>5, <2>6, UnderWayIs DEF TypeOK, TaskStates
  <2>8. \A p \in Pkgs : token[p] = "none"
    <3>1. UnderWay = {} BY <2>2, <2>7, TaskIs DEF UnderWay, Pending
    <3> QED BY <3>1 DEF IInv, TokensKept
  <2>9. list \in Seq(Pkgs) /\ Alone(list) /\ InSeq(list) = InSeq(MergeList) \cap rest
    BY Given, OnlyIs
  <2>10. \A i, j \in 1..Len(list) : i < j => ~ (Position(list[j]) < Position(list[i]))
    BY RoundOrder
  <2>11. resume \subseteq Planned BY DEF IInv, Resumable
  <2>12. resume' \subseteq InSeq(list) /\ InSeq(list) \subseteq resume'
    BY <1>0, <2>9, <2>11 DEF Planned
  <2>13. resume' \cap installed = {} BY <1>0, <2>2 DEF IInv, Resumable
  <2>14. flush => flushed BY DEF IInv, Apart
  <2> HIDE DEF list, rest
  <2>15. resume' \subseteq Planned BY <1>0, <2>11 DEF rest
  <2> QED BY <1>0, <1>1, <1>2, <1>3, <2>1, <2>3, <2>4, <2>5, <2>7, <2>8, <2>9, <2>10, <2>12,
             <2>13, <2>14, <2>15, BeginStep
<1>4. CASE /\ pkgQueue' = <<>> /\ phase' = "done" /\ server' = "none"
           /\ UNCHANGED <<mainExit, implicit, ready, terminated>>
  BY <1>0, <1>1, <1>2, <1>4, OverStep DEF termVars
<1> QED BY <1>3, <1>4 DEF KeepGoingRound

-----------------------------------------------------------------------------
(* Job tokens                                                              *)

\* Tokens are given back: none is lost, and there is one implicit slot at most.
LEMMA ReleaseIs ==
  ASSUME TypeOK, TokensKept, NEW ps \in SUBSET Pkgs, ReleaseTokens(ps),
         UnderWay \ ps \subseteq UnderWay'
  PROVE  /\ token' \in [Pkgs -> {"none", "empty", "token"}] /\ server' \in {"none", "up", "dead"}
         /\ implicit' \in BOOLEAN /\ pool' \in 0..Tokens /\ reader' \in {"off", "on", "stale"}
         /\ terminated' \in BOOLEAN /\ (terminated => terminated')
         /\ terminated' => terminated \/ (Jobserver /\ JobserverMayFail)
         /\ TokensKept'
<1> DEFINE back == Returned(ps)
           empties == {p \in Pkgs : token[p] = "empty"}
           nil == {p \in Pkgs : token'[p] = "empty"}
<1>1. /\ token' = [p \in Pkgs |-> IF p \in ps THEN "none" ELSE token[p]]
      /\ token \in [Pkgs -> {"none", "empty", "token"}] /\ server \in {"none", "up", "dead"}
      /\ implicit \in BOOLEAN /\ pool \in 0..Tokens /\ reader \in {"off", "on", "stale"}
      /\ terminated \in BOOLEAN /\ Tokens \in Nat
  BY Given DEF ReleaseTokens, TypeOK
<1>2. token' \in [Pkgs -> {"none", "empty", "token"}] BY <1>1
<1>3. Held' = Held \ back /\ Held \cap back = back
  BY <1>1 DEF Held, Returned
<1>4. nil = empties \ ps
  BY <1>1
<1>5. {p \in Pkgs : token'[p] # "none"} \subseteq UnderWay'
  BY <1>1 DEF TokensKept
<1>6. /\ IsFiniteSet(Held) /\ Cardinality(Held) \in Nat
      /\ IsFiniteSet(empties) /\ Cardinality(empties) \in Nat
  BY HeldIs
<1> HIDE DEF back, empties, nil
<1>7. /\ Cardinality(Held') = Cardinality(Held) - Cardinality(back)
      /\ Cardinality(back) \in Nat /\ Cardinality(Held') \in Nat
  <2>1. /\ IsFiniteSet(Held \ back)
        /\ Cardinality(Held \ back) = Cardinality(Held) - Cardinality(Held \cap back)
    BY <1>6, FS_Difference
  <2>2. IsFiniteSet(back) BY <1>3, <1>6, FS_Intersection
  <2> QED BY <2>1, <2>2, <1>3, FS_CardinalityType
<1>8. /\ pool + Cardinality(Held) <= Tokens
      /\ server = "up" =>
           /\ Jobserver
           /\ Cardinality(empties) + (IF implicit THEN 1 ELSE 0) = (IF HasImplicit THEN 1 ELSE 0)
  BY DEF TokensKept, empties
<1>9. CASE /\ server = "up"
           /\ implicit' = (implicit \/ \E p \in ps : token[p] = "empty")
           /\ pool' = pool + Cardinality(back)
           /\ UNCHANGED <<server, reader, terminated>>
  <2>1. pool' + Cardinality(Held') <= Tokens /\ pool' \in 0..Tokens
    BY <1>1, <1>6, <1>7, <1>8, <1>9
  <2>2. Cardinality(nil) + (IF implicit' THEN 1 ELSE 0) = (IF HasImplicit THEN 1 ELSE 0)
    <3>1. CASE \E p \in ps : token[p] = "empty"
      <4>1. PICK x \in ps : x \in empties BY <3>1 DEF empties
      <4>2. Cardinality(empties) # 0 BY <4>1, <1>6, FS_EmptySet
      <4>3. Cardinality(empties) = 1 /\ ~implicit /\ HasImplicit
        BY <4>2, <1>1, <1>6, <1>8, <1>9
      <4>4. empties = {x} BY <4>1, <4>3, <1>6, FS_Singleton
      <4>5. nil = {} BY <4>1, <4>4, <1>4
      <4>6. Cardinality(nil) = 0 BY <4>5, FS_EmptySet
      <4>7. implicit' = TRUE BY <3>1, <1>9
      <4> QED BY <4>3, <4>6, <4>7
    <3>2. CASE ~ \E p \in ps : token[p] = "empty"
      <4>1. nil = empties BY <3>2, <1>4 DEF empties
      <4>2. implicit' = implicit BY <3>2, <1>9, <1>1
      <4> QED BY <4>1, <4>2, <1>8, <1>9
    <3> QED BY <3>1, <3>2
  <2>3. implicit' \in BOOLEAN BY <1>1, <1>9
  <2>4. TokensKept' BY <2>1, <2>2, <1>5, <1>8, <1>9 DEF TokensKept, nil
  <2> QED BY <2>1, <2>3, <2>4, <1>1, <1>2, <1>9
<1>10. CASE server' # "up" /\ UNCHANGED <<implicit, pool>>
  <2>1. pool' + Cardinality(Held') <= Tokens /\ pool' \in 0..Tokens
    BY <1>1, <1>6, <1>7, <1>8, <1>10
  <2>2. TokensKept' BY <2>1, <1>5, <1>10 DEF TokensKept
  <2>3. CASE JobserverFails /\ server = "up"
    BY <2>1, <2>2, <2>3, <1>1, <1>2, <1>8, <1>10 DEF JobserverFails
  <2>4. CASE UNCHANGED <<server, reader, terminated>>
    BY <2>1, <2>2, <2>4, <1>1, <1>2, <1>10
  <2> QED BY <2>3, <2>4, <1>10 DEF ReleaseTokens
<1>11. JobserverFails => server' # "up" /\ UNCHANGED <<implicit, pool>> BY DEF JobserverFails
<1> QED BY <1>9, <1>10, <1>11 DEF ReleaseTokens, back

\* A token, or the implicit slot, is taken for a package that has none.
LEMMA AcquireIs ==
  ASSUME TypeOK, TokensKept, NEW p \in Pkgs, p \notin UnderWay, AcquireToken(p),
         UnderWay \cup {p} \subseteq UnderWay'
  PROVE  /\ token' \in [Pkgs -> {"none", "empty", "token"}] /\ server' \in {"none", "up", "dead"}
         /\ implicit' \in BOOLEAN /\ pool' \in 0..Tokens /\ reader' \in {"off", "on", "stale"}
         /\ terminated' \in BOOLEAN /\ (terminated => terminated')
         /\ terminated' => terminated \/ (Jobserver /\ JobserverMayFail)
         /\ TokensKept'
<1> DEFINE empties == {x \in Pkgs : token[x] = "empty"}
           nil == {x \in Pkgs : token'[x] = "empty"}
<1>1. /\ token \in [Pkgs -> {"none", "empty", "token"}] /\ server \in {"none", "up", "dead"}
      /\ implicit \in BOOLEAN /\ pool \in 0..Tokens /\ reader \in {"off", "on", "stale"}
      /\ terminated \in BOOLEAN /\ Tokens \in Nat
  BY Given DEF TypeOK
<1>2. token[p] = "none" BY DEF TokensKept
<1>3. /\ IsFiniteSet(Held) /\ Cardinality(Held) \in Nat
      /\ IsFiniteSet(empties) /\ Cardinality(empties) \in Nat
  BY HeldIs
<1>4. /\ pool + Cardinality(Held) <= Tokens
      /\ server = "up" =>
           /\ Jobserver
           /\ Cardinality(empties) + (IF implicit THEN 1 ELSE 0) = (IF HasImplicit THEN 1 ELSE 0)
  BY DEF TokensKept
<1>5. ASSUME NEW v \in {"empty", "token"}, token' = [token EXCEPT ![p] = v]
      PROVE  /\ token' \in [Pkgs -> {"none", "empty", "token"}]
             /\ {x \in Pkgs : token'[x] # "none"} \subseteq UnderWay'
  BY <1>1, <1>5 DEF TokensKept
<1>6. ASSUME token' = [token EXCEPT ![p] = "empty"]
      PROVE  Held' = Held /\ Cardinality(nil) = Cardinality(empties) + 1
  <2>1. Held' = Held BY <1>1, <1>2, <1>6 DEF Held
  <2>2. nil = empties \cup {p} /\ p \notin empties BY <1>1, <1>2, <1>6
  <2> HIDE DEF nil, empties
  <2> QED BY <2>1, <2>2, <1>3, FS_AddElement
<1>7. CASE server' # "up" /\ token' = [token EXCEPT ![p] = "empty"] /\ UNCHANGED pool
  <2>1. TokensKept' BY <1>4, <1>5, <1>6, <1>7 DEF TokensKept
  <2>2. CASE UNCHANGED <<server, implicit, pool, reader, terminated>>
    BY <2>1, <2>2, <1>1, <1>5, <1>7
  <2>3. CASE server = "up" /\ JobserverFails
    BY <2>1, <2>3, <1>1, <1>4, <1>5, <1>7 DEF JobserverFails
  <2> QED BY <2>2, <2>3, <1>7 DEF AcquireToken
<1>8. CASE /\ server = "up" /\ implicit
           /\ token' = [token EXCEPT ![p] = "empty"]
           /\ implicit' = FALSE
           /\ UNCHANGED <<server, pool, reader, terminated>>
  <2> HIDE DEF nil, empties
  <2>1. Cardinality(nil) + 0 = (IF HasImplicit THEN 1 ELSE 0)
    BY <1>3, <1>4, <1>6, <1>8
  <2>2. TokensKept' BY <2>1, <1>4, <1>5, <1>6, <1>8 DEF TokensKept, nil
  <2> QED BY <2>2, <1>1, <1>5, <1>8
<1>9. CASE /\ server = "up" /\ ~implicit /\ pool > 0
           /\ token' = [token EXCEPT ![p] = "token"]
           /\ pool' = pool - 1
           /\ UNCHANGED <<server, implicit, reader, terminated>>
  <2>1. Held' = Held \cup {p} /\ p \notin Held BY <1>1, <1>2, <1>9 DEF Held
  <2>2. nil = empties BY <1>1, <1>2, <1>9
  <2> HIDE DEF nil, empties
  <2>3. Cardinality(Held') = Cardinality(Held) + 1 BY <2>1, <1>3, FS_AddElement
  <2>4. pool' + Cardinality(Held') <= Tokens /\ pool' \in 0..Tokens
    BY <2>3, <1>1, <1>3, <1>4, <1>9
  <2>5. TokensKept' BY <2>2, <2>4, <1>4, <1>5, <1>9 DEF TokensKept, nil, empties
  <2> QED BY <2>4, <2>5, <1>1, <1>5, <1>9
<1> QED BY <1>7, <1>8, <1>9 DEF AcquireToken, JobserverFails

-----------------------------------------------------------------------------
(* The end of a merge                                                      *)

\* _task_complete only takes packages out of the queue.
LEMMA CompleteIs ==
  ASSUME TypeOK, NEW p \in Pkgs, Complete(p)
  PROVE  /\ pkgQueue' \in Seq(Pkgs) /\ InSeq(pkgQueue') \subseteq InSeq(pkgQueue)
         /\ Alone(pkgQueue) => Alone(pkgQueue')
         /\ \A d \in InSeq(pkgQueue) \ (Uninstalls \cup {p}) : d \in InSeq(pkgQueue')
         /\ p \notin InSeq(pkgQueue')
         /\ completed' \in SUBSET Pkgs /\ unsatisfied' \in SUBSET Pkgs /\ returnEarly' = FALSE
         /\ completed' \subseteq completed \cup {p} \cup Uninstalls
         /\ \E h : From(pkgQueue', h, pkgQueue, Len(pkgQueue))
<1> DEFINE done == {p} \cup (IF HasGraph THEN Replaces[p] ELSE {})
<1>1. done \subseteq {p} \cup Uninstalls /\ done \subseteq Pkgs /\ p \in done
  BY Given
<1>2. /\ completed' = completed \cup done /\ unsatisfied' = unsatisfied \ done
      /\ returnEarly' = FALSE
      /\ pkgQueue' = Only(pkgQueue, Pkgs \ done)
  BY DEF Complete
<1> HIDE DEF done
<1>3. pkgQueue \in Seq(Pkgs) /\ completed \subseteq Pkgs /\ unsatisfied \subseteq Pkgs
  BY DEF TypeOK
<1>4. /\ pkgQueue' \in Seq(Pkgs) /\ InSeq(pkgQueue') = InSeq(pkgQueue) \cap (Pkgs \ done)
      /\ Alone(pkgQueue) => Alone(pkgQueue')
  BY <1>2, <1>3, OnlyIs
<1>5. \E h : From(pkgQueue', h, pkgQueue, Len(pkgQueue))
  BY <1>2, <1>3, OnlyPart
<1>6. InSeq(pkgQueue) \subseteq Pkgs BY <1>3 DEF InSeq
<1> QED BY <1>1, <1>2, <1>3, <1>4, <1>5, <1>6

\* The exit of a merge, whether it had to wait or not.
LEMMA MergeExitStep ==
  ASSUME IInv, phase = "loop", ready # <<>>, NEW k \in {"merge_exit", "wait_exit"},
         Head(ready)[1] = k, NEW p, p = Head(ready)[2][2],
         NEW waited \in BOOLEAN, waited <=> k = "wait_exit", MergeExit(p, waited)
  PROVE  IInv'
<1> USE DEF tokenVars, termVars, taskVars
<1> DEFINE c == Head(ready)
           m == Merge(p)
<1>0. InLife /\ k \in ExitKinds /\ TypeOK BY DEF InLife, ExitKinds, IInv
<1>a. /\ ready' = Tail(ready) /\ phase' = "wait" /\ running' = running \ {m}
      /\ waitScheduled' = IF waited THEN waitScheduled \ {p} ELSE waitScheduled
      /\ resume' = Committed(p)
      /\ UNCHANGED <<jobs, waitQueue, flush, flushed, st, listeners, queue, active, changed,
                     wakeup, mainExit, terminated, terminatedTasks, signalled, server, implicit,
                     pool, token, reader, installed>>
  BY DEF MergeExit
<1>b. /\ ready' \in Seq(Callbacks) /\ Single(ready') /\ Pending = {c} \cup Pending'
      /\ TermCallback \in Pending' => terminated
      /\ StopLast(ready) => StopLast(ready')
      /\ c \notin Pending'
      /\ c = <<k, c[2]>> /\ c[2] \in Tasks
  BY <1>a, CallIs DEF Pending
<1>c. p \in Pkgs /\ c[2] = m /\ st[m] \in Ended /\ listeners[m] = <<>> /\ m \in Tasks
  <2>1. c[2][1] = "merge" /\ st[c[2]] \in Ended /\ listeners[c[2]] = <<>>
    BY <1>0, <1>b, ExitOf
  <2> QED BY <2>1, <1>b, TaskIs
<1> HIDE DEF c
<1>d. Pending' \subseteq Pending BY <1>b
<1>e. ASSUME NEW t, NEW e, t # m
      PROVE  <<e, t>> \in Pending' <=> <<e, t>> \in Pending
  BY <1>b, <1>c, <1>e
<1>f. ASSUME NEW t, NEW e, e # k
      PROVE  <<e, t>> \in Pending' <=> <<e, t>> \in Pending
  BY <1>b, <1>c, <1>f
<1>g. \A e \in {"merge_exit", "wait_exit"} : <<e, m>> \notin Pending'
  <2>1. TaskLife(m, st, listeners, queue, active, Pending) BY <1>0, <1>c DEF IInv, LifeOK, Life
  <2>2. <<k, m>> \in Pending /\ <<k, m>> \notin Pending' BY <1>b, <1>c
  <2> QED BY <2>1, <2>2, <1>d DEF TaskLife
<1> HIDE DEF m, Pending
<1>h. /\ pkgQueue' \in Seq(Pkgs) /\ InSeq(pkgQueue') \subseteq InSeq(pkgQueue)
      /\ Alone(pkgQueue) => Alone(pkgQueue')
      /\ \A d \in InSeq(pkgQueue) \ (Uninstalls \cup {p}) : d \in InSeq(pkgQueue')
      /\ completed' \in SUBSET Pkgs /\ unsatisfied' \in SUBSET Pkgs
      /\ returnEarly' \in BOOLEAN
      /\ completed' \subseteq completed \cup {p} \cup Uninstalls
      /\ p \in completed' => p \in completed \/ st[m] = "ok"
      /\ \E h : From(pkgQueue', h, pkgQueue, Len(pkgQueue))
      /\ failed \subseteq failed' /\ failed' \in SUBSET Pkgs /\ failedAll' \in SUBSET Pkgs
      /\ failedAll \subseteq failedAll' /\ (st[m] = "fail" => p \in failed')
  <2>0. pkgQueue \in Seq(Pkgs) /\ failed \subseteq Pkgs /\ failedAll \subseteq Pkgs BY <1>0 DEF TypeOK
  <2>1. CASE /\ st[m] = "fail"
             /\ failed' = failed \cup {p}
             /\ UNCHANGED <<pkgQueue, completed, unsatisfied, returnEarly, failedAll>>
    <3>1. From(pkgQueue, [i \in 1..Len(pkgQueue) |-> i], pkgQueue, Len(pkgQueue))
      BY <2>0 DEF From
    <3> QED BY <3>1, <2>0, <2>1, <1>0, <1>c DEF TypeOK
  <2>2. CASE st[m] = "ok" /\ Complete(p) /\ failedAll' \in {failedAll, failedAll \cup {p}}
             /\ UNCHANGED failed
    BY <2>0, <2>2, <1>0, <1>c, CompleteIs
  <2> QED BY <2>1, <2>2 DEF MergeExit, m
<1>i. /\ resume' \subseteq resume /\ \A d \in resume : d \notin resume' => d = p
      /\ \A d \in resume \ resume' : st[m] = "ok"
      /\ st[m] = "ok" => p \notin resume' \/ p \in Uninstalls
  BY <1>a DEF Committed, m
<1>1. TypeOK' BY <1>0, <1>a, <1>b, <1>h, <1>i DEF TypeOK
<1>2. Shapes' /\ Once' BY <1>b, <1>d DEF IInv, Shapes, Once
<1>3. LifeOK'
  <2>1. Life(st, listeners, queue, active, Pending) BY <1>0 DEF IInv, LifeOK
  <2>2. Life(st, listeners, queue, active, Pending') BY <2>1, <1>d, <1>f, LifeReady
  <2> QED BY <2>2, <1>a DEF LifeOK
<1>4. Course' BY <1>0, <1>a, <1>d, <1>h DEF IInv, Course
<1>5. Covered'
  <2>1. NeverWaits => /\ waitQueue' = <<>> /\ waitScheduled' = {}
                      /\ \A t \in Tasks : st'[t] # "wait"
    BY <1>a DEF IInv, Covered
  <2>2. ASSUME Orderly', NEW t \in Tasks, t[1] # "setup", st[t] \in {"wait"} \cup Live
        PROVE  t \in running'
    <3>1. t # m BY <1>c, <2>2 DEF Ended, Live
    <3> QED BY <3>1, <2>2, <1>0, <1>a DEF IInv, Covered, Orderly
  <2>3. ASSUME ~terminatedTasks, NEW e \in ExitKinds \ {"setup_exit"}, NEW t \in Tasks,
               <<e, t>> \in Pending'
        PROVE  t \in running'
    <3>1. t # m
      <4> SUFFICES ASSUME t = m PROVE FALSE OBVIOUS
      <4>1. e \in {"merge_exit", "wait_exit"}
        BY <2>3, <1>0, <1>d, ExitOf, TaskIs DEF m
      <4> QED BY <4>1, <2>3, <1>g
    <3>2. <<e, t>> \in Pending BY <2>3, <1>d
    <3> QED BY <3>1, <3>2, <2>3, <1>a DEF IInv, Covered
  <2>4. ASSUME NEW x \in waitScheduled'
        PROVE  "wait_exit" \in InSeq(listeners[Merge(x)]) \/ <<"wait_exit", Merge(x)>> \in Pending'
    <3>1. x \in waitScheduled BY <1>a
    <3>2. CASE <<"wait_exit", Merge(x)>> \in Pending
      <4>1. CASE k = "wait_exit"
        <5>1. x # p BY <4>1, <1>a
        <5>2. Merge(x) # m BY <5>1, TaskIs DEF m
        <5> QED BY <5>2, <3>2, <1>e
      <4>2. CASE k # "wait_exit" BY <4>2, <3>2, <1>f
      <4> QED BY <4>1, <4>2
    <3> QED BY <3>1, <3>2 DEF IInv, Covered
  <2> QED BY <2>1, <2>2, <2>3, <2>4, <1>a DEF Covered
<1>6. UnderWay' = UnderWay
  <2>1. \A x : Build(x) # m BY TaskIs DEF m
  <2> QED BY <2>1, <1>a, <1>e DEF UnderWay, Pending
<1>7. JobAccounting' BY <1>6, <1>a DEF IInv, JobAccounting
<1>8. TokensKept' BY <1>6, <1>a DEF IInv, TokensKept, Held
<1>9. AtStart' BY <1>a DEF AtStart
<1>10. Signals' BY <1>a, <1>b, <1>d DEF IInv, Signals, Outside
<1>11. Halting'
  <2>1. pkgQueue = <<>> => pkgQueue' = <<>>
    <3> SUFFICES ASSUME pkgQueue = <<>>, pkgQueue' # <<>> PROVE FALSE OBVIOUS
    <3>1. Head(pkgQueue') \in InSeq(pkgQueue') BY <1>h, TailIs
    <3>2. InSeq(<<>>) = {} BY DEF InSeq
    <3> QED BY <3>1, <3>2, <1>h
  <2>2. KeepScheduling' => KeepScheduling BY <2>1, <1>a, <1>h DEF KeepScheduling
  <2> QED BY <2>2, <1>a, <1>b DEF IInv, Halting, Orderly, Outside, ExitIsQuiet
<1>12. Resumable'
  <2>1. Planned \subseteq resume' \cup installed \cup failedAll'
    <3>1. \A d \in resume \ resume' : d \in installed BY <1>i, <1>c DEF IInv, Resumable, m
    <3> QED BY <3>1, <1>h DEF IInv, Resumable
  <2>2. InSeq(pkgQueue') \ Uninstalls \subseteq resume'
    <3>1. \A d \in InSeq(pkgQueue) : st[Merge(d)] = "none" BY <1>0 DEF IInv, Course
    <3>2. p \notin InSeq(pkgQueue) BY <3>1, <1>c DEF Ended, m
    <3> QED BY <3>2, <1>h, <1>i DEF IInv, Resumable
  <2>3. ASSUME NEW x \in resume' \cap installed
        PROVE  /\ st[Merge(x)] = "ok"
               /\ \E e \in {"merge_exit", "wait_exit"} : <<e, Merge(x)>> \in Pending'
    <3>1. /\ st[Merge(x)] = "ok"
          /\ \E e \in {"merge_exit", "wait_exit"} : <<e, Merge(x)>> \in Pending
      BY <1>0, <1>i DEF IInv, Resumable
    <3>2. x \notin Uninstalls BY <1>i DEF IInv, Resumable, Planned
    <3>3. x # p BY <3>1, <3>2, <1>i DEF m
    <3>4. Merge(x) # m BY <3>3, TaskIs DEF m
    <3> QED BY <3>1, <3>4, <1>e
  <2>4. \A x \in completed' \ Uninstalls : x \notin resume'
    BY <1>h, <1>i DEF IInv, Resumable
  <2> QED BY <2>1, <2>2, <2>3, <2>4, <1>a, <1>i DEF IInv, Resumable
<1>13. Tracked'
  <2> SUFFICES ASSUME ~terminatedTasks, NEW x \in resume'
      PROVE  \/ x \in InSeq(pkgQueue') \cup failed'
             \/ \E t \in {Build(x), Merge(x)} :
                  \/ st[t] \in {"wait"} \cup Live
                  \/ \E e \in ExitKinds : <<e, t>> \in Pending'
    BY <1>a DEF Tracked
  <2>1. x \in resume /\ x \notin Uninstalls BY <1>i DEF IInv, Resumable, Planned
  <2>2. CASE x = p
    <3>1. st[m] # "ok" BY <2>1, <2>2, <1>i
    <3> QED BY <3>1, <2>2, <1>c, <1>h DEF Ended
  <2>3. CASE x # p
    <3>1. Build(x) # m /\ Merge(x) # m BY <2>3, TaskIs DEF m
    <3>2. x \in InSeq(pkgQueue) => x \in InSeq(pkgQueue') BY <2>1, <2>3, <1>h
    <3> QED BY <2>1, <3>1, <3>2, <1>e, <1>h DEF IInv, Tracked
  <2> QED BY <2>2, <2>3
<1>14. Ordered'
  <2> SUFFICES ASSUME ~NoDeps PROVE Ordered' BY DEF Ordered
  <2>1. ASSUME NEW i \in 1..Len(pkgQueue'), NEW j \in 1..Len(pkgQueue'), i < j,
               pkgQueue'[j] \in DeepDeps(pkgQueue'[i]) \ Uninstalls
        PROVE  ~ (Position(pkgQueue'[j]) < Position(pkgQueue'[i]))
    <3>1. PICK h : From(pkgQueue', h, pkgQueue, Len(pkgQueue)) BY <1>h
    <3>2. /\ h[i] \in 1..Len(pkgQueue) /\ h[j] \in 1..Len(pkgQueue) /\ h[i] < h[j]
          /\ pkgQueue'[i] = pkgQueue[h[i]] /\ pkgQueue'[j] = pkgQueue[h[j]]
      BY <3>1, <2>1 DEF From
    <3> QED BY <3>2, <2>1 DEF IInv, Ordered
  <2>2. \A x \in Pkgs : st[Build(x)] \in Live =>
          \A d \in DeepDeps(x) \ Uninstalls : Position(d) < Position(x) => d \notin resume'
    BY <1>0, <1>i DEF IInv, Ordered
  <2> QED BY <2>1, <2>2, <1>a DEF Ordered
<1>15. Apart' BY <1>a DEF IInv, Apart
<1>16. Reports' BY <1>a DEF IInv, Reports
<1> QED BY <1>1, <1>2, <1>3, <1>4, <1>5, <1>7, <1>8, <1>9, <1>10, <1>11, <1>12, <1>13,
           <1>14, <1>15, <1>16 DEF IInv

-----------------------------------------------------------------------------
(* The package that is chosen                                              *)

\* _choose_pkg takes a package of the queue, whose dependencies that come first
\* in the merge list have been merged.
LEMMA ChosenIs ==
  ASSUME IInv, CanStart
  PROVE  /\ Chosen \in 1..Len(pkgQueue)
         /\ \/ pkgQueue[Chosen] \in Uninstalls
            \/ NoDeps
            \/ \A d \in DeepDeps(pkgQueue[Chosen]) \ Uninstalls :
                 Position(d) < Position(pkgQueue[Chosen]) => d \notin resume
<1> DEFINE all == 1..Len(pkgQueue)
           unins == {i \in all : pkgQueue[i] \in Uninstalls /\ Deps[pkgQueue[i]] = {}}
           indep == {i \in all : ~Dependent(pkgQueue[i],
                                {pkgQueue[j] : j \in (i + 1)..Len(pkgQueue)})}
<1>1. /\ pkgQueue \in Seq(Pkgs) /\ pkgQueue # <<>> /\ Chosen # 0 /\ phase = "imp"
      /\ failed = {} /\ ~terminated
  BY DEF CanStart, MayChoose, KeepScheduling, IInv, TypeOK
<1>2. 1 \in all /\ Len(pkgQueue) \in Nat /\ Len(pkgQueue) >= 1 BY <1>1
<1>3. InLife /\ ~terminatedTasks /\ Orderly BY <1>1 DEF InLife, IInv, Signals, Orderly
<1>4. \A i, j \in all : i < j /\ pkgQueue[j] \in DeepDeps(pkgQueue[i]) \ Uninstalls /\ ~NoDeps
        => ~ (Position(pkgQueue[j]) < Position(pkgQueue[i]))
  BY DEF IInv, Ordered
<1>5. CASE Chosen = 1 /\ running = {}
  <2> SUFFICES ASSUME ~NoDeps, NEW d \in DeepDeps(pkgQueue[1]) \ Uninstalls,
                      Position(d) < Position(pkgQueue[1]), d \in resume
               PROVE  FALSE
    BY <1>2, <1>5
  <2>1. d # pkgQueue[1] /\ d \in Pkgs BY DEF DeepDeps
  <2>2. ASSUME NEW t \in {Build(d), Merge(d)}
        PROVE  /\ st[t] \notin {"wait"} \cup Live
               /\ \A k \in ExitKinds : <<k, t>> \notin Pending
    <3>1. t \in Tasks /\ t[1] # "setup" BY <2>1, TaskIs
    <3>2. st[t] \notin {"wait"} \cup Live BY <3>1, <1>3, <1>5 DEF IInv, Covered
    <3>3. \A k \in ExitKinds \ {"setup_exit"} : <<k, t>> \notin Pending
      BY <3>1, <1>3, <1>5 DEF IInv, Covered
    <3>4. <<"setup_exit", t>> \notin Pending
      <4>1. "setup_exit" \in ExitKinds BY DEF ExitKinds
      <4> QED BY <4>1, <3>1, <1>3, ExitOf
    <3> QED BY <3>2, <3>3, <3>4
  <2>3. d \in InSeq(pkgQueue) BY <2>2, <1>1, <1>3 DEF IInv, Tracked
  <2>4. PICK j \in all : pkgQueue[j] = d BY <2>3 DEF InSeq
  <2>5. 1 < j BY <2>1, <2>4, <1>2
  <2> QED BY <2>4, <2>5, <1>2, <1>4
<1>6. CASE Chosen = 1 /\ NoDeps BY <1>2, <1>6
<1>7. CASE Chosen = FirstIndex(unins) /\ unins # {}
  <2>1. unins \subseteq Nat BY <1>2
  <2>2. Chosen \in unins BY <2>1, <1>7, FirstIndexIs
  <2> QED BY <2>2
<1>8. CASE Chosen = FirstIndex(indep)
  <2>0. indep # {} BY <1>1, <1>8 DEF FirstIndex
  <2>1. indep \subseteq Nat BY <1>2
  <2>2. Chosen \in indep BY <2>0, <2>1, <1>8, FirstIndexIs
  <2> DEFINE i == Chosen
             later == {pkgQueue[j] : j \in (i + 1)..Len(pkgQueue)}
  <2>3. i \in all /\ ~Dependent(pkgQueue[i], later) BY <2>2
  <2> SUFFICES ASSUME ~NoDeps, NEW d \in DeepDeps(pkgQueue[i]) \ Uninstalls,
                      Position(d) < Position(pkgQueue[i]), d \in resume
               PROVE  FALSE
    BY <2>3
  <2> HIDE DEF i, indep, unins
  <2>4. d \in completed \cup later BY <2>3 DEF Dependent
  <2>5. d \notin completed BY DEF IInv, Resumable
  <2>6. PICK j \in (i + 1)..Len(pkgQueue) : d = pkgQueue[j] BY <2>4, <2>5
  <2>7. j \in all /\ i < j BY <2>3, <2>6, <1>2
  <2> QED BY <2>3, <2>6, <2>7, <1>4
<1>9. \/ Chosen = 1 /\ running = {}
      \/ Chosen = 1 /\ NoDeps
      \/ Chosen = FirstIndex(unins) /\ unins # {}
      \/ Chosen = FirstIndex(indep)
  <2>1. CASE ~HasGraph BY <2>1, <1>1 DEF Chosen
  <2>2. CASE HasGraph /\ running = {} BY <2>2 DEF Chosen
  <2>3. CASE HasGraph /\ running # {} /\ unins # {}
    <3>1. Chosen = FirstIndex(unins) BY <2>3 DEF Chosen
    <3> QED BY <3>1, <2>3
  <2>4. CASE HasGraph /\ running # {} /\ unins = {} BY <2>4 DEF Chosen
  <2> QED BY <2>1, <2>2, <2>3, <2>4
<1> QED BY <1>5, <1>6, <1>7, <1>8, <1>9

\* The elements of a concatenation.
LEMMA ConcatAt ==
  ASSUME NEW U, NEW s \in Seq(U), NEW r \in Seq(U)
  PROVE  /\ Len(s \o r) = Len(s) + Len(r) /\ Len(s) \in Nat /\ Len(r) \in Nat
         /\ \A i \in 1..Len(s) : (s \o r)[i] = s[i]
         /\ \A i \in 1..Len(r) : (s \o r)[Len(s) + i] = r[i]
OBVIOUS

\* No token: the package goes to the front of the queue.
LEMMA NoTokenStep == ASSUME IInv, NoToken PROVE IInv'
<1> USE DEF jobVars, waitVars, taskVars, termVars, diskVars
<1> DEFINE p == pkgQueue[Chosen]
           w == WithoutAt(pkgQueue, Chosen)
<1>0. /\ pkgQueue' = <<p>> \o w /\ reader' = "on" /\ phase' = "tail" /\ phase = "imp" /\ InLife
      /\ KeepScheduling /\ CanStart /\ p \notin Uninstalls /\ server = "up"
      /\ UNCHANGED <<completed, failed, unsatisfied, returnEarly, jobVars, waitVars,
                 taskVars, ready, changed, wakeup, mainExit, termVars, server,
                 implicit, pool, token, diskVars>>
  BY DEF NoToken, CanStart, MayChoose, InLife
<1>1. Chosen \in 1..Len(pkgQueue) /\ pkgQueue \in Seq(Pkgs) /\ TypeOK
  BY <1>0, ChosenIs DEF IInv, TypeOK
<1>2. p \in Pkgs BY <1>1
<1>3. /\ w \in Seq(Pkgs) /\ InSeq(pkgQueue) = InSeq(w) \cup {p}
      /\ Alone(pkgQueue) => Alone(w) /\ p \notin InSeq(w)
      /\ Len(w) = Len(pkgQueue) - 1
      /\ \A j \in 1..Len(w) : w[j] = pkgQueue[IF j < Chosen THEN j ELSE j + 1]
  <2>1. /\ w \in Seq(Pkgs) /\ InSeq(pkgQueue) = InSeq(w) \cup {p}
        /\ Alone(pkgQueue) => Alone(w) /\ p \notin InSeq(w)
        /\ Len(w) = Len(pkgQueue) - 1
    BY <1>1, WithoutIs
  <2>2. \A j \in 1..(Len(pkgQueue) - 1) : w[j] = pkgQueue[IF j < Chosen THEN j ELSE j + 1]
    BY DEF WithoutAt
  <2> QED BY <2>1, <2>2
<1> HIDE DEF p, w
<1>4. /\ pkgQueue' \in Seq(Pkgs) /\ InSeq(pkgQueue') = InSeq(pkgQueue)
      /\ Alone(pkgQueue) => Alone(pkgQueue')
  BY <1>0, <1>2, <1>3, FrontIs
<1>5. /\ Len(pkgQueue') = Len(w) + 1 /\ Len(w) \in Nat /\ pkgQueue'[1] = p
      /\ \A j \in 2..Len(pkgQueue') : j - 1 \in 1..Len(w) /\ pkgQueue'[j] = w[j - 1]
  <2> DEFINE f == <<p>>
  <2>1. f \in Seq(Pkgs) /\ Len(f) = 1 /\ f[1] = p BY <1>2
  <2> HIDE DEF f
  <2>2. /\ Len(f \o w) = 1 + Len(w) /\ Len(w) \in Nat /\ (f \o w)[1] = p
        /\ \A j \in 1..Len(w) : (f \o w)[1 + j] = w[j]
    <3>0. f \in Seq(Pkgs) /\ w \in Seq(Pkgs) BY <2>1, <1>3
    <3>1. /\ Len(f \o w) = Len(f) + Len(w) /\ Len(w) \in Nat
          /\ \A j \in 1..Len(f) : (f \o w)[j] = f[j]
          /\ \A j \in 1..Len(w) : (f \o w)[Len(f) + j] = w[j]
      BY <3>0, ConcatAt
    <3> QED BY <2>1, <3>1
  <2>3. \A j \in 2..Len(f \o w) : j - 1 \in 1..Len(w) /\ j = 1 + (j - 1) BY <2>2
  <2>4. \A j \in 2..Len(f \o w) : (f \o w)[j] = w[j - 1] BY <2>2, <2>3
  <2> QED BY <2>1, <2>2, <2>3, <2>4, <1>0 DEF f
<1>6. TypeOK' BY <1>0, <1>1, <1>4 DEF TypeOK
<1>7. Shapes' /\ Once' BY <1>0 DEF IInv, Shapes, Once, Pending
<1>8. LifeOK' BY <1>0 DEF IInv, LifeOK, InLife, Pending
<1>9. Course' BY <1>0, <1>4 DEF IInv, Course, Pending
<1>10. Covered' BY <1>0 DEF IInv, Covered, InLife, Pending, Orderly
<1>11. JobAccounting' BY <1>0 DEF IInv, JobAccounting, UnderWay
<1>12. TokensKept' BY <1>0 DEF IInv, TokensKept, UnderWay, Held
<1>13. AtStart' BY <1>0 DEF AtStart
<1>14. Signals' BY <1>0 DEF IInv, Signals, Pending, Outside
<1>15. Halting' BY <1>0 DEF IInv, Halting, Orderly, Outside, ExitIsQuiet, Pending
<1>16. Resumable' BY <1>0, <1>4 DEF IInv, Resumable, Pending, InLife
<1>17. Tracked' BY <1>0, <1>4 DEF IInv, Tracked, Pending
<1>18. Ordered'
  <2> SUFFICES ASSUME ~NoDeps PROVE Ordered' BY DEF Ordered
  <2>1. ASSUME NEW i \in 1..Len(pkgQueue'), NEW j \in 1..Len(pkgQueue'), i < j,
               pkgQueue'[j] \in DeepDeps(pkgQueue'[i]) \ Uninstalls
        PROVE  ~ (Position(pkgQueue'[j]) < Position(pkgQueue'[i]))
    <3>1. CASE i = 1
      <4>1. pkgQueue'[j] \in InSeq(pkgQueue) BY <1>4 DEF InSeq
      <4>2. pkgQueue'[j] \in resume BY <4>1, <2>1 DEF IInv, Resumable
      <4>3. \A d \in DeepDeps(p) \ Uninstalls : Position(d) < Position(p) => d \notin resume
        BY <1>0, ChosenIs DEF p
      <4> QED BY <4>2, <4>3, <2>1, <3>1, <1>5
    <3>2. CASE i # 1
      <4> DEFINE at(n) == IF n - 1 < Chosen THEN n - 1 ELSE (n - 1) + 1
      <4>1. /\ i - 1 \in 1..Len(w) /\ pkgQueue'[i] = w[i - 1]
            /\ j - 1 \in 1..Len(w) /\ pkgQueue'[j] = w[j - 1]
        <5>1. i \in 2..Len(pkgQueue') /\ j \in 2..Len(pkgQueue') BY <1>5, <2>1, <3>2
        <5> QED BY <5>1, <1>5
      <4>2. pkgQueue'[i] = pkgQueue[at(i)] /\ pkgQueue'[j] = pkgQueue[at(j)]
        BY <4>1, <1>3
      <4>3. at(i) \in 1..Len(pkgQueue) /\ at(j) \in 1..Len(pkgQueue) /\ at(i) < at(j)
        BY <4>1, <1>1, <1>3, <2>1
      <4> HIDE DEF at
      <4> QED BY <4>2, <4>3, <2>1 DEF IInv, Ordered
    <3> QED BY <3>1, <3>2
  <2>2. \A x \in Pkgs : st[Build(x)] \in Live =>
          \A d \in DeepDeps(x) \ Uninstalls : Position(d) < Position(x) => d \notin resume
    BY <1>0 DEF IInv, Ordered
  <2> QED BY <2>1, <2>2, <1>0 DEF Ordered
<1>19. Apart' BY <1>0 DEF IInv, Apart
<1>20. Reports' BY <1>0 DEF IInv, Reports
<1> QED BY <1>6, <1>7, <1>8, <1>9, <1>10, <1>11, <1>12, <1>13, <1>14, <1>15, <1>16, <1>17,
           <1>18, <1>19, <1>20 DEF IInv

-----------------------------------------------------------------------------
(* Tasks end and start                                                     *)

\* A task ends.
LEMMA EndTaskStep ==
  ASSUME IInv, NEW t \in Tasks, NEW result \in {"ok", "fail"}, EndTask(t, result)
  PROVE  IInv'
<1> USE DEF planVars, jobVars, waitVars, termVars, tokenVars
<1>0. /\ Up /\ st[t] = "run"
      /\ st' = [st EXCEPT ![t] = result] /\ ready' = ready \o Notify(t)
      /\ listeners' = [listeners EXCEPT ![t] = <<>>]
      /\ installed' = IF t[1] = "merge" /\ result = "ok"
                      THEN installed \cup {t[2]} ELSE installed
      /\ t[1] = "build" => st[Setup(t[2])] \notin Live
      /\ UNCHANGED <<planVars, jobVars, waitVars, queue, active, phase, changed,
                     wakeup, mainExit, termVars, tokenVars, resume, failedAll>>
  BY DEF EndTask, Alive, Live
<1>1. InLife /\ ~Outside /\ phase # "start" /\ TypeOK BY <1>0 DEF InLife, Outside, Up, IInv
<1>2. Life(st, listeners, queue, active, Pending) BY <1>1 DEF IInv, LifeOK
<1>3. PICK k \in ExitKinds :
        /\ Own(k, t) /\ k \in InSeq(listeners[t])
        /\ \A e \in ExitKinds : e \in InSeq(listeners[t]) => e = k
        /\ Notify(t) \in Seq(Callbacks) /\ Single(Notify(t))
        /\ InSeq(Notify(t)) = {<<"queue_exit", t>>, <<k, t>>}
        /\ <<k, t>> \notin Pending /\ <<"queue_exit", t>> \notin Pending
        /\ Life(st', listeners', queue', active', Pending \cup InSeq(Notify(t)))
  BY <1>0, <1>1, <1>2, LifeEnd DEF Ended
<1>4. /\ ready' \in Seq(Callbacks) /\ Single(ready')
      /\ Pending' = Pending \cup {<<"queue_exit", t>>, <<k, t>>}
  <2>1. ready \in Seq(Callbacks) /\ Single(ready) BY DEF IInv, TypeOK, Once
  <2>2. \A c \in InSeq(Notify(t)) : c \notin InSeq(ready) BY <1>3 DEF Pending
  <2>3. ready' \in Seq(Callbacks) /\ InSeq(ready') = InSeq(ready) \cup InSeq(Notify(t))
    BY <2>1, <1>0, <1>3, ConcatIs
  <2>4. Single(ready') BY <2>1, <2>2, <1>0, <1>3, SingleConcat
  <2> QED BY <2>3, <2>4, <1>3 DEF Pending
<1>5. st \in [Tasks -> TaskStates] /\ listeners \in [Tasks -> Seq(Kinds)]
  BY <1>1 DEF TypeOK, TaskStates
<1>6. /\ st'[t] = result /\ \A x \in Tasks \ {t} : st'[x] = st[x]
      /\ listeners'[t] = <<>> /\ \A x \in Tasks \ {t} : listeners'[x] = listeners[x]
      /\ st' \in [Tasks -> TaskStates] /\ listeners' \in [Tasks -> Seq(Kinds)]
  <2>1. <<>> \in Seq(Kinds) OBVIOUS
  <2>2. result \in TaskStates BY DEF TaskStates
  <2> QED BY <2>1, <2>2, <1>0, <1>5
<1>7. \A x, e : x # t => (<<e, x>> \in Pending' <=> <<e, x>> \in Pending)
  BY <1>4
<1>8. k \notin {"queue_exit", "term", "stop", "merge_started"} /\ k \in Kinds
  BY DEF ExitKinds, Kinds
<1>9. TermCallback \notin {<<"queue_exit", t>>, <<k, t>>} /\ Stopping \notin {<<"queue_exit", t>>, <<k, t>>}
  BY Others
<1>10. \A x \in Tasks : st'[x] \in Live => st[x] \in Live BY <1>6 DEF Live
<1> HIDE DEF Pending
<1>11. TypeOK'
  <2>1. installed' \subseteq Pkgs BY <1>0, <1>1, TaskIs DEF TypeOK
  <2> QED BY <2>1, <1>0, <1>1, <1>4, <1>6 DEF TypeOK, TaskStates
<1>12. Shapes' /\ Once'
  <2>1. \A e : <<e, t>>[1] = e /\ <<e, t>>[2] = t OBVIOUS
  <2> QED BY <2>1, <1>4, <1>8 DEF IInv, Shapes, Once
<1>13. LifeOK' BY <1>3, <1>4 DEF LifeOK
<1>14. Course'
  <2>1. \A p \in InSeq(pkgQueue) : Build(p) # t /\ Merge(p) # t
    BY <1>0, <1>1 DEF IInv, Course
  <2>2. \A p \in InSeq(pkgQueue) : p \in Pkgs BY <1>1 DEF TypeOK, InSeq
  <2>3. \A p \in InSeq(pkgQueue) : st'[Build(p)] = "none" /\ st'[Merge(p)] = "none"
    BY <2>1, <2>2, <1>1, <1>6, TaskIs DEF IInv, Course
  <2>4. ASSUME NEW p \in Pkgs
        PROVE  /\ p \in InSeq(waitQueue) <=> st'[Merge(p)] = "wait"
               /\ st'[Merge(p)] # "none" => p \in Uninstalls \/ st'[Build(p)] = "ok"
               /\ <<"build_exit", Build(p)>> \in Pending' => st'[Merge(p)] = "none"
               /\ p \in Uninstalls => st'[Build(p)] = "none"
               /\ st'[Setup(p)] \in Live => st'[Build(p)] = "run"
    <3>0. /\ p \in InSeq(waitQueue) <=> st[Merge(p)] = "wait"
          /\ st[Merge(p)] # "none" => p \in Uninstalls \/ st[Build(p)] = "ok"
          /\ <<"build_exit", Build(p)>> \in Pending => st[Merge(p)] = "none"
          /\ p \in Uninstalls => st[Build(p)] = "none"
          /\ st[Setup(p)] \in Live => st[Build(p)] = "run"
      BY <1>1 DEF IInv, Course
    <3>1. /\ Build(p) \in Tasks /\ Merge(p) \in Tasks /\ Setup(p) \in Tasks
          /\ Build(p) # Merge(p) /\ Build(p) # Setup(p) /\ Merge(p) # Setup(p)
      BY TaskIs
    <3>2. CASE t = Build(p)
      <4>1. st[Merge(p)] = "none" BY <3>0, <3>2, <1>0
      <4>2. st'[Merge(p)] = "none" /\ st'[Setup(p)] = st[Setup(p)] BY <4>1, <3>1, <3>2, <1>6
      <4>3. st[Setup(p)] \notin Live BY <3>2, <1>0, TaskIs
      <4>4. p \notin Uninstalls BY <3>0, <3>2, <1>0
      <4> QED BY <3>0, <4>1, <4>2, <4>3, <4>4
    <3>3. CASE t = Merge(p)
      <4>1. st'[Build(p)] = st[Build(p)] /\ st'[Setup(p)] = st[Setup(p)]
            /\ st'[Merge(p)] \notin {"wait", "none"}
        BY <3>1, <3>3, <1>6
      <4>2. <<"build_exit", Build(p)>> \notin Pending' BY <3>0, <3>1, <3>3, <1>0, <1>7
      <4> QED BY <3>0, <3>3, <4>1, <4>2, <1>0
    <3>4. CASE t # Build(p) /\ t # Merge(p)
      <4>1. st'[Build(p)] = st[Build(p)] /\ st'[Merge(p)] = st[Merge(p)] BY <3>1, <3>4, <1>6
      <4>2. <<"build_exit", Build(p)>> \in Pending' <=> <<"build_exit", Build(p)>> \in Pending
        BY <3>4, <1>7
      <4>3. st'[Setup(p)] \in Live => st[Setup(p)] \in Live BY <3>1, <1>10
      <4> QED BY <3>0, <4>1, <4>2, <4>3
    <3> QED BY <3>2, <3>3, <3>4
  <2> QED BY <2>3, <2>4, <1>0, <1>1 DEF IInv, Course
<1>15. Covered'
  <2>1. ASSUME Orderly, NEW x \in Tasks, x[1] # "setup", st'[x] \in {"wait"} \cup Live
        PROVE  x \in running
    <3>1. x # t BY <2>1, <1>6 DEF Live
    <3> QED BY <3>1, <2>1, <1>1, <1>6 DEF IInv, Covered
  <2>2. ASSUME ~terminatedTasks, NEW e \in ExitKinds \ {"setup_exit"}, NEW x \in Tasks,
               <<e, x>> \in Pending'
        PROVE  x \in running
    <3>1. CASE <<e, x>> \in Pending BY <2>2, <3>1 DEF IInv, Covered
    <3>2. CASE <<e, x>> \notin Pending
      <4>1. x = t /\ e = k BY <2>2, <3>2, <1>4 DEF ExitKinds
      <4>2. t[1] # "setup" BY <2>2, <4>1, <1>3 DEF Own
      <4>3. Orderly /\ st[t] \in Live BY <2>2, <1>0 DEF Orderly, Live
      <4> QED BY <4>1, <4>2, <4>3, <1>1 DEF IInv, Covered
    <3> QED BY <3>1, <3>2
  <2>3. ASSUME NEW p \in waitScheduled
        PROVE  \/ "wait_exit" \in InSeq(listeners'[Merge(p)])
               \/ <<"wait_exit", Merge(p)>> \in Pending'
    <3>0. Merge(p) \in Tasks /\ "wait_exit" \in ExitKinds BY <1>1, TaskIs DEF TypeOK, ExitKinds
    <3>1. CASE <<"wait_exit", Merge(p)>> \in Pending BY <3>1, <1>4
    <3>2. CASE "wait_exit" \in InSeq(listeners[Merge(p)]) /\ Merge(p) = t
      BY <3>0, <3>2, <1>3, <1>4
    <3>3. CASE "wait_exit" \in InSeq(listeners[Merge(p)]) /\ Merge(p) # t
      BY <3>0, <3>3, <1>6
    <3> QED BY <3>1, <3>2, <3>3 DEF IInv, Covered
  <2>4. NeverWaits => /\ waitQueue' = <<>> /\ waitScheduled' = {}
                      /\ \A x \in Tasks : st'[x] # "wait"
    BY <1>0, <1>6 DEF IInv, Covered
  <2> QED BY <2>1, <2>2, <2>3, <2>4, <1>0 DEF Covered, Orderly
<1>16. UnderWay' = UnderWay
  <2> SUFFICES ASSUME NEW p \in Pkgs
      PROVE  (listeners'[Build(p)] # <<>> \/ <<"build_exit", Build(p)>> \in Pending')
               <=> (listeners[Build(p)] # <<>> \/ <<"build_exit", Build(p)>> \in Pending)
    BY DEF UnderWay, Pending
  <2>1. Build(p) \in Tasks BY TaskIs
  <2>2. CASE Build(p) = t
    <3>1. k = "build_exit" BY <2>2, <1>3, TaskIs DEF Own
    <3>2. listeners[t] # <<>> BY <1>0, <1>2, <1>5, UnderWayIs DEF Live
    <3> QED BY <2>2, <3>1, <3>2, <1>4
  <2>3. CASE Build(p) # t BY <2>1, <2>3, <1>6, <1>7
  <2> QED BY <2>2, <2>3
<1>17. JobAccounting' BY <1>0, <1>16 DEF IInv, JobAccounting
<1>18. TokensKept' BY <1>0, <1>16 DEF IInv, TokensKept, Held
<1>19. AtStart' BY <1>0, <1>1 DEF AtStart
<1>20. Signals' BY <1>0, <1>1, <1>4, <1>9 DEF IInv, Signals, Outside
<1>21. Halting'
  <2>1. ~ (mainExit /\ Orderly) BY <1>0, <1>1, Still DEF Live
  <2>2. Orderly => StopLast(ready')
    <3> SUFFICES ASSUME Orderly PROVE StopLast(ready') OBVIOUS
    <3>1. Stopping \notin Pending BY <2>1 DEF IInv, Signals
    <3>2. Stopping \notin InSeq(ready') BY <3>1, <1>4, <1>9 DEF Pending
    <3> QED BY <3>2, NoStop
  <2> QED BY <2>1, <2>2, <1>0, <1>1 DEF Halting, Orderly, Outside, ExitIsQuiet
<1>22. Resumable'
  <2>1. ASSUME NEW p \in Pkgs, st'[Merge(p)] = "ok" PROVE p \in installed'
    <3>1. CASE Merge(p) = t BY <2>1, <3>1, <1>0, <1>6, TaskIs
    <3>2. CASE Merge(p) # t
      <4>1. st[Merge(p)] = "ok" BY <2>1, <3>2, <1>6, TaskIs
      <4> QED BY <4>1, <1>0 DEF IInv, Resumable
    <3> QED BY <3>1, <3>2
  <2>2. ASSUME NEW p \in resume \cap installed'
        PROVE  /\ st'[Merge(p)] = "ok"
               /\ \E e \in {"merge_exit", "wait_exit"} : <<e, Merge(p)>> \in Pending'
    <3>0. p \in Pkgs /\ Merge(p) \in Tasks BY <1>1, TaskIs DEF TypeOK
    <3>1. CASE t[1] = "merge" /\ result = "ok" /\ p = t[2]
      <4>1. t = Merge(p) BY <3>1, TaskIs
      <4>2. k \in {"merge_exit", "wait_exit"} BY <4>1, <1>3, TaskIs DEF Own
      <4> QED BY <4>1, <4>2, <3>1, <1>4, <1>6
    <3>2. CASE ~ (t[1] = "merge" /\ result = "ok" /\ p = t[2])
      <4>1. p \in installed BY <3>2, <1>0
      <4>2. st[Merge(p)] = "ok" BY <4>1, <1>1 DEF IInv, Resumable
      <4>3. Merge(p) # t BY <4>2, <1>0
      <4> QED BY <4>1, <4>2, <4>3, <3>0, <1>4, <1>6 DEF IInv, Resumable
    <3> QED BY <3>1, <3>2
  <2>3. installed \subseteq installed' BY <1>0
  <2> QED BY <2>1, <2>2, <2>3, <1>0 DEF IInv, Resumable
<1>23. Tracked'
  <2> SUFFICES ASSUME ~terminatedTasks, NEW p \in resume
      PROVE  \/ p \in InSeq(pkgQueue) \cup failed
             \/ \E x \in {Build(p), Merge(p)} :
                  \/ st'[x] \in {"wait"} \cup Live
                  \/ \E e \in ExitKinds : <<e, x>> \in Pending'
    BY <1>0 DEF Tracked
  <2>1. CASE p \in InSeq(pkgQueue) \cup failed BY <2>1
  <2>2. ASSUME NEW x \in {Build(p), Merge(p)},
               st[x] \in {"wait"} \cup Live \/ \E e \in ExitKinds : <<e, x>> \in Pending
        PROVE  st'[x] \in {"wait"} \cup Live \/ \E e \in ExitKinds : <<e, x>> \in Pending'
    <3>0. x \in Tasks BY <1>1, TaskIs DEF TypeOK
    <3>1. CASE x = t BY <3>1, <1>4
    <3>2. CASE x # t BY <3>0, <3>2, <2>2, <1>4, <1>6
    <3> QED BY <3>1, <3>2
  <2>3. phase \notin {"start", "done", "raised"} BY <1>1 DEF InLife
  <2> QED BY <2>1, <2>2, <2>3 DEF IInv, Tracked
<1>24. Ordered'
  <2>1. \A p \in Pkgs : st'[Build(p)] \in Live => st[Build(p)] \in Live BY <1>10, TaskIs
  <2> QED BY <2>1, <1>0, <1>1 DEF IInv, Ordered
<1>25. Apart'
  <2>1. \A p \in Pkgs : st'[Merge(p)] \in Live => st[Merge(p)] \in Live BY <1>10, TaskIs
  <2>2. waitScheduled \subseteq Pkgs BY <1>1 DEF TypeOK
  <2> QED BY <2>1, <2>2, <1>0 DEF IInv, Apart
<1>26. Reports' BY <1>0 DEF IInv, Reports
<1> QED BY <1>11, <1>12, <1>13, <1>14, <1>15, <1>17, <1>18, <1>19, <1>20, <1>21, <1>22,
           <1>23, <1>24, <1>25, <1>26 DEF IInv

\* The tasks outside T start at most: for the rest they stay where they are.
LEMMA OthersMove ==
  ASSUME NEW T,
         \A x \in Tasks \ T : st'[x] = st[x] \/ (st[x] = "queued" /\ st'[x] = "run")
  PROVE  \A x \in Tasks \ T :
           /\ st'[x] \in Live <=> st[x] \in Live
           /\ \A v \in {"none", "wait", "ok", "fail"} : st'[x] = v <=> st[x] = v
           /\ st[x] = "run" => st'[x] = "run"
BY DEF Live

\* The callbacks after tasks have been started.
LEMMA PumpedReady ==
  ASSUME NEW rd \in Seq(Callbacks), Single(rd), NEW ms \in Seq(Callbacks), NEW r, r = rd \o ms,
         \A c \in InSeq(ms) : c[1] = "merge_started" /\ c[2] \in Tasks,
         \A c \in InSeq(rd) :
            \/ c[1] \in {"term", "stop"} /\ c[2] = <<>>
            \/ c[1] \notin {"term", "stop"} /\ c[2] \in Tasks
  PROVE  /\ r \in Seq(Callbacks) /\ Single(r) /\ InSeq(r) = InSeq(rd) \cup InSeq(ms)
         /\ \A e, x : e # "merge_started" => (<<e, x>> \in InSeq(r) <=> <<e, x>> \in InSeq(rd))
         /\ TermCallback \in InSeq(r) <=> TermCallback \in InSeq(rd)
         /\ Stopping \in InSeq(r) <=> Stopping \in InSeq(rd)
         /\ \A c \in InSeq(r) :
              \/ c[1] \in {"term", "stop"} /\ c[2] = <<>>
              \/ c[1] \notin {"term", "stop"} /\ c[2] \in Tasks
<1>1. r \in Seq(Callbacks) /\ InSeq(r) = InSeq(rd) \cup InSeq(ms) BY ConcatIs
<1>2. Single(r) BY SinglePumped
<1>3. ASSUME NEW e, NEW x, e # "merge_started"
      PROVE  <<e, x>> \in InSeq(r) <=> <<e, x>> \in InSeq(rd)
  <2>1. <<e, x>>[1] = e OBVIOUS
  <2>2. <<e, x>> \notin InSeq(ms) BY <2>1, <1>3
  <2> QED BY <2>2, <1>1
<1>4. \A c \in InSeq(r) :
         \/ c[1] \in {"term", "stop"} /\ c[2] = <<>>
         \/ c[1] \notin {"term", "stop"} /\ c[2] \in Tasks
  BY <1>1
<1> QED BY <1>1, <1>2, <1>3, <1>4 DEF TermCallback, Stopping

\* A build queues its setup phase.
LEMMA ScheduleSetupStep == ASSUME IInv, NEW p \in Pkgs, ScheduleSetup(p) PROVE IInv'
<1> USE DEF planVars, jobVars, waitVars, termVars, tokenVars, diskVars
<1> DEFINE t == Setup(p)
           q == SetupQueue
           ls == [listeners EXCEPT ![t] = <<"setup_exit">>]
           dq == Append(queue[q], t)
<1>0. /\ phase = "loop" /\ phase' = "wait" /\ InLife /\ st[Build(p)] = "run" /\ st[t] = "none"
      /\ Pump(q, dq, active[q], [st EXCEPT ![t] = "queued"], ls, ready, t, <<>>)
      /\ UNCHANGED <<planVars, jobVars, waitVars, changed, wakeup, mainExit,
                     termVars, tokenVars, diskVars>>
      /\ TypeOK
  BY DEF ScheduleSetup, InLoop, Alive, InLife, IInv
<1>1. t \in Tasks /\ QueueOf(t) = q /\ q \in Queues /\ Build(p) \in Tasks /\ Build(p) # t
  BY TaskIs, QueueIs
<1>2. /\ queue[q] \in Seq(Tasks) /\ listeners \in [Tasks -> Seq(Kinds)]
      /\ st \in [Tasks -> TaskStates] /\ ready \in Seq(Callbacks) /\ Single(ready)
  BY <1>0, <1>1 DEF TypeOK, TaskStates, IInv, Once
<1>3. <<"setup_exit">> \in Seq(Kinds) /\ <<>> \in Seq(Kinds) /\ "setup_exit" \in ExitKinds
  <2>1. "setup_exit" \in Kinds BY DEF Kinds
  <2> QED BY <2>1 DEF ExitKinds
<1>4. ls \in [Tasks -> Seq(Kinds)] /\ ls[t] = <<"setup_exit">> /\ \A x \in Tasks \ {t} : ls[x] = listeners[x]
  BY <1>1, <1>2, <1>3
<1>5. dq \in Seq(Tasks) BY <1>1, <1>2
<1> HIDE DEF t, q, ls, dq
<1>6. PICK S, rest, ms :
        Pumped(q, dq, active[q], [st EXCEPT ![t] = "queued"], ls, ready, t, <<>>, S, rest, ms)
  BY <1>0, <1>1, <1>3, <1>4, <1>5, PumpIs
<1>7. Life(st, listeners, queue, active, Pending) BY <1>0 DEF IInv, LifeOK
<1>8. Own("setup_exit", t) BY TaskIs DEF Own, t
<1>9. Life(st', listeners', queue', active', Pending \cup InSeq(ms)) /\ Added(t, "setup_exit")
  <2>1. dq \in {Append(queue[QueueOf(t)], t), <<t>> \o queue[QueueOf(t)]} BY <1>1 DEF dq
  <2>2. st[t] \in {"none", "wait"} BY <1>0
  <2> QED BY <2>1, <2>2, <1>0, <1>1, <1>3, <1>4, <1>6, <1>7, <1>8, LifeAdd
<1>10. /\ ready' = ready \o ms /\ ms \in Seq(Callbacks)
       /\ \A c \in InSeq(ms) : c[1] = "merge_started" /\ c[2] \in Tasks
  BY <1>6 DEF Pumped
<1>11. /\ ready' \in Seq(Callbacks) /\ Single(ready') /\ Pending' = Pending \cup InSeq(ms)
       /\ \A e, x : e # "merge_started" => (<<e, x>> \in Pending' <=> <<e, x>> \in Pending)
       /\ TermCallback \in Pending' <=> TermCallback \in Pending
       /\ Stopping \in Pending' <=> Stopping \in Pending
       /\ Shapes'
  BY <1>2, <1>10, PumpedReady DEF Pending, IInv, Shapes
<1>12. \A e \in ExitKinds \cup {"queue_exit"} : e # "merge_started" BY DEF ExitKinds
<1>13. \A x \in Tasks \ {t} :
           /\ st'[x] \in Live <=> st[x] \in Live
           /\ \A v \in {"none", "wait", "ok", "fail"} : st'[x] = v <=> st[x] = v
           /\ st[x] = "run" => st'[x] = "run"
  BY <1>9, OthersMove DEF Added
<1>14. /\ st' \in [Tasks -> TaskStates] /\ listeners' \in [Tasks -> Seq(Kinds)]
       /\ queue' \in [Queues -> Seq(Tasks)] /\ active' \in [Queues -> SUBSET Tasks]
  BY <1>9 DEF Added
<1>15. \A x \in Pkgs : /\ Build(x) \in Tasks \ {t} /\ Merge(x) \in Tasks \ {t}
                       /\ x # p => Setup(x) \in Tasks \ {t}
  BY TaskIs DEF t
<1> HIDE DEF Pending
<1>21. TypeOK' BY <1>0, <1>11, <1>14 DEF TypeOK, TaskStates
<1>22. Shapes' /\ Once' BY <1>11 DEF Once
<1>23. LifeOK' BY <1>9, <1>11 DEF LifeOK
<1>24. Course'
  <2>1. \A x \in InSeq(pkgQueue) : x \in Pkgs BY <1>0 DEF TypeOK, InSeq
  <2>2. \A x \in Pkgs : <<"build_exit", Build(x)>> \in Pending' <=> <<"build_exit", Build(x)>> \in Pending
    BY <1>11
  <2>3. ASSUME NEW x \in Pkgs, st'[Setup(x)] \in Live PROVE st'[Build(x)] = "run"
    <3>1. CASE x = p BY <3>1, <1>0, <1>13, <1>15
    <3>2. CASE x # p
      <4>1. st[Setup(x)] \in Live BY <2>3, <3>2, <1>13, <1>15
      <4>2. st[Build(x)] = "run" BY <4>1, <1>0 DEF IInv, Course
      <4> QED BY <4>2, <1>13, <1>15
    <3> QED BY <3>1, <3>2
  <2> QED BY <2>1, <2>2, <2>3, <1>0, <1>13, <1>15 DEF IInv, Course
<1>25. Covered'
  <2>1. ASSUME Orderly, NEW x \in Tasks, x[1] # "setup", st'[x] \in {"wait"} \cup Live
        PROVE  x \in running
    <3>1. x # t BY <2>1, TaskIs DEF t
    <3>2. st[x] \in {"wait"} \cup Live BY <3>1, <2>1, <1>13
    <3> QED BY <3>2, <2>1, <1>0 DEF IInv, Covered
  <2>2. ASSUME NEW x \in waitScheduled
        PROVE  \/ "wait_exit" \in InSeq(listeners'[Merge(x)])
               \/ <<"wait_exit", Merge(x)>> \in Pending'
    <3>1. Merge(x) \in Tasks \ {t} /\ "wait_exit" \in ExitKinds
      BY <1>0, <1>15 DEF TypeOK, ExitKinds
    <3>2. "wait_exit" \in InSeq(listeners[Merge(x)]) => "wait_exit" \in InSeq(listeners'[Merge(x)])
      BY <3>1, <1>9 DEF Added
    <3> QED BY <3>1, <3>2, <1>11, <1>12 DEF IInv, Covered
  <2>3. ASSUME NEW x \in Tasks, st'[x] = "wait" PROVE st[x] = "wait"
    <3>1. st'[t] # "wait" BY <1>9 DEF Added, Live
    <3>2. x # t BY <3>1, <2>3
    <3> QED BY <3>2, <2>3, <1>13
  <2> QED BY <2>1, <2>2, <2>3, <1>0, <1>11, <1>12 DEF IInv, Covered, Orderly
<1>26. UnderWay' = UnderWay
  <2>1. ASSUME NEW x \in Pkgs PROVE listeners'[Build(x)] # <<>> <=> listeners[Build(x)] # <<>>
    <3>1. listeners'[Build(x)] # <<>> <=> st'[Build(x)] \in Live
      BY <1>9, <1>14, <1>15, UnderWayIs
    <3>2. listeners[Build(x)] # <<>> <=> st[Build(x)] \in Live
      BY <1>2, <1>7, <1>15, UnderWayIs
    <3> QED BY <3>1, <3>2, <1>13, <1>15
  <2> QED BY <2>1, <1>11 DEF UnderWay, Pending
<1>27. JobAccounting' BY <1>0, <1>26 DEF IInv, JobAccounting
<1>28. TokensKept' BY <1>0, <1>26 DEF IInv, TokensKept, Held
<1>29. AtStart' BY <1>0 DEF AtStart
<1>30. Signals' BY <1>0, <1>11 DEF IInv, Signals, Outside
<1>31. Halting'
  <2>1. ~ (mainExit /\ Orderly) BY <1>0, <1>1, Still DEF Live
  <2>2. Orderly => StopLast(ready')
    <3> SUFFICES ASSUME Orderly PROVE StopLast(ready') OBVIOUS
    <3>1. Stopping \notin Pending BY <2>1 DEF IInv, Signals
    <3> QED BY <3>1, <1>11, NoStop DEF Pending
  <2> QED BY <2>1, <2>2, <1>0 DEF Halting, Orderly, Outside, ExitIsQuiet
<1>32. Resumable'
  <2>1. resume \subseteq Pkgs BY <1>0 DEF TypeOK
  <2> QED BY <2>1, <1>0, <1>11, <1>13, <1>15 DEF IInv, Resumable
<1>33. Tracked'
  <2>1. resume \subseteq Pkgs BY <1>0 DEF TypeOK
  <2>2. ASSUME NEW x \in Pkgs, NEW y \in {Build(x), Merge(x)}
        PROVE  st'[y] \in {"wait"} \cup Live <=> st[y] \in {"wait"} \cup Live
    BY <1>13, <1>15
  <2> QED BY <2>1, <2>2, <1>0, <1>11, <1>12 DEF IInv, Tracked
<1>34. Ordered' BY <1>0, <1>13, <1>15 DEF IInv, Ordered
<1>35. Apart'
  <2>1. waitScheduled \subseteq Pkgs BY <1>0 DEF TypeOK
  <2>2. \A x \in Pkgs : st'[Merge(x)] \in Live <=> st[Merge(x)] \in Live BY <1>13, <1>15
  <2> QED BY <2>1, <2>2, <1>0 DEF IInv, Apart
<1>36. Reports' BY <1>0 DEF IInv, Reports
<1> QED BY <1>21, <1>22, <1>23, <1>24, <1>25, <1>27, <1>28, <1>29, <1>30, <1>31, <1>32,
           <1>33, <1>34, <1>35, <1>36 DEF IInv

\* A task queue learns that a task has ended, and starts the next ones.
LEMMA QueueExitStep ==
  ASSUME IInv, phase = "loop", ready # <<>>, Head(ready)[1] = "queue_exit",
         NEW t, t = Head(ready)[2], QueueExit(t)
  PROVE  IInv'
<1> USE DEF planVars, jobVars, waitVars, termVars, tokenVars, diskVars
<1> DEFINE c == Head(ready)
           rd == Tail(ready)
           q == QueueOf(t)
           dq == queue[q]
<1>0. /\ phase' = "loop" /\ InLife /\ TypeOK
      /\ Pump(q, dq, active[q] \ {t}, st, listeners, rd, t, <<>>)
      /\ UNCHANGED <<planVars, jobVars, waitVars, phase, changed, wakeup,
                     mainExit, termVars, tokenVars, diskVars>>
  BY DEF QueueExit, InLife, IInv
<1>1. /\ rd \in Seq(Callbacks) /\ Single(rd) /\ Pending = {c} \cup InSeq(rd)
      /\ c \notin InSeq(rd)
      /\ StopLast(ready) => StopLast(rd)
      /\ c = <<"queue_exit", t>> /\ t \in Tasks
  BY CallIs
<1>2. q \in Queues /\ dq \in Seq(Tasks) /\ listeners \in [Tasks -> Seq(Kinds)]
      /\ st \in [Tasks -> TaskStates] /\ <<>> \in Seq(Kinds)
  BY <1>0, <1>1, QueueIs DEF TypeOK, TaskStates
<1> HIDE DEF c, rd, q, dq
<1>3. PICK S, rest, ms :
        Pumped(q, dq, active[q] \ {t}, st, listeners, rd, t, <<>>, S, rest, ms)
  BY <1>0, <1>1, <1>2, PumpIs
<1>4. Life(st, listeners, queue, active, Pending) BY <1>0 DEF IInv, LifeOK
<1>5. Life(st', listeners', queue', active', InSeq(rd) \cup InSeq(ms)) /\ Moved
  <2>0. Pending \ {c} = InSeq(rd) /\ c \in Pending BY <1>1
  <2>1. Pending \ {<<"queue_exit", t>>} = InSeq(rd) /\ <<"queue_exit", t>> \in Pending
    BY <2>0, <1>1
  <2>2. Pumped(QueueOf(t), queue[QueueOf(t)], active[QueueOf(t)] \ {t}, st, listeners, rd, t, <<>>,
                S, rest, ms)
    BY <1>3 DEF q, dq
  <2> QED BY <2>1, <2>2, <1>0, <1>1, <1>4, LifeLeave
<1>6. /\ ready' = rd \o ms /\ ms \in Seq(Callbacks) /\ InSeq(dq) = S \cup InSeq(rest)
      /\ \A e \in InSeq(ms) : e[1] = "merge_started" /\ e[2] \in Tasks /\ e[2] \in S
  BY <1>3 DEF Pumped
<1>7. /\ ready' \in Seq(Callbacks) /\ Single(ready') /\ Pending' = InSeq(rd) \cup InSeq(ms)
      /\ \A e, x : e \notin {"merge_started", "queue_exit"} =>
           (<<e, x>> \in Pending' <=> <<e, x>> \in Pending)
      /\ TermCallback \in Pending' => TermCallback \in Pending
      /\ Stopping \in Pending' => Stopping \in Pending
      /\ Shapes'
  <2>1. \A e, x : e # "queue_exit" => (<<e, x>> \in InSeq(rd) <=> <<e, x>> \in Pending)
    BY <1>1
  <2>2. \A e \in InSeq(rd) :
           \/ e[1] \in {"term", "stop"} /\ e[2] = <<>>
           \/ e[1] \notin {"term", "stop"} /\ e[2] \in Tasks
    BY <1>1 DEF IInv, Shapes
  <2>3. /\ ready' \in Seq(Callbacks) /\ Single(ready') /\ Pending' = InSeq(rd) \cup InSeq(ms)
        /\ \A e, x : e # "merge_started" => (<<e, x>> \in Pending' <=> <<e, x>> \in InSeq(rd))
        /\ TermCallback \in Pending' <=> TermCallback \in InSeq(rd)
        /\ Stopping \in Pending' <=> Stopping \in InSeq(rd)
        /\ Shapes'
    <3>0. /\ rd \in Seq(Callbacks) /\ Single(rd) /\ ms \in Seq(Callbacks) /\ ready' = rd \o ms
          /\ \A e \in InSeq(ms) : e[1] = "merge_started" /\ e[2] \in Tasks
      BY <1>1, <1>6
    <3>1. /\ ready' \in Seq(Callbacks) /\ Single(ready') /\ InSeq(ready') = InSeq(rd) \cup InSeq(ms)
          /\ \A e, x : e # "merge_started" => (<<e, x>> \in InSeq(ready') <=> <<e, x>> \in InSeq(rd))
          /\ TermCallback \in InSeq(ready') <=> TermCallback \in InSeq(rd)
          /\ Stopping \in InSeq(ready') <=> Stopping \in InSeq(rd)
          /\ \A e \in InSeq(ready') :
               \/ e[1] \in {"term", "stop"} /\ e[2] = <<>>
               \/ e[1] \notin {"term", "stop"} /\ e[2] \in Tasks
      BY <2>2, <3>0, PumpedReady
    <3> QED BY <3>1 DEF Pending, Shapes
  <2>4. InSeq(rd) \subseteq Pending BY <1>1
  <2> HIDE DEF Pending
  <2> QED BY <2>1, <2>3, <2>4
<1>8. \A e \in ExitKinds : e \notin {"merge_started", "queue_exit"} BY DEF ExitKinds
<1>9. \A x \in Tasks :
           /\ st'[x] \in Live <=> st[x] \in Live
           /\ \A v \in {"none", "wait", "ok", "fail"} : st'[x] = v <=> st[x] = v
           /\ st[x] = "run" => st'[x] = "run"
  <2>1. \A x \in Tasks \ {} : st'[x] = st[x] \/ (st[x] = "queued" /\ st'[x] = "run")
    BY <1>5 DEF Moved
  <2> QED BY <2>1, OthersMove
<1>10. /\ st' \in [Tasks -> TaskStates] /\ listeners' \in [Tasks -> Seq(Kinds)]
       /\ queue' \in [Queues -> Seq(Tasks)] /\ active' \in [Queues -> SUBSET Tasks]
  BY <1>5 DEF Moved
<1>11. \A x \in Pkgs : Build(x) \in Tasks /\ Merge(x) \in Tasks /\ Setup(x) \in Tasks BY TaskIs
<1> HIDE DEF Pending
<1>21. TypeOK' BY <1>0, <1>7, <1>10 DEF TypeOK, TaskStates
<1>22. Shapes' /\ Once' BY <1>7 DEF Once
<1>23. LifeOK' BY <1>5, <1>7 DEF LifeOK
<1>24. Course'
  <2>1. \A x \in InSeq(pkgQueue) : x \in Pkgs BY <1>0 DEF TypeOK, InSeq
  <2>2. \A x \in Pkgs : <<"build_exit", Build(x)>> \in Pending' <=> <<"build_exit", Build(x)>> \in Pending
    BY <1>7
  <2>3. ASSUME NEW x \in Pkgs, st'[Setup(x)] \in Live PROVE st'[Build(x)] = "run"
    <3>1. st[Setup(x)] \in Live BY <2>3, <1>9, <1>11
    <3>2. st[Build(x)] = "run" BY <3>1, <1>0 DEF IInv, Course
    <3> QED BY <3>2, <1>9, <1>11
  <2> QED BY <2>1, <2>2, <2>3, <1>0, <1>9, <1>11 DEF IInv, Course
<1>25. Covered'
  <2>1. ASSUME Orderly, NEW x \in Tasks, x[1] # "setup", st'[x] \in {"wait"} \cup Live
        PROVE  x \in running
    <3>1. st[x] \in {"wait"} \cup Live BY <2>1, <1>9
    <3> QED BY <3>1, <2>1, <1>0 DEF IInv, Covered
  <2>2. ASSUME NEW x \in waitScheduled
        PROVE  \/ "wait_exit" \in InSeq(listeners'[Merge(x)])
               \/ <<"wait_exit", Merge(x)>> \in Pending'
    <3>1. Merge(x) \in Tasks /\ "wait_exit" \in ExitKinds
      BY <1>0, <1>11 DEF TypeOK, ExitKinds
    <3>2. "wait_exit" \in InSeq(listeners[Merge(x)]) => "wait_exit" \in InSeq(listeners'[Merge(x)])
      BY <3>1, <1>5 DEF Moved
    <3> QED BY <3>1, <3>2, <1>7, <1>8 DEF IInv, Covered
  <2>3. \A x \in Tasks : st'[x] = "wait" => st[x] = "wait" BY <1>9
  <2> QED BY <2>1, <2>2, <2>3, <1>0, <1>7, <1>8 DEF IInv, Covered, Orderly
<1>26. UnderWay' = UnderWay
  <2>1. ASSUME NEW x \in Pkgs PROVE listeners'[Build(x)] # <<>> <=> listeners[Build(x)] # <<>>
    <3>1. listeners'[Build(x)] # <<>> <=> st'[Build(x)] \in Live
      BY <1>5, <1>10, <1>11, UnderWayIs
    <3>2. listeners[Build(x)] # <<>> <=> st[Build(x)] \in Live
      BY <1>2, <1>4, <1>11, UnderWayIs
    <3> QED BY <3>1, <3>2, <1>9, <1>11
  <2> QED BY <2>1, <1>7 DEF UnderWay, Pending
<1>27. JobAccounting' BY <1>0, <1>26 DEF IInv, JobAccounting
<1>28. TokensKept' BY <1>0, <1>26 DEF IInv, TokensKept, Held
<1>29. AtStart' BY <1>0 DEF AtStart
<1>30. Signals' BY <1>0, <1>7 DEF IInv, Signals, Outside
<1>31. Halting'
  <2>1. Orderly => StopLast(ready')
    <3> SUFFICES ASSUME Orderly PROVE StopLast(ready') OBVIOUS
    <3>1. CASE Stopping \in Pending
      <4>1. mainExit BY <3>1 DEF IInv, Signals
      <4>2. dq = <<>> BY <4>1, <1>0, <1>2, Still DEF dq
      <4>3. S = {}
        <5>1. InSeq(<<>>) = {} BY DEF InSeq
        <5> QED BY <5>1, <4>2, <1>6
      <4>4. ms = <<>>
        <5> SUFFICES ASSUME ms # <<>> PROVE FALSE OBVIOUS
        <5>1. Head(ms) \in InSeq(ms) BY <1>6, TailIs
        <5> QED BY <5>1, <4>3, <1>6
      <4>5. ready' = rd BY <4>4, <1>1, <1>6
      <4>6. StopLast(ready) BY DEF IInv, Halting
      <4>7. StopLast(rd) BY <4>6, <1>1
      <4> QED BY <4>5, <4>7
    <3>2. CASE Stopping \notin Pending BY <3>2, <1>7, NoStop DEF Pending
    <3> QED BY <3>1, <3>2
  <2> QED BY <2>1, <1>0 DEF IInv, Halting, Orderly, Outside, ExitIsQuiet, KeepScheduling
<1>32. Resumable'
  <2>1. resume \subseteq Pkgs BY <1>0 DEF TypeOK
  <2> QED BY <2>1, <1>0, <1>7, <1>9, <1>11 DEF IInv, Resumable
<1>33. Tracked'
  <2>1. resume \subseteq Pkgs BY <1>0 DEF TypeOK
  <2>2. ASSUME NEW x \in Pkgs, NEW y \in {Build(x), Merge(x)}
        PROVE  st'[y] \in {"wait"} \cup Live <=> st[y] \in {"wait"} \cup Live
    BY <1>9, <1>11
  <2> QED BY <2>1, <2>2, <1>0, <1>7, <1>8 DEF IInv, Tracked
<1>34. Ordered' BY <1>0, <1>9, <1>11 DEF IInv, Ordered
<1>35. Apart'
  <2>1. waitScheduled \subseteq Pkgs BY <1>0 DEF TypeOK
  <2>2. \A x \in Pkgs : st'[Merge(x)] \in Live <=> st[Merge(x)] \in Live BY <1>9, <1>11
  <2> QED BY <2>1, <2>2, <1>0 DEF IInv, Apart
<1>36. Reports' BY <1>0 DEF IInv, Reports
<1> QED BY <1>21, <1>22, <1>23, <1>24, <1>25, <1>27, <1>28, <1>29, <1>30, <1>31, <1>32,
           <1>33, <1>34, <1>35, <1>36 DEF IInv

-----------------------------------------------------------------------------
(* A package is taken from the queue                                       *)

\* What is known of the chosen package and of the queue it leaves.
LEMMA TakenIs ==
  ASSUME IInv, CanStart, NEW p, p = pkgQueue[Chosen], pkgQueue' = WithoutAt(pkgQueue, Chosen)
  PROVE  /\ p \in Pkgs /\ pkgQueue' \in Seq(Pkgs) /\ InSeq(pkgQueue) = InSeq(pkgQueue') \cup {p}
         /\ Alone(pkgQueue') /\ p \notin InSeq(pkgQueue')
         /\ st[Build(p)] = "none" /\ st[Merge(p)] = "none"
         /\ InLife /\ phase = "imp" /\ ~terminated /\ ~terminatedTasks /\ Orderly /\ ~mainExit
         /\ Stopping \notin Pending /\ waitScheduled = {} /\ jobs < MaxJobs
         /\ p \notin Uninstalls => p \in resume
         /\ ~NoDeps => \A i, j \in 1..Len(pkgQueue') :
              /\ i < j
              /\ pkgQueue'[j] \in DeepDeps(pkgQueue'[i]) \ Uninstalls
              => ~ (Position(pkgQueue'[j]) < Position(pkgQueue'[i]))
<1>1. /\ phase = "imp" /\ ~terminated /\ ~terminatedTasks /\ KeepScheduling /\ InLife
      /\ waitScheduled = {} /\ jobs < MaxJobs
  BY DEF CanStart, MayChoose, KeepScheduling, SchedulingBlocked, MayAddJob, InLife
<1>2. Chosen \in 1..Len(pkgQueue) /\ pkgQueue \in Seq(Pkgs) BY ChosenIs DEF IInv, TypeOK
<1>3. Alone(pkgQueue) BY <1>1 DEF IInv, Course
<1>4. /\ pkgQueue' \in Seq(Pkgs) /\ InSeq(pkgQueue) = InSeq(pkgQueue') \cup {p}
      /\ Alone(pkgQueue') /\ p \notin InSeq(pkgQueue')
      /\ Len(pkgQueue') = Len(pkgQueue) - 1
  BY <1>2, <1>3, WithoutIs
<1>5. p \in Pkgs BY <1>2
<1>6. st[Build(p)] = "none" /\ st[Merge(p)] = "none" BY <1>1, <1>4 DEF IInv, Course
<1>7. Orderly BY <1>1 DEF Orderly
<1>8. ~mainExit BY <1>1, <1>7 DEF IInv, Halting
<1>9. Stopping \notin Pending BY <1>8 DEF IInv, Signals
<1>10. p \notin Uninstalls => p \in resume BY <1>4 DEF IInv, Resumable
<1>11. ASSUME ~NoDeps, NEW i \in 1..Len(pkgQueue'), NEW j \in 1..Len(pkgQueue'), i < j,
              pkgQueue'[j] \in DeepDeps(pkgQueue'[i]) \ Uninstalls
       PROVE  ~ (Position(pkgQueue'[j]) < Position(pkgQueue'[i]))
  <2> DEFINE at(n) == IF n < Chosen THEN n ELSE n + 1
  <2>1. \A n \in 1..Len(pkgQueue') : pkgQueue'[n] = pkgQueue[at(n)]
    <3>1. \A n \in 1..(Len(pkgQueue) - 1) : WithoutAt(pkgQueue, Chosen)[n] = pkgQueue[at(n)]
      BY DEF WithoutAt
    <3> QED BY <3>1, <1>4
  <2>2. at(i) \in 1..Len(pkgQueue) /\ at(j) \in 1..Len(pkgQueue) /\ at(i) < at(j)
    BY <1>2, <1>4, <1>11
  <2>3. pkgQueue'[i] = pkgQueue[at(i)] /\ pkgQueue'[j] = pkgQueue[at(j)] BY <2>1
  <2> HIDE DEF at
  <2> QED BY <2>2, <2>3, <1>11 DEF IInv, Ordered
<1> QED BY <1>1, <1>4, <1>5, <1>6, <1>7, <1>8, <1>9, <1>10, <1>11

\* What both ways of starting a package have in common.
Started(p, t, k) ==
  /\ \/ p \in Uninstalls /\ t = Merge(p)
     \/ p \notin Uninstalls /\ t = Build(p)
  /\ running' = running \cup {t} /\ changed' = TRUE
  /\ Added(t, k) /\ Life(st', listeners', queue', active', Pending')
  /\ ready' \in Seq(Callbacks) /\ Single(ready') /\ Shapes'
  /\ \A e \in ExitKinds : \A x \in Tasks : <<e, x>> \in Pending' <=> <<e, x>> \in Pending
  /\ TermCallback \in Pending' => terminated'
  /\ Stopping \in Pending' => Stopping \in Pending
  /\ terminated => terminated'
  /\ terminated' => terminated \/ (Jobserver /\ JobserverMayFail)
  /\ jobs' \in Nat /\ terminated' \in BOOLEAN
  /\ token' \in [Pkgs -> {"none", "empty", "token"}] /\ server' \in {"none", "up", "dead"}
  /\ implicit' \in BOOLEAN /\ pool' \in 0..Tokens /\ reader' \in {"off", "on", "stale"}
  /\ UNCHANGED <<completed, failed, unsatisfied, returnEarly, waitQueue, waitScheduled, flush,
                 flushed, phase, wakeup, mainExit, terminatedTasks, signalled, resume,
                 installed, failedAll>>

\* The invariant after a task has been started for the chosen package.
LEMMA StartIs ==
  ASSUME IInv, CanStart, NEW p, p = pkgQueue[Chosen], pkgQueue' = WithoutAt(pkgQueue, Chosen),
         NEW t, NEW k \in ExitKinds, Started(p, t, k), JobAccounting', TokensKept'
  PROVE  IInv'
<1>a. /\ running' = running \cup {t} /\ changed' = TRUE /\ jobs' \in Nat /\ terminated' \in BOOLEAN
      /\ token' \in [Pkgs -> {"none", "empty", "token"}] /\ server' \in {"none", "up", "dead"}
      /\ implicit' \in BOOLEAN /\ pool' \in 0..Tokens /\ reader' \in {"off", "on", "stale"}
  BY DEF Started
<1>b. UNCHANGED <<completed, failed, unsatisfied, returnEarly, waitQueue, waitScheduled, flush,
                  flushed, phase, wakeup, mainExit, terminatedTasks, signalled, resume,
                  installed, failedAll>>
  BY DEF Started
<1>c. /\ ready' \in Seq(Callbacks) /\ Single(ready') /\ Shapes'
      /\ \A e \in ExitKinds : \A x \in Tasks : <<e, x>> \in Pending' <=> <<e, x>> \in Pending
      /\ Life(st', listeners', queue', active', Pending')
  BY DEF Started
<1>d. /\ TermCallback \in Pending' => terminated'
      /\ Stopping \in Pending' => Stopping \in Pending
      /\ terminated => terminated'
      /\ terminated' => terminated \/ (Jobserver /\ JobserverMayFail)
  BY DEF Started
<1>0. TypeOK BY DEF IInv
<1>1. /\ p \in Pkgs /\ pkgQueue' \in Seq(Pkgs) /\ InSeq(pkgQueue) = InSeq(pkgQueue') \cup {p}
      /\ Alone(pkgQueue') /\ p \notin InSeq(pkgQueue')
      /\ st[Build(p)] = "none" /\ st[Merge(p)] = "none"
      /\ InLife /\ phase = "imp" /\ ~terminated /\ ~terminatedTasks /\ Orderly /\ ~mainExit
      /\ Stopping \notin Pending /\ waitScheduled = {}
  BY TakenIs
<1>2. /\ t \in Tasks /\ st[t] = "none" /\ t[1] # "setup" /\ t \in {Build(p), Merge(p)}
      /\ t = Build(p) => p \notin Uninstalls
      /\ t = Merge(p) => p \in Uninstalls
  BY <1>1, TaskIs DEF Started
<1>3. /\ st' \in [Tasks -> TaskStates] /\ listeners' \in [Tasks -> Seq(Kinds)]
      /\ queue' \in [Queues -> Seq(Tasks)] /\ active' \in [Queues -> SUBSET Tasks]
      /\ st'[t] \in Live
  BY DEF Added, Started
<1>4. \A x \in Tasks \ {t} :
           /\ st'[x] \in Live <=> st[x] \in Live
           /\ \A v \in {"none", "wait", "ok", "fail"} : st'[x] = v <=> st[x] = v
           /\ st[x] = "run" => st'[x] = "run"
  BY OthersMove DEF Added, Started
<1>5. /\ \A x \in Pkgs : Build(x) \in Tasks /\ Merge(x) \in Tasks /\ Setup(x) \in Tasks \ {t}
      /\ \A x \in Pkgs \ {p} : Build(x) \in Tasks \ {t} /\ Merge(x) \in Tasks \ {t}
      /\ \A x \in Pkgs : t = Build(p) => Merge(x) \in Tasks \ {t}
      /\ \A x \in Pkgs : t = Merge(p) => Build(x) \in Tasks \ {t}
  BY <1>1, <1>2, TaskIs
<1> HIDE DEF Pending
<1>11. TypeOK'
  <2>1. /\ running' \subseteq Tasks /\ changed' \in BOOLEAN /\ pkgQueue' \in Seq(Pkgs)
    BY <1>0, <1>1, <1>2, <1>a DEF TypeOK
  <2>2. /\ st' \in [Tasks -> {"none", "wait", "queued", "run", "ok", "fail"}]
        /\ listeners' \in [Tasks -> Seq(Kinds)]
        /\ queue' \in [Queues -> Seq(Tasks)] /\ active' \in [Queues -> SUBSET Tasks]
    BY <1>3 DEF TaskStates
  <2> QED BY <2>1, <2>2, <1>0, <1>a, <1>b, <1>c DEF TypeOK
<1>12. Shapes' /\ Once' BY <1>c DEF Once
<1>13. LifeOK' BY <1>c DEF LifeOK
<1>14. Course'
  <2>1. ASSUME NEW x \in InSeq(pkgQueue') PROVE st'[Build(x)] = "none" /\ st'[Merge(x)] = "none"
    <3>0. pkgQueue' \in Seq(Pkgs) BY <1>1
    <3>1. x \in InSeq(pkgQueue) /\ x \in Pkgs \ {p}
      <4>1. x \in Pkgs BY <3>0 DEF InSeq
      <4> QED BY <4>1, <1>1
    <3>2. st[Build(x)] = "none" /\ st[Merge(x)] = "none" BY <3>1, <1>1 DEF IInv, Course
    <3> QED BY <3>1, <3>2, <1>4, <1>5
  <2>2. ASSUME NEW x \in Pkgs
        PROVE  /\ x \in InSeq(waitQueue) <=> st'[Merge(x)] = "wait"
               /\ st'[Merge(x)] # "none" => x \in Uninstalls \/ st'[Build(x)] = "ok"
               /\ <<"build_exit", Build(x)>> \in Pending' => st'[Merge(x)] = "none"
               /\ x \in Uninstalls => st'[Build(x)] = "none"
               /\ st'[Setup(x)] \in Live => st'[Build(x)] = "run"
    <3>0. /\ x \in InSeq(waitQueue) <=> st[Merge(x)] = "wait"
          /\ st[Merge(x)] # "none" => x \in Uninstalls \/ st[Build(x)] = "ok"
          /\ <<"build_exit", Build(x)>> \in Pending => st[Merge(x)] = "none"
          /\ x \in Uninstalls => st[Build(x)] = "none"
          /\ st[Setup(x)] \in Live => st[Build(x)] = "run"
      BY <1>1 DEF IInv, Course
    <3>1. "build_exit" \in ExitKinds BY DEF ExitKinds
    <3>2. <<"build_exit", Build(x)>> \in Pending' <=> <<"build_exit", Build(x)>> \in Pending
      BY <3>1, <1>5, <1>c
    <3>3. CASE x # p
      <4>1. Build(x) \in Tasks \ {t} /\ Merge(x) \in Tasks \ {t} /\ Setup(x) \in Tasks \ {t}
        BY <3>3, <1>5
      <4> QED BY <4>1, <3>0, <3>2, <1>4
    <3>4. CASE x = p
      <4>1. <<"build_exit", Build(p)>> \notin Pending
        <5>1. Build(p) \in Tasks /\ st[Build(p)] \notin Ended BY <1>1, <1>5 DEF Ended
        <5> QED BY <5>1, <3>1, <1>1, ExitOf
      <4>2. st[Setup(p)] \notin Live /\ st'[Setup(p)] \notin Live
        BY <3>0, <3>4, <1>1, <1>4, <1>5
      <4>3. CASE t = Build(p)
        <5>1. st'[Merge(p)] = "none" BY <4>3, <1>1, <1>4, <1>5
        <5> QED BY <5>1, <4>1, <4>2, <4>3, <3>0, <3>2, <3>4, <1>1, <1>2
      <4>4. CASE t = Merge(p)
        <5>1. st'[Build(p)] = "none" BY <4>4, <1>1, <1>4, <1>5
        <5>2. p \in Uninstalls BY <4>4, <1>2
        <5>3. st'[Merge(p)] # "wait" BY <4>4, <1>3 DEF Live
        <5> QED BY <5>1, <5>2, <5>3, <4>1, <4>2, <3>0, <3>2, <3>4, <1>1
      <4> QED BY <4>3, <4>4, <1>2
    <3> QED BY <3>3, <3>4
  <2>3. Alone(waitQueue) BY <1>1 DEF IInv, Course
  <2> QED BY <2>1, <2>2, <2>3, <1>1, <1>b DEF Course
<1>15. Covered'
  <2>1. ASSUME NEW x \in Tasks, x[1] # "setup", st'[x] \in {"wait"} \cup Live
        PROVE  x \in running'
    <3>1. CASE x = t BY <3>1, <1>a
    <3>2. CASE x # t
      <4>1. st[x] \in {"wait"} \cup Live BY <3>2, <2>1, <1>4
      <4> QED BY <4>1, <2>1, <1>1, <1>a DEF IInv, Covered
    <3> QED BY <3>1, <3>2
  <2>2. ASSUME NEW e \in ExitKinds \ {"setup_exit"}, NEW x \in Tasks, <<e, x>> \in Pending'
        PROVE  x \in running'
    <3>1. <<e, x>> \in Pending BY <2>2, <1>c
    <3>2. x \in running BY <3>1, <1>1 DEF IInv, Covered
    <3> QED BY <3>2, <1>a
  <2>3. NeverWaits => waitQueue = <<>> /\ \A x \in Tasks : st'[x] # "wait"
    <3>1. ASSUME NEW x \in Tasks, st'[x] = "wait" PROVE st[x] = "wait"
      <4>1. st'[t] # "wait" BY <1>3 DEF Live
      <4>2. x # t BY <4>1, <3>1
      <4> QED BY <4>2, <3>1, <1>4
    <3> QED BY <3>1 DEF IInv, Covered
  <2> QED BY <2>1, <2>2, <2>3, <1>1, <1>b DEF Covered
<1>16. AtStart' BY <1>1, <1>b DEF AtStart
<1>17. Signals' BY <1>1, <1>b, <1>d DEF Signals, Outside
<1>18. Halting'
  <2>1. StopLast(ready') BY <1>1, <1>d, NoStop DEF Pending
  <2> QED BY <2>1, <1>1, <1>b DEF Halting, Outside, ExitIsQuiet
<1>19. Resumable'
  <2>1. resume \subseteq Pkgs BY <1>0 DEF TypeOK
  <2>2. ASSUME NEW x \in Pkgs PROVE st'[Merge(x)] = "ok" <=> st[Merge(x)] = "ok"
    <3>1. CASE Merge(x) = t
      <4>1. st'[t] \in Live /\ st[t] = "none" BY <1>2, <1>3
      <4>2. st'[t] # "ok" /\ st[t] # "ok" BY <4>1 DEF Live
      <4> QED BY <3>1, <4>2
    <3>2. CASE Merge(x) # t BY <3>2, <1>4, <1>5
    <3> QED BY <3>1, <3>2
  <2>3. InSeq(pkgQueue') \subseteq InSeq(pkgQueue) BY <1>1
  <2>4. "merge_exit" \in ExitKinds /\ "wait_exit" \in ExitKinds BY DEF ExitKinds
  <2>5. \A x \in Pkgs, e \in {"merge_exit", "wait_exit"} :
           <<e, Merge(x)>> \in Pending' <=> <<e, Merge(x)>> \in Pending
    BY <2>4, <1>5, <1>c
  <2>6. Resumable BY DEF IInv
  <2> QED BY <2>1, <2>2, <2>3, <2>5, <2>6, <1>1, <1>b DEF Resumable
<1>20. Tracked'
  <2>1. resume \subseteq Pkgs BY <1>0 DEF TypeOK
  <2>2. ASSUME NEW x \in resume
        PROVE  \/ x \in InSeq(pkgQueue') \cup failed
               \/ \E y \in {Build(x), Merge(x)} :
                    \/ st'[y] \in {"wait"} \cup Live
                    \/ \E e \in ExitKinds : <<e, y>> \in Pending'
    <3>1. CASE x = p BY <3>1, <1>2, <1>3
    <3>2. CASE x # p
      <4>1. /\ Build(x) \in Tasks \ {t} /\ Merge(x) \in Tasks \ {t}
            /\ x \in InSeq(pkgQueue) => x \in InSeq(pkgQueue')
        BY <3>2, <2>1, <1>1, <1>5
      <4>2. \/ x \in InSeq(pkgQueue) \cup failed
            \/ \E y \in {Build(x), Merge(x)} :
                 \/ st[y] \in {"wait"} \cup Live
                 \/ \E e \in ExitKinds : <<e, y>> \in Pending
        BY <1>1 DEF IInv, Tracked
      <4>3. \A y \in {Build(x), Merge(x)} :
               /\ st[y] \in {"wait"} \cup Live => st'[y] \in {"wait"} \cup Live
               /\ \A e \in ExitKinds : <<e, y>> \in Pending => <<e, y>> \in Pending'
        BY <4>1, <1>4, <1>c
      <4> QED BY <4>1, <4>2, <4>3
    <3> QED BY <3>1, <3>2
  <2> QED BY <2>2, <1>b DEF Tracked
<1>21. Ordered'
  <2> SUFFICES ASSUME ~NoDeps PROVE Ordered' BY DEF Ordered
  <2>1. ASSUME NEW i \in 1..Len(pkgQueue'), NEW j \in 1..Len(pkgQueue'), i < j,
               pkgQueue'[j] \in DeepDeps(pkgQueue'[i]) \ Uninstalls
        PROVE  ~ (Position(pkgQueue'[j]) < Position(pkgQueue'[i]))
    BY <2>1, TakenIs
  <2>2. ASSUME NEW x \in Pkgs, st'[Build(x)] \in Live,
               NEW d \in DeepDeps(x) \ Uninstalls, Position(d) < Position(x)
        PROVE  d \notin resume
    <3>1. CASE Build(x) = t
      <4>1. x = p /\ p \notin Uninstalls BY <3>1, <1>2, TaskIs
      <4> QED BY <4>1, <2>2, ChosenIs
    <3>2. CASE Build(x) # t
      <4>1. st[Build(x)] \in Live BY <3>2, <2>2, <1>4, <1>5
      <4> QED BY <4>1, <2>2, <1>1 DEF IInv, Ordered
    <3> QED BY <3>1, <3>2
  <2> QED BY <2>1, <2>2, <1>b DEF Ordered
<1>22. Apart'
  <2>1. ASSUME NEW x \in Pkgs, IsSystem(x) PROVE st'[Merge(x)] \in Live <=> st[Merge(x)] \in Live
    <3>1. Merge(x) # t
      <4> SUFFICES ASSUME Merge(x) = t PROVE FALSE OBVIOUS
      <4>1. x = p /\ p \in Uninstalls BY <1>2, TaskIs
      <4> QED BY <4>1, <2>1, Given DEF IsSystem
    <3> QED BY <3>1, <1>4, <1>5
  <2> QED BY <2>1, <1>1, <1>b DEF IInv, Apart
<1>23. Reports' BY <1>1, <1>b, <1>d DEF IInv, Reports
<1> QED BY <1>11, <1>12, <1>13, <1>14, <1>15, <1>16, <1>17, <1>18, <1>19, <1>20, <1>21,
           <1>22, <1>23 DEF IInv

\* An uninstall is started.
LEMMA StartUninstallStep == ASSUME IInv, StartUninstall PROVE IInv'
<1> USE DEF waitVars, termVars, tokenVars, diskVars
<1> DEFINE p == pkgQueue[Chosen]
           t == Merge(p)
           dq == <<t>> \o queue["merge"]
<1>0. /\ CanStart /\ p \in Uninstalls /\ pkgQueue' = WithoutAt(pkgQueue, Chosen)
      /\ running' = running \cup {t} /\ changed' = TRUE
      /\ AddFront(t, "merge_exit", ready)
      /\ UNCHANGED <<completed, failed, unsatisfied, returnEarly, jobs, waitQueue, waitScheduled,
                     flush, flushed, phase, wakeup, mainExit, terminated, terminatedTasks,
                     signalled, server, implicit, pool, token, reader, resume, installed, failedAll>>
      /\ TypeOK
  BY DEF StartUninstall, IInv
<1>1. /\ p \in Pkgs /\ st[Build(p)] = "none" /\ st[t] = "none" /\ InLife
  BY <1>0, TakenIs
<1>2. t \in Tasks /\ QueueOf(t) = "merge" /\ "merge" \in Queues /\ \A x \in Pkgs : Build(x) \in Tasks \ {t}
  BY <1>1, TaskIs, QueueIs DEF Queues
<1>3. /\ queue["merge"] \in Seq(Tasks) /\ listeners \in [Tasks -> Seq(Kinds)]
      /\ st \in [Tasks -> TaskStates] /\ ready \in Seq(Callbacks) /\ Single(ready)
  BY <1>0, <1>2 DEF TypeOK, TaskStates, IInv, Once
<1>4. <<"merge_exit">> \in Seq(Kinds) /\ "merge_exit" \in ExitKinds
  <2>1. "merge_exit" \in Kinds BY DEF Kinds
  <2> QED BY <2>1 DEF ExitKinds
<1>5. dq \in Seq(Tasks)
  <2>1. <<t>> \in Seq(Tasks) BY <1>2
  <2> QED BY <2>1, <1>3, ConcatIs
<1>6. Life(st, listeners, queue, active, Pending) BY <1>1 DEF IInv, LifeOK
<1>7. Own("merge_exit", t) BY TaskIs DEF Own
<1>8. listeners[t] = <<>> BY <1>1, <1>2, <1>6 DEF Life, TaskLife
<1>9. Pump("merge", dq, active["merge"], [st EXCEPT ![t] = "queued"], listeners, ready, t,
           <<"merge_exit">>)
  BY <1>0, <1>2 DEF AddFront
<1> HIDE DEF p, t, dq
<1>10. PICK S, rest, ms :
        Pumped("merge", dq, active["merge"], [st EXCEPT ![t] = "queued"], listeners, ready, t,
               <<"merge_exit">>, S, rest, ms)
  BY <1>2, <1>3, <1>4, <1>5, <1>9, PumpIs
<1>11. Life(st', listeners', queue', active', Pending \cup InSeq(ms)) /\ Added(t, "merge_exit")
  <2>1. dq \in {Append(queue[QueueOf(t)], t), <<t>> \o queue[QueueOf(t)]} BY <1>2 DEF dq
  <2>a. Pumped(QueueOf(t), dq, active[QueueOf(t)], [st EXCEPT ![t] = "queued"], listeners, ready, t,
               <<"merge_exit">>, S, rest, ms)
    BY <1>2, <1>10
  <2>2. st[t] \in {"none", "wait"} BY <1>1
  <2> QED BY <2>1, <2>2, <2>a, <1>0, <1>2, <1>3, <1>4, <1>6, <1>7, <1>8, LifeAdd
<1>12. /\ ready' = ready \o ms /\ ms \in Seq(Callbacks)
       /\ \A c \in InSeq(ms) : c[1] = "merge_started" /\ c[2] \in Tasks
  BY <1>10 DEF Pumped
<1>13. /\ ready' \in Seq(Callbacks) /\ Single(ready') /\ Pending' = Pending \cup InSeq(ms)
       /\ \A e, x : e # "merge_started" => (<<e, x>> \in Pending' <=> <<e, x>> \in Pending)
       /\ TermCallback \in Pending' <=> TermCallback \in Pending
       /\ Stopping \in Pending' <=> Stopping \in Pending
       /\ Shapes'
  BY <1>3, <1>12, PumpedReady DEF Pending, IInv, Shapes
<1>14. \A e \in ExitKinds \cup {"queue_exit"} : e # "merge_started" BY DEF ExitKinds
<1> HIDE DEF Pending
<1>15. UnderWay' = UnderWay
  <2>1. ASSUME NEW x \in Pkgs PROVE listeners'[Build(x)] # <<>> <=> listeners[Build(x)] # <<>>
    <3>0. st' \in [Tasks -> TaskStates] BY <1>11 DEF Added
    <3>1. listeners'[Build(x)] # <<>> <=> st'[Build(x)] \in Live
      BY <1>2, <1>11, <3>0, UnderWayIs
    <3>2. listeners[Build(x)] # <<>> <=> st[Build(x)] \in Live
      BY <1>2, <1>3, <1>6, UnderWayIs
    <3>3. st'[Build(x)] \in Live <=> st[Build(x)] \in Live
      <4>1. st'[Build(x)] = st[Build(x)] \/ (st[Build(x)] = "queued" /\ st'[Build(x)] = "run")
        BY <1>2, <1>11 DEF Added
      <4> QED BY <4>1 DEF Live
    <3> QED BY <3>1, <3>2, <3>3
  <2> QED BY <2>1, <1>13 DEF UnderWay, Pending
<1>16. JobAccounting' BY <1>0, <1>15 DEF IInv, JobAccounting
<1>17. TokensKept' BY <1>0, <1>15 DEF IInv, TokensKept, Held
<1>18. Started(p, t, "merge_exit")
  <2>1. p \in Uninstalls /\ t = Merge(p) BY <1>0 DEF t
  <2>2. Life(st', listeners', queue', active', Pending') BY <1>11, <1>13
  <2>3. /\ jobs \in Nat /\ terminated \in BOOLEAN
        /\ token \in [Pkgs -> {"none", "empty", "token"}] /\ server \in {"none", "up", "dead"}
        /\ implicit \in BOOLEAN /\ pool \in 0..Tokens /\ reader \in {"off", "on", "stale"}
    BY <1>0 DEF TypeOK
  <2>4. TermCallback \in Pending => terminated BY DEF IInv, Signals
  <2> QED BY <2>1, <2>2, <2>3, <2>4, <1>0, <1>11, <1>13, <1>14 DEF Started
<1> QED BY <1>0, <1>4, <1>16, <1>17, <1>18, StartIs DEF p

\* A build is started.
LEMMA StartBuildStep == ASSUME IInv, StartBuild PROVE IInv'
<1> USE DEF waitVars, diskVars
<1> DEFINE p == pkgQueue[Chosen]
           t == Build(p)
           rd == Terminated(ready)
           dq == Append(queue["jobs"], t)
<1>0. /\ CanStart /\ p \notin Uninstalls /\ pkgQueue' = WithoutAt(pkgQueue, Chosen)
      /\ AcquireToken(p) /\ jobs' = jobs + 1
      /\ running' = running \cup {t} /\ changed' = TRUE
      /\ Add(t, "build_exit", rd)
      /\ UNCHANGED <<completed, failed, unsatisfied, returnEarly, waitQueue, waitScheduled,
                     flush, flushed, phase, wakeup, mainExit, terminatedTasks,
                     signalled, resume, installed, failedAll>>
      /\ TypeOK
  BY DEF StartBuild, IInv
<1>1. /\ p \in Pkgs /\ st[t] = "none" /\ InLife /\ jobs < MaxJobs /\ ~terminated
  BY <1>0, TakenIs
<1>2. /\ t \in Tasks /\ QueueOf(t) = "jobs" /\ "jobs" \in Queues
      /\ \A x \in Pkgs : Build(x) \in Tasks
      /\ \A x \in Pkgs \ {p} : Build(x) # t
  BY <1>1, TaskIs, QueueIs DEF Queues
<1>3. /\ queue["jobs"] \in Seq(Tasks) /\ listeners \in [Tasks -> Seq(Kinds)]
      /\ st \in [Tasks -> TaskStates] /\ ready \in Seq(Callbacks) /\ Single(ready)
  BY <1>0, <1>2 DEF TypeOK, TaskStates, IInv, Once
<1>4. <<"build_exit">> \in Seq(Kinds) /\ "build_exit" \in ExitKinds
  <2>1. "build_exit" \in Kinds BY DEF Kinds
  <2> QED BY <2>1 DEF ExitKinds
<1>5. dq \in Seq(Tasks) BY <1>2, <1>3
<1>6. Life(st, listeners, queue, active, Pending) BY <1>1 DEF IInv, LifeOK
<1>7. Own("build_exit", t) BY TaskIs DEF Own
<1>8. listeners[t] = <<>> BY <1>1, <1>2, <1>6 DEF Life, TaskLife
<1>9. Pump("jobs", dq, active["jobs"], [st EXCEPT ![t] = "queued"], listeners, rd, t,
           <<"build_exit">>)
  BY <1>0, <1>2 DEF Add
<1> HIDE DEF p, t, dq
<1>10. PICK S, rest, ms :
        Pumped("jobs", dq, active["jobs"], [st EXCEPT ![t] = "queued"], listeners, rd, t,
               <<"build_exit">>, S, rest, ms)
  BY <1>2, <1>3, <1>4, <1>5, <1>9, PumpIs
<1>12. /\ ready' = rd \o ms /\ ms \in Seq(Callbacks)
       /\ \A c \in InSeq(ms) : c[1] = "merge_started" /\ c[2] \in Tasks
  BY <1>10 DEF Pumped
\* No token is p's yet, so that it is under way only now.
<1>19. p \notin UnderWay
  <2>1. listeners[Build(p)] = <<>> BY <1>8 DEF t
  <2>2. <<"build_exit", Build(p)>> \notin Pending
    <3>1. st[Build(p)] \notin Ended /\ Build(p) \in Tasks BY <1>1, <1>2 DEF t, Ended
    <3> QED BY <3>1, <1>1, <1>4, ExitOf
  <2> QED BY <2>1, <2>2 DEF UnderWay, Pending
<1>20. /\ terminated' \in BOOLEAN
       /\ terminated' => terminated \/ (Jobserver /\ JobserverMayFail)
  <2>1. terminated \in BOOLEAN /\ (server = "up" => Jobserver) BY <1>0 DEF TypeOK, IInv, TokensKept
  <2>2. \/ terminated' = terminated
        \/ server = "up" /\ terminated' = TRUE /\ JobserverMayFail
    BY <1>0 DEF AcquireToken, JobserverFails
  <2>3. CASE terminated' = terminated BY <2>1, <2>3
  <2>4. CASE server = "up" /\ terminated' = TRUE /\ JobserverMayFail BY <2>1, <2>4
  <2> QED BY <2>2, <2>3, <2>4
<1>21. /\ rd \in Seq(Callbacks) /\ Single(rd)
       /\ InSeq(ready) \subseteq InSeq(rd) /\ InSeq(rd) \subseteq InSeq(ready) \cup {TermCallback}
       /\ TermCallback \in InSeq(rd) => terminated'
  <2>1. TermCallback \in InSeq(ready) => terminated BY DEF IInv, Signals, Pending
  <2>2. rd = Terminated(ready) OBVIOUS
  <2> HIDE DEF rd
  <2> QED BY <2>1, <2>2, <1>0, <1>1, <1>3, <1>20, TermIs
<1> HIDE DEF rd
<1>22. /\ \A x \in Tasks : \A e : <<e, x>> \in InSeq(rd) <=> <<e, x>> \in Pending
       /\ Stopping \in InSeq(rd) => Stopping \in Pending
       /\ \A c \in InSeq(rd) :
            \/ c[1] \in {"term", "stop"} /\ c[2] = <<>>
            \/ c[1] \notin {"term", "stop"} /\ c[2] \in Tasks
  <2>1. /\ \A x \in Tasks : \A e : <<e, x>> \in InSeq(rd) <=> <<e, x>> \in Pending
        /\ Stopping \in InSeq(rd) => Stopping \in Pending
    <3>1. Stopping # TermCallback BY DEF Stopping, TermCallback
    <3> QED BY <3>1, <1>21, Others DEF Pending
  <2>2. TermCallback[1] = "term" /\ TermCallback[2] = <<>> BY DEF TermCallback
  <2> QED BY <2>1, <2>2, <1>21 DEF IInv, Shapes, Pending
<1>11. Life(st', listeners', queue', active', InSeq(rd) \cup InSeq(ms)) /\ Added(t, "build_exit")
  <2>1. dq \in {Append(queue[QueueOf(t)], t), <<t>> \o queue[QueueOf(t)]} BY <1>2 DEF dq
  <2>a. Pumped(QueueOf(t), dq, active[QueueOf(t)], [st EXCEPT ![t] = "queued"], listeners, rd, t,
               <<"build_exit">>, S, rest, ms)
    BY <1>2, <1>10
  <2>2. st[t] \in {"none", "wait"} BY <1>1
  <2>3. Life(st, listeners, queue, active, InSeq(rd)) BY <1>6, <1>22, LifeReady
  <2> QED BY <2>1, <2>2, <2>3, <2>a, <1>0, <1>2, <1>3, <1>4, <1>7, <1>8, LifeAdd
<1>13. /\ ready' \in Seq(Callbacks) /\ Single(ready') /\ Pending' = InSeq(rd) \cup InSeq(ms)
       /\ \A e, x : e # "merge_started" => (<<e, x>> \in Pending' <=> <<e, x>> \in InSeq(rd))
       /\ TermCallback \in Pending' <=> TermCallback \in InSeq(rd)
       /\ Stopping \in Pending' <=> Stopping \in InSeq(rd)
       /\ Shapes'
  BY <1>12, <1>21, <1>22, PumpedReady DEF Pending, Shapes
<1>14. \A e \in ExitKinds \cup {"queue_exit"} : e # "merge_started" BY DEF ExitKinds
<1> HIDE DEF Pending
<1>15. UnderWay' = UnderWay \cup {p}
  <2>0. st' \in [Tasks -> TaskStates] BY <1>11 DEF Added
  <2>a. Life(st', listeners', queue', active', Pending') BY <1>11, <1>13
  <2>1. ASSUME NEW x \in Pkgs \ {p} PROVE listeners'[Build(x)] # <<>> <=> listeners[Build(x)] # <<>>
    <3>1. listeners'[Build(x)] # <<>> <=> st'[Build(x)] \in Live
      BY <1>2, <2>a, <2>0, UnderWayIs
    <3>2. listeners[Build(x)] # <<>> <=> st[Build(x)] \in Live
      BY <1>2, <1>3, <1>6, UnderWayIs
    <3>3. st'[Build(x)] \in Live <=> st[Build(x)] \in Live
      <4>1. st'[Build(x)] = st[Build(x)] \/ (st[Build(x)] = "queued" /\ st'[Build(x)] = "run")
        BY <1>2, <1>11 DEF Added
      <4> QED BY <4>1 DEF Live
    <3> QED BY <3>1, <3>2, <3>3
  <2>2. listeners'[Build(p)] # <<>>
    <3>1. st'[Build(p)] \in Live /\ Build(p) \in Tasks BY <1>2, <1>11 DEF Added, t
    <3> QED BY <3>1, <2>0, <2>a, UnderWayIs
  <2>3. ASSUME NEW x \in Pkgs
        PROVE  <<"build_exit", Build(x)>> \in Pending' <=> <<"build_exit", Build(x)>> \in Pending
    BY <1>2, <1>4, <1>13, <1>14, <1>22
  <2> QED BY <2>1, <2>2, <2>3, <1>1 DEF UnderWay, Pending
<1>16. JobAccounting'
  <2>1. IsFiniteSet(UnderWay)
    <3>1. UnderWay \subseteq Pkgs BY DEF UnderWay
    <3> QED BY <3>1, Given, FS_Subset
  <2>2. Cardinality(UnderWay') = Cardinality(UnderWay) + 1 BY <2>1, <1>15, <1>19, FS_AddElement
  <2>3. jobs' \in Nat /\ jobs' <= MaxJobs BY <1>0, <1>1, Given DEF TypeOK
  <2> QED BY <2>2, <2>3, <1>0 DEF IInv, JobAccounting
<1>17. /\ TokensKept'
       /\ token' \in [Pkgs -> {"none", "empty", "token"}] /\ server' \in {"none", "up", "dead"}
       /\ implicit' \in BOOLEAN /\ pool' \in 0..Tokens /\ reader' \in {"off", "on", "stale"}
  <2>1. UnderWay \cup {p} \subseteq UnderWay' BY <1>15
  <2>2. TypeOK /\ TokensKept /\ AcquireToken(p) BY <1>0 DEF IInv
  <2> QED BY <2>1, <2>2, <1>1, <1>19, AcquireIs
<1>18. Started(p, t, "build_exit")
  <2>1. p \notin Uninstalls /\ t = Build(p) BY <1>0 DEF t
  <2>2. Life(st', listeners', queue', active', Pending') BY <1>11, <1>13
  <2>3. jobs' \in Nat BY <1>0 DEF TypeOK
  <2>4. \A e \in ExitKinds : \A x \in Tasks : <<e, x>> \in Pending' <=> <<e, x>> \in Pending
    BY <1>13, <1>14, <1>22
  <2>5. /\ TermCallback \in Pending' => terminated'
        /\ Stopping \in Pending' => Stopping \in Pending
        /\ terminated => terminated'
    BY <1>1, <1>13, <1>21, <1>22
  <2> QED BY <2>1, <2>2, <2>3, <2>4, <2>5, <1>0, <1>11, <1>13, <1>17, <1>20 DEF Started
<1> QED BY <1>0, <1>4, <1>16, <1>17, <1>18, StartIs DEF p

-----------------------------------------------------------------------------
(* A merge that had to wait is queued                                      *)

TransferAdd ==
  /\ phase = "transfer" /\ ~BatchEnds
  /\ LET p == Head(waitQueue)
     IN  /\ waitQueue' = Tail(waitQueue)
         /\ waitScheduled' = waitScheduled \cup {p}
         /\ Add(Merge(p), "wait_exit", ready)
         /\ changed' = TRUE
         /\ phase' = IF IsSystem(p) THEN "imp" ELSE "transfer"
         /\ UNCHANGED <<flush, flushed>>
  /\ UNCHANGED <<planVars, jobVars, wakeup, mainExit, termVars, tokenVars, diskVars>>

\* A waiting merge goes to the merge queue.
LEMMA TransferAddStep == ASSUME IInv, TransferAdd PROVE IInv'
<1> USE DEF planVars, jobVars, termVars, tokenVars, diskVars
<1> DEFINE p == Head(waitQueue)
           t == Merge(p)
           dq == Append(queue["merge"], t)
<1>0. /\ phase = "transfer" /\ phase' = (IF IsSystem(p) THEN "imp" ELSE "transfer") /\ changed' = TRUE
      /\ waitQueue' = Tail(waitQueue) /\ waitScheduled' = waitScheduled \cup {p}
      /\ waitQueue # <<>> /\ ~ (Busy("merge") /\ IsSystem(p))
      /\ Add(t, "wait_exit", ready)
      /\ UNCHANGED <<planVars, jobVars, flush, flushed, wakeup, mainExit, termVars, tokenVars,
                     diskVars>>
      /\ TypeOK
  BY DEF TransferAdd, BatchEnds, IInv
<1>a. phase' \in {"imp", "transfer"} BY <1>0
<1>b. InLife /\ InLife' /\ phase # "start" BY <1>0, <1>a DEF InLife
<1>1. /\ p \in Pkgs /\ waitQueue' \in Seq(Pkgs) /\ InSeq(waitQueue) = {p} \cup InSeq(waitQueue')
      /\ Alone(waitQueue') /\ p \notin InSeq(waitQueue')
  <2>1. waitQueue \in Seq(Pkgs) /\ waitQueue # <<>> BY <1>0 DEF TypeOK
  <2>2. Alone(waitQueue) BY <1>b DEF IInv, Course
  <2> QED BY <2>1, <2>2, <1>0, TailIs
<1>2. /\ t \in Tasks /\ QueueOf(t) = "merge" /\ "merge" \in Queues
      /\ \A x \in Pkgs : Build(x) \in Tasks \ {t} /\ Setup(x) \in Tasks \ {t} /\ Merge(x) \in Tasks
      /\ \A x \in Pkgs \ {p} : Merge(x) \in Tasks \ {t}
  BY <1>1, TaskIs, QueueIs DEF Queues
<1>3. /\ queue["merge"] \in Seq(Tasks) /\ listeners \in [Tasks -> Seq(Kinds)]
      /\ st \in [Tasks -> TaskStates] /\ ready \in Seq(Callbacks) /\ Single(ready)
  BY <1>0, <1>2 DEF TypeOK, TaskStates, IInv, Once
<1>4. <<"wait_exit">> \in Seq(Kinds) /\ "wait_exit" \in ExitKinds
  <2>1. "wait_exit" \in Kinds BY DEF Kinds
  <2> QED BY <2>1 DEF ExitKinds
<1>5. dq \in Seq(Tasks) BY <1>2, <1>3
<1>6. Life(st, listeners, queue, active, Pending) BY <1>b DEF IInv, LifeOK
<1>7. Own("wait_exit", t) BY TaskIs DEF Own
<1>c. st[t] = "wait" BY <1>1, <1>b DEF IInv, Course
<1>8. listeners[t] = <<>> BY <1>c, <1>2, <1>6 DEF Life, TaskLife
<1>9. Pump("merge", dq, active["merge"], [st EXCEPT ![t] = "queued"], listeners, ready, t,
           <<"wait_exit">>)
  BY <1>0, <1>2 DEF Add
<1>d. ~NeverWaits /\ (Orderly => ~terminatedTasks) BY <1>0 DEF IInv, Covered, Orderly
<1>e. ~ (mainExit /\ Orderly) BY <1>0, <1>b, Still
<1> HIDE DEF p, t, dq
<1>10. PICK S, rest, ms :
        Pumped("merge", dq, active["merge"], [st EXCEPT ![t] = "queued"], listeners, ready, t,
               <<"wait_exit">>, S, rest, ms)
  BY <1>2, <1>3, <1>4, <1>5, <1>9, PumpIs
<1>11. Life(st', listeners', queue', active', Pending \cup InSeq(ms)) /\ Added(t, "wait_exit")
  <2>1. dq \in {Append(queue[QueueOf(t)], t), <<t>> \o queue[QueueOf(t)]} BY <1>2 DEF dq
  <2>a. Pumped(QueueOf(t), dq, active[QueueOf(t)], [st EXCEPT ![t] = "queued"], listeners, ready, t,
               <<"wait_exit">>, S, rest, ms)
    BY <1>2, <1>10
  <2>2. st[t] \in {"none", "wait"} BY <1>c
  <2> QED BY <2>1, <2>2, <2>a, <1>0, <1>2, <1>3, <1>4, <1>6, <1>7, <1>8, LifeAdd
<1>12. /\ ready' = ready \o ms /\ ms \in Seq(Callbacks)
       /\ \A c \in InSeq(ms) : c[1] = "merge_started" /\ c[2] \in Tasks
  BY <1>10 DEF Pumped
<1>13. /\ ready' \in Seq(Callbacks) /\ Single(ready') /\ Pending' = Pending \cup InSeq(ms)
       /\ \A e, x : e # "merge_started" => (<<e, x>> \in Pending' <=> <<e, x>> \in Pending)
       /\ TermCallback \in Pending' <=> TermCallback \in Pending
       /\ Stopping \in Pending' <=> Stopping \in Pending
       /\ Shapes'
  BY <1>3, <1>12, PumpedReady DEF Pending, IInv, Shapes
<1>14. \A e \in ExitKinds \cup {"queue_exit"} : e # "merge_started" BY DEF ExitKinds
<1>15. \A x \in Tasks \ {t} :
           /\ st'[x] \in Live <=> st[x] \in Live
           /\ \A v \in {"none", "wait", "ok", "fail"} : st'[x] = v <=> st[x] = v
           /\ st[x] = "run" => st'[x] = "run"
  BY <1>11, OthersMove DEF Added
<1>16. /\ st' \in [Tasks -> TaskStates] /\ listeners' \in [Tasks -> Seq(Kinds)]
       /\ queue' \in [Queues -> Seq(Tasks)] /\ active' \in [Queues -> SUBSET Tasks]
       /\ st'[t] \in Live
  BY <1>11 DEF Added
<1> HIDE DEF Pending
<1>17. UnderWay' = UnderWay
  <2>1. ASSUME NEW x \in Pkgs PROVE listeners'[Build(x)] # <<>> <=> listeners[Build(x)] # <<>>
    <3>1. listeners'[Build(x)] # <<>> <=> st'[Build(x)] \in Live
      BY <1>2, <1>11, <1>16, UnderWayIs
    <3>2. listeners[Build(x)] # <<>> <=> st[Build(x)] \in Live
      BY <1>2, <1>3, <1>6, UnderWayIs
    <3> QED BY <3>1, <3>2, <1>2, <1>15
  <2> QED BY <2>1, <1>13 DEF UnderWay, Pending
\* Before a system package is queued the merge queue is empty.
<1>18. IsSystem(p) => \A x \in Pkgs : st[Merge(x)] \notin Live
  <2> SUFFICES ASSUME IsSystem(p), NEW x \in Pkgs, st[Merge(x)] \in Live PROVE FALSE OBVIOUS
  <2>1. queue["merge"] = <<>> /\ active["merge"] = {} BY <1>0 DEF Busy
  <2>2. InSeq(<<>>) = {} BY DEF InSeq
  <2>3. TaskLife(Merge(x), st, listeners, queue, active, Pending) BY <1>2, <1>6 DEF Life
  <2>4. QueueOf(Merge(x)) = "merge" BY QueueIs
  <2> QED BY <2>1, <2>2, <2>3, <2>4 DEF TaskLife, Live
<1>21. TypeOK'
  <2>1. waitScheduled' \subseteq Pkgs BY <1>0, <1>1 DEF TypeOK
  <2> QED BY <2>1, <1>0, <1>a, <1>1, <1>13, <1>16 DEF TypeOK, TaskStates
<1>22. Shapes' /\ Once' BY <1>13 DEF Once
<1>23. LifeOK' BY <1>11, <1>13 DEF LifeOK
<1>24. Course'
  <2>1. ASSUME NEW x \in InSeq(pkgQueue') PROVE st'[Build(x)] = "none" /\ st'[Merge(x)] = "none"
    <3>1. x \in InSeq(pkgQueue) /\ x \in Pkgs BY <1>0 DEF TypeOK, InSeq
    <3>2. st[Build(x)] = "none" /\ st[Merge(x)] = "none" BY <3>1, <1>b DEF IInv, Course
    <3>3. x # p BY <3>2, <1>c DEF t
    <3> QED BY <3>1, <3>2, <3>3, <1>2, <1>15
  <2>2. ASSUME NEW x \in Pkgs
        PROVE  /\ x \in InSeq(waitQueue') <=> st'[Merge(x)] = "wait"
               /\ st'[Merge(x)] # "none" => x \in Uninstalls \/ st'[Build(x)] = "ok"
               /\ <<"build_exit", Build(x)>> \in Pending' => st'[Merge(x)] = "none"
               /\ x \in Uninstalls => st'[Build(x)] = "none"
               /\ st'[Setup(x)] \in Live => st'[Build(x)] = "run"
    <3>0. /\ x \in InSeq(waitQueue) <=> st[Merge(x)] = "wait"
          /\ st[Merge(x)] # "none" => x \in Uninstalls \/ st[Build(x)] = "ok"
          /\ <<"build_exit", Build(x)>> \in Pending => st[Merge(x)] = "none"
          /\ x \in Uninstalls => st[Build(x)] = "none"
          /\ st[Setup(x)] \in Live => st[Build(x)] = "run"
      BY <1>b DEF IInv, Course
    <3>1. <<"build_exit", Build(x)>> \in Pending' <=> <<"build_exit", Build(x)>> \in Pending
      BY <1>13
    <3>2. CASE x # p
      <4>1. Merge(x) \in Tasks \ {t} /\ Build(x) \in Tasks \ {t} /\ Setup(x) \in Tasks \ {t}
        BY <3>2, <1>2
      <4>2. x \in InSeq(waitQueue') <=> x \in InSeq(waitQueue) BY <3>2, <1>1
      <4> QED BY <4>1, <4>2, <3>0, <3>1, <1>15
    <3>3. CASE x = p
      <4>1. Merge(x) = t BY <3>3 DEF t
      <4>2. st'[Merge(x)] # "wait" BY <4>1, <1>16 DEF Live
      <4>3. x \notin InSeq(waitQueue') BY <3>3, <1>1
      <4>4. Build(x) \in Tasks \ {t} /\ Setup(x) \in Tasks \ {t} BY <1>2
      <4> QED BY <4>1, <4>2, <4>3, <4>4, <3>0, <3>1, <1>15, <1>c
    <3> QED BY <3>2, <3>3
  <2> QED BY <2>1, <2>2, <1>0, <1>1, <1>b DEF IInv, Course
<1>25. Covered'
  <2>1. ASSUME Orderly, NEW x \in Tasks, x[1] # "setup", st'[x] \in {"wait"} \cup Live
        PROVE  x \in running
    <3>1. st[x] \in {"wait"} \cup Live BY <2>1, <1>15, <1>c
    <3> QED BY <3>1, <2>1, <1>b DEF IInv, Covered
  <2>2. ASSUME NEW x \in waitScheduled'
        PROVE  \/ "wait_exit" \in InSeq(listeners'[Merge(x)])
               \/ <<"wait_exit", Merge(x)>> \in Pending'
    <3>1. CASE x = p BY <3>1, <1>11 DEF Added, t
    <3>2. CASE x # p
      <4>1. x \in waitScheduled /\ x \in Pkgs BY <3>2, <2>2, <1>0 DEF TypeOK
      <4>2. Merge(x) \in Tasks \ {t} BY <4>1, <3>2, <1>2
      <4>3. "wait_exit" \in InSeq(listeners[Merge(x)]) => "wait_exit" \in InSeq(listeners'[Merge(x)])
        BY <4>2, <1>4, <1>11 DEF Added
      <4> QED BY <4>1, <4>3, <1>13, <1>14 DEF IInv, Covered
    <3> QED BY <3>1, <3>2
  <2>3. \A e \in ExitKinds, x \in Tasks : <<e, x>> \in Pending' <=> <<e, x>> \in Pending
    BY <1>13, <1>14
  <2> QED BY <2>1, <2>2, <2>3, <1>0, <1>b, <1>d DEF IInv, Covered, Orderly
<1>27. JobAccounting' BY <1>0, <1>17 DEF IInv, JobAccounting
<1>28. TokensKept' BY <1>0, <1>17 DEF IInv, TokensKept, Held
<1>29. AtStart' BY <1>a DEF AtStart
<1>30. Signals' BY <1>0, <1>a, <1>13 DEF IInv, Signals, Outside
<1>31. Halting'
  <2>1. Orderly => StopLast(ready')
    <3> SUFFICES ASSUME Orderly PROVE StopLast(ready') OBVIOUS
    <3>1. Stopping \notin Pending BY <1>e DEF IInv, Signals
    <3> QED BY <3>1, <1>13, NoStop DEF Pending
  <2> QED BY <2>1, <1>0, <1>a, <1>e DEF Halting, Orderly, Outside, ExitIsQuiet
<1>32. Resumable'
  <2>1. resume \subseteq Pkgs BY <1>0 DEF TypeOK
  <2>2. ASSUME NEW x \in Pkgs PROVE st'[Merge(x)] = "ok" <=> st[Merge(x)] = "ok"
    <3>1. CASE Merge(x) = t
      <4>2. st'[t] # "ok" /\ st[t] # "ok" BY <1>c, <1>16 DEF Live
      <4> QED BY <3>1, <4>2
    <3>2. CASE Merge(x) # t BY <3>2, <1>2, <1>15
    <3> QED BY <3>1, <3>2
  <2> QED BY <2>1, <2>2, <1>0, <1>b, <1>13 DEF IInv, Resumable
<1>33. Tracked'
  <2>1. resume \subseteq Pkgs BY <1>0 DEF TypeOK
  <2>2. ASSUME NEW x \in Pkgs, NEW y \in {Build(x), Merge(x)}
        PROVE  st'[y] \in {"wait"} \cup Live <=> st[y] \in {"wait"} \cup Live
    <3>1. CASE y = t BY <3>1, <1>c, <1>16
    <3>2. CASE y # t
      <4>1. y \in Tasks \ {t} BY <3>2, <1>2
      <4> QED BY <4>1, <1>15
    <3> QED BY <3>1, <3>2
  <2>3. phase \notin {"start", "done", "raised"} BY <1>0
  <2> QED BY <2>1, <2>2, <2>3, <1>0, <1>13, <1>14 DEF IInv, Tracked
<1>34. Ordered' BY <1>0, <1>b, <1>2, <1>15 DEF IInv, Ordered
<1>35. Apart'
  <2>1. ASSUME NEW x \in Pkgs \ {p} PROVE st'[Merge(x)] \in Live <=> st[Merge(x)] \in Live
    BY <1>2, <1>15
  <2>2. ASSUME NEW x \in Pkgs, NEW y \in Pkgs, IsSystem(x), st'[Merge(x)] \in Live,
               IsSystem(y), st'[Merge(y)] \in Live
        PROVE  x = y
    <3>1. CASE IsSystem(p) BY <3>1, <2>1, <2>2, <1>18
    <3>2. CASE ~IsSystem(p) BY <3>2, <2>1, <2>2 DEF IInv, Apart
    <3> QED BY <3>1, <3>2
  <2>3. ASSUME ~flushed
        PROVE  /\ jobs = 0
               /\ \A x \in Pkgs : IsSystem(x) => st[Merge(x)] \notin Live
    BY <2>3, <1>0 DEF IInv, Apart
  <2>4. ASSUME ~flushed, phase' = "transfer", NEW x \in Pkgs, IsSystem(x)
        PROVE  st'[Merge(x)] \notin Live
    <3>1. ~IsSystem(p) BY <2>4, <1>0
    <3>2. x # p BY <3>1, <2>4
    <3> QED BY <3>2, <2>1, <2>3, <2>4
  <2>5. ASSUME ~flushed, NEW w \in waitScheduled', NEW q \in Pkgs,
               IsSystem(w), st'[Merge(w)] \in Live, q # w
        PROVE  st'[Merge(q)] \notin Live
    <3>0. w \in Pkgs BY <1>0, <1>1 DEF TypeOK
    <3>1. w = p BY <3>0, <2>1, <2>3, <2>5
    <3> QED BY <3>1, <2>1, <2>5, <1>18
  <2>6. flush => flushed BY DEF IInv, Apart
  <2> QED BY <2>2, <2>3, <2>4, <2>5, <2>6, <1>0 DEF Apart
<1>36. Reports' BY <1>0 DEF IInv, Reports
<1> QED BY <1>21, <1>22, <1>23, <1>24, <1>25, <1>27, <1>28, <1>29, <1>30, <1>31, <1>32,
           <1>33, <1>34, <1>35, <1>36 DEF IInv

-----------------------------------------------------------------------------
(* The exit of a build                                                     *)

Waits(p) == MergeWait \/ IsSystem(p)

\* What becomes of the merge of p, whose build has ended.
Built(p) ==
  /\ st' \in [Tasks -> TaskStates] /\ listeners' \in [Tasks -> Seq(Kinds)]
  /\ queue' \in [Queues -> Seq(Tasks)] /\ active' \in [Queues -> SUBSET Tasks]
  /\ \A x \in Tasks \ {Merge(p)} : st'[x] = st[x] \/ (st[x] = "queued" /\ st'[x] = "run")
  /\ \A x \in Tasks \ {Merge(p)} : \A e \in ExitKinds :
       e \in InSeq(listeners[x]) => e \in InSeq(listeners'[x])
  /\ Mergeable(p) => IF Waits(p) THEN st'[Merge(p)] = "wait" ELSE st'[Merge(p)] \in Live
  /\ ~Mergeable(p) => st'[Merge(p)] = "none" /\ ready' = Terminated(Tail(ready))
  /\ waitQueue' = IF Mergeable(p) /\ Waits(p) THEN Append(waitQueue, p) ELSE waitQueue
  /\ Life(st', listeners', queue', active', Pending')
  /\ ready' \in Seq(Callbacks) /\ Single(ready') /\ Shapes'
  /\ \A e, x : e # "merge_started" /\ x \in Tasks =>
       (<<e, x>> \in Pending' <=> <<e, x>> \in InSeq(Tail(ready)))
  /\ TermCallback \in Pending' => terminated'
  /\ Stopping \in Pending' => Stopping \in Pending

\* What the exit of a build does to the tasks and their callbacks.
LEMMA BuiltIs ==
  ASSUME IInv, InLife, ready # <<>>, NEW p \in Pkgs, Head(ready) = <<"build_exit", Build(p)>>,
         st[Merge(p)] = "none", terminated => terminated', terminated' \in BOOLEAN,
         IF Mergeable(p) /\ ~Waits(p)
         THEN /\ Add(Merge(p), "merge_exit", Terminated(Tail(ready)))
              /\ UNCHANGED waitQueue
         ELSE /\ ready' = Terminated(Tail(ready))
              /\ waitQueue' = IF Mergeable(p) THEN Append(waitQueue, p) ELSE waitQueue
              /\ st' = IF Mergeable(p) THEN [st EXCEPT ![Merge(p)] = "wait"] ELSE st
              /\ UNCHANGED <<listeners, queue, active>>
  PROVE  Built(p)
<1> DEFINE c == Head(ready)
           t == Merge(p)
           rt == Tail(ready)
           rd == Terminated(rt)
           dq == Append(queue["merge"], t)
<1>0. TypeOK BY DEF IInv
<1>1. /\ rt \in Seq(Callbacks) /\ Single(rt) /\ Pending = {c} \cup InSeq(rt)
      /\ TermCallback \in InSeq(rt) => terminated
  BY CallIs
<1>2. /\ t \in Tasks /\ QueueOf(t) = "merge" /\ "merge" \in Queues
  BY TaskIs, QueueIs DEF Queues
<1>3. /\ queue["merge"] \in Seq(Tasks) /\ listeners \in [Tasks -> Seq(Kinds)]
      /\ st \in [Tasks -> TaskStates]
      /\ queue \in [Queues -> Seq(Tasks)] /\ active \in [Queues -> SUBSET Tasks]
  BY <1>0, <1>2 DEF TypeOK, TaskStates
<1>4. Life(st, listeners, queue, active, Pending) BY DEF IInv, LifeOK
<1>5. listeners[t] = <<>> BY <1>2, <1>4 DEF Life, TaskLife
<1>6. /\ rd \in Seq(Callbacks) /\ Single(rd)
      /\ InSeq(rt) \subseteq InSeq(rd) /\ InSeq(rd) \subseteq InSeq(rt) \cup {TermCallback}
      /\ TermCallback \in InSeq(rd) => terminated'
  <2>1. rd = Terminated(rt) OBVIOUS
  <2> HIDE DEF rd, rt
  <2> QED BY <2>1, <1>0, <1>1, TermIs
<1> HIDE DEF rd
<1>7. /\ \A e, x : x \in Tasks => (<<e, x>> \in InSeq(rd) <=> <<e, x>> \in InSeq(rt))
      /\ Stopping \in InSeq(rd) => Stopping \in Pending
      /\ \A d \in InSeq(rd) :
            \/ d[1] \in {"term", "stop"} /\ d[2] = <<>>
            \/ d[1] \notin {"term", "stop"} /\ d[2] \in Tasks
  <2>1. /\ \A e, x : x \in Tasks => (<<e, x>> \in InSeq(rd) <=> <<e, x>> \in InSeq(rt))
        /\ Stopping \in InSeq(rd) => Stopping \in Pending
    <3>1. Stopping # TermCallback BY DEF Stopping, TermCallback
    <3> QED BY <3>1, <1>1, <1>6, Others
  <2>2. TermCallback[1] = "term" /\ TermCallback[2] = <<>> BY DEF TermCallback
  <2>3. \A d \in InSeq(rt) :
            \/ d[1] \in {"term", "stop"} /\ d[2] = <<>>
            \/ d[1] \notin {"term", "stop"} /\ d[2] \in Tasks
    BY <1>1 DEF IInv, Shapes
  <2> QED BY <2>1, <2>2, <2>3, <1>6
<1>8. Life(st, listeners, queue, active, InSeq(rd))
  <2>1. \A x \in Tasks : <<"queue_exit", x>> \in InSeq(rd) <=> <<"queue_exit", x>> \in Pending
    <3>1. \A x : <<"queue_exit", x>> # c OBVIOUS
    <3> QED BY <3>1, <1>1, <1>7
  <2>2. \A x \in Tasks, k \in ExitKinds : <<k, x>> \in InSeq(rd) => <<k, x>> \in Pending
    BY <1>1, <1>7
  <2> QED BY <2>1, <2>2, <1>4, LifeReady
<1>9. \A d : d \in Live => d \notin {"none", "wait"} BY DEF Live
\* It is added to the merge queue.
<1>10. CASE Mergeable(p) /\ ~Waits(p)
  <2>0. Add(t, "merge_exit", rd) /\ waitQueue' = waitQueue BY <1>10 DEF rd
  <2>1. <<"merge_exit">> \in Seq(Kinds) /\ "merge_exit" \in ExitKinds
    <3>1. "merge_exit" \in Kinds BY DEF Kinds
    <3> QED BY <3>1 DEF ExitKinds
  <2>2. dq \in Seq(Tasks) BY <1>2, <1>3
  <2>3. Own("merge_exit", t) BY TaskIs DEF Own
  <2>4. Pump("merge", dq, active["merge"], [st EXCEPT ![t] = "queued"], listeners, rd, t,
             <<"merge_exit">>)
    BY <1>2, <2>0 DEF Add
  <2> HIDE DEF t, dq
  <2>5. PICK S, rest, ms :
          Pumped("merge", dq, active["merge"], [st EXCEPT ![t] = "queued"], listeners, rd, t,
                 <<"merge_exit">>, S, rest, ms)
    BY <1>2, <1>3, <2>1, <2>2, <2>4, PumpIs
  <2>6. Life(st', listeners', queue', active', InSeq(rd) \cup InSeq(ms)) /\ Added(t, "merge_exit")
    <3>1. dq \in {Append(queue[QueueOf(t)], t), <<t>> \o queue[QueueOf(t)]} BY <1>2 DEF dq
    <3>2. Pumped(QueueOf(t), dq, active[QueueOf(t)], [st EXCEPT ![t] = "queued"], listeners, rd, t,
                 <<"merge_exit">>, S, rest, ms)
      BY <1>2, <2>5
    <3>3. st[t] \in {"none", "wait"} BY DEF t
    <3> QED BY <3>1, <3>2, <3>3, <1>0, <1>2, <1>3, <1>5, <1>8, <2>1, <2>3, LifeAdd
  <2>7. /\ ready' = rd \o ms /\ ms \in Seq(Callbacks)
        /\ \A d \in InSeq(ms) : d[1] = "merge_started" /\ d[2] \in Tasks
    BY <2>5 DEF Pumped
  <2>8. /\ ready' \in Seq(Callbacks) /\ Single(ready') /\ Pending' = InSeq(rd) \cup InSeq(ms)
        /\ \A e, x : e # "merge_started" => (<<e, x>> \in Pending' <=> <<e, x>> \in InSeq(rd))
        /\ TermCallback \in Pending' <=> TermCallback \in InSeq(rd)
        /\ Stopping \in Pending' <=> Stopping \in InSeq(rd)
        /\ Shapes'
    BY <1>6, <1>7, <2>7, PumpedReady, ZenonT(60) DEF Pending, Shapes
  <2> HIDE DEF Pending
  <2>9. Life(st', listeners', queue', active', Pending') BY <2>6, <2>8
  <2>10. \A e, x : e # "merge_started" /\ x \in Tasks =>
           (<<e, x>> \in Pending' <=> <<e, x>> \in InSeq(rt))
    BY <2>8, <1>7
  <2> HIDE DEF rt
  <2>11. /\ TermCallback \in Pending' => terminated'
         /\ Stopping \in Pending' => Stopping \in Pending
    BY <2>8, <1>6, <1>7
  <2> QED BY <1>10, <2>0, <2>6, <2>8, <2>9, <2>10, <2>11 DEF Built, Added, t, rt
\* It is not.
<1>11. CASE ~ (Mergeable(p) /\ ~Waits(p))
  <2>1. /\ ready' = rd
        /\ waitQueue' = IF Mergeable(p) THEN Append(waitQueue, p) ELSE waitQueue
        /\ st' = IF Mergeable(p) THEN [st EXCEPT ![t] = "wait"] ELSE st
        /\ UNCHANGED <<listeners, queue, active>>
    BY <1>11 DEF rd
  <2>2. Pending' = InSeq(rd) BY <2>1 DEF Pending
  <2>3. Shapes' BY <1>7, <2>2 DEF Shapes
  <2> HIDE DEF Pending, t
  <2>4. /\ st' \in [Tasks -> TaskStates] /\ \A x \in Tasks \ {t} : st'[x] = st[x]
        /\ st'[t] = IF Mergeable(p) THEN "wait" ELSE "none"
    <3>1. CASE Mergeable(p) BY <3>1, <2>1, <1>2, <1>3 DEF TaskStates
    <3>2. CASE ~Mergeable(p) BY <3>2, <2>1, <1>2, <1>3 DEF t
    <3> QED BY <3>1, <3>2
  <2>5. Life(st', listeners', queue', active', Pending')
    <3>1. ASSUME NEW x \in Tasks PROVE TaskLife(x, st', listeners, queue, active, InSeq(rd))
      <4>0. TaskLife(x, st, listeners, queue, active, InSeq(rd)) BY <1>8 DEF Life
      <4>1. CASE x = t
        <5>1. st[x] = "none" /\ st'[x] \in {"none", "wait"} BY <4>1, <2>4 DEF t
        <5>2. st[x] \notin {"queued", "run"} \cup Ended /\ st'[x] \notin {"queued", "run"} \cup Ended
          BY <5>1 DEF Ended
        <5> QED BY <4>0, <5>1, <5>2 DEF TaskLife, Ended
      <4>2. CASE x # t
        <5>1. st'[x] = st[x] BY <4>2, <2>4
        <5> QED BY <4>0, <5>1 DEF TaskLife
      <4> QED BY <4>1, <4>2
    <3> QED BY <3>1, <2>1, <2>2, <1>8 DEF Life
  <2>6. waitQueue' = IF Mergeable(p) /\ Waits(p) THEN Append(waitQueue, p) ELSE waitQueue
    BY <1>11, <2>1
  <2>7. \A e, x : e # "merge_started" /\ x \in Tasks =>
           (<<e, x>> \in Pending' <=> <<e, x>> \in InSeq(rt))
    BY <2>2, <1>7
  <2>8. /\ TermCallback \in Pending' => terminated'
        /\ Stopping \in Pending' => Stopping \in Pending
    BY <2>2, <1>6, <1>7
  <2>9. /\ ready' \in Seq(Callbacks) /\ Single(ready') BY <2>1, <1>6
  <2>10. ready' = Terminated(Tail(ready)) BY <2>1 DEF rd
  <2>11. /\ Mergeable(p) => IF Waits(p) THEN st'[Merge(p)] = "wait" ELSE st'[Merge(p)] \in Live
         /\ ~Mergeable(p) => st'[Merge(p)] = "none"
    BY <1>11, <2>4 DEF t
  <2>12. /\ listeners' \in [Tasks -> Seq(Kinds)]
         /\ queue' \in [Queues -> Seq(Tasks)] /\ active' \in [Queues -> SUBSET Tasks]
         /\ \A x \in Tasks \ {Merge(p)} : \A e \in ExitKinds :
              e \in InSeq(listeners[x]) => e \in InSeq(listeners'[x])
    BY <1>3, <2>1
  <2>13. \A x \in Tasks \ {Merge(p)} : st'[x] = st[x] \/ (st[x] = "queued" /\ st'[x] = "run")
    BY <2>4 DEF t
  <2>14. \A e, x : e # "merge_started" /\ x \in Tasks =>
           (<<e, x>> \in Pending' <=> <<e, x>> \in InSeq(Tail(ready)))
    BY <2>7 DEF rt
  <2> HIDE DEF rt
  <2>15. st' \in [Tasks -> TaskStates] BY <2>4
  <2>16. ~Mergeable(p) => st'[Merge(p)] = "none" /\ ready' = Terminated(Tail(ready)) BY <2>10, <2>11
  <2>17. Mergeable(p) => IF Waits(p) THEN st'[Merge(p)] = "wait" ELSE st'[Merge(p)] \in Live
    BY <2>11
  <2> QED BY <2>3, <2>5, <2>6, <2>8, <2>9, <2>12, <2>13, <2>14, <2>15, <2>16, <2>17 DEF Built
<1> QED BY <1>10, <1>11

\* The exit of a build.
LEMMA BuildExitStep ==
  ASSUME IInv, phase = "loop", ready # <<>>, Head(ready)[1] = "build_exit",
         NEW p, p = Head(ready)[2][2], BuildExit(p)
  PROVE  IInv'
<1> DEFINE c == Head(ready)
           b == Build(p)
           m == Merge(p)
           rt == Tail(ready)
           good == Mergeable(p)
<1>0. /\ ReleaseTokens({p}) /\ BuildOver(p) /\ phase' = "wait"
      /\ running' = (running \ {b}) \cup (IF good THEN {m} ELSE {})
      /\ IF good /\ ~Waits(p)
         THEN /\ Add(Merge(p), "merge_exit", Terminated(Tail(ready)))
              /\ UNCHANGED waitQueue
         ELSE /\ ready' = Terminated(Tail(ready))
              /\ waitQueue' = IF good THEN Append(waitQueue, p) ELSE waitQueue
              /\ st' = IF good THEN [st EXCEPT ![Merge(p)] = "wait"] ELSE st
              /\ UNCHANGED <<listeners, queue, active>>
      /\ UNCHANGED <<pkgQueue, completed, unsatisfied, returnEarly, waitScheduled,
                     flush, flushed, changed, wakeup, mainExit, terminatedTasks,
                     signalled, resume, installed, failedAll>>
      /\ InLife /\ InLife' /\ TypeOK
  BY DEF BuildExit, Waits, diskVars, InLife, IInv
<1>1. /\ rt \in Seq(Callbacks) /\ Single(rt) /\ Pending = {c} \cup InSeq(rt) /\ c \notin InSeq(rt)
      /\ StopLast(ready) => StopLast(rt)
      /\ TermCallback \in InSeq(rt) => terminated
      /\ c = <<"build_exit", c[2]>> /\ c[2] \in Tasks
  BY CallIs
<1>2. "build_exit" \in ExitKinds BY DEF ExitKinds
<1>3. /\ p \in Pkgs /\ c[2] = b /\ b \in Tasks /\ m \in Tasks /\ b # m
      /\ st[b] \in Ended /\ listeners[b] = <<>>
  <2>1. <<"build_exit", c[2]>> \in Pending BY <1>1
  <2>2. /\ st[c[2]] \in Ended /\ listeners[c[2]] = <<>> /\ c[2][1] = "build"
    BY <2>1, <1>0, <1>1, <1>2, ExitOf
  <2> QED BY <2>2, <1>1, TaskIs
<1>4. c = <<"build_exit", b>> BY <1>1, <1>3
<1>5. /\ st[m] = "none" /\ p \notin Uninstalls
  <2>1. <<"build_exit", Build(p)>> \in Pending BY <1>1, <1>4
  <2>2. st[b] # "none" BY <1>3 DEF Ended
  <2> QED BY <2>1, <2>2, <1>0, <1>3 DEF IInv, Course
<1>6. /\ \A x \in Pkgs : /\ Build(x) \in Tasks \ {m} /\ Setup(x) \in Tasks \ {m} /\ Merge(x) \in Tasks
                         /\ Merge(x) # b /\ Setup(x) # b
      /\ \A x \in Pkgs \ {p} : Merge(x) \in Tasks \ {m} /\ Build(x) # b
  BY <1>3, TaskIs
<1>7. terminated' \in BOOLEAN /\ (terminated => terminated')
  <2>1. terminated \in BOOLEAN BY <1>0 DEF TypeOK
  <2>2. terminated' = terminated \/ terminated' = TRUE BY <1>0 DEF ReleaseTokens, JobserverFails
  <2> QED BY <2>1, <2>2
<1>8. Built(p) BY <1>0, <1>3, <1>4, <1>5, <1>7, BuiltIs
<1>9. Life(st, listeners, queue, active, Pending) BY <1>0 DEF IInv, LifeOK
<1>10. /\ st' \in [Tasks -> TaskStates] /\ listeners' \in [Tasks -> Seq(Kinds)]
       /\ queue' \in [Queues -> Seq(Tasks)] /\ active' \in [Queues -> SUBSET Tasks]
       /\ good => IF Waits(p) THEN st'[m] = "wait" ELSE st'[m] \in Live
       /\ ~good => st'[m] = "none" /\ ready' = Terminated(rt)
       /\ waitQueue' = IF good /\ Waits(p) THEN Append(waitQueue, p) ELSE waitQueue
  BY <1>8 DEF Built
<1>11. \A x \in Tasks \ {m} :
           /\ st'[x] \in Live <=> st[x] \in Live
           /\ \A v \in {"none", "wait", "ok", "fail"} : st'[x] = v <=> st[x] = v
           /\ st[x] = "run" => st'[x] = "run"
  BY <1>8, OthersMove DEF Built
<1>12. /\ Life(st', listeners', queue', active', Pending')
       /\ ready' \in Seq(Callbacks) /\ Single(ready') /\ Shapes'
       /\ TermCallback \in Pending' => terminated'
       /\ Stopping \in Pending' => Stopping \in Pending
  BY <1>8 DEF Built
<1>13. \A e, x : e # "merge_started" /\ x \in Tasks =>
         (<<e, x>> \in Pending' <=> <<e, x>> \in Pending /\ <<e, x>> # <<"build_exit", b>>)
  <2>1. \A e, x : e # "merge_started" /\ x \in Tasks =>
         (<<e, x>> \in Pending' <=> <<e, x>> \in InSeq(rt))
    BY <1>8 DEF Built
  <2> QED BY <2>1, <1>1, <1>4
<1>14. \A e \in ExitKinds \cup {"queue_exit"} : e # "merge_started" BY DEF ExitKinds
<1>15. /\ failed' = IF st[b] = "fail" THEN failed \cup {p} ELSE failed
       /\ jobs' = jobs - 1
  BY <1>0 DEF BuildOver
<1>16. good <=> st[b] = "ok" /\ ~terminatedTasks BY DEF Mergeable
<1>17. UnderWay' = UnderWay \ {p} /\ p \in UnderWay
  <2>1. ASSUME NEW x \in Pkgs PROVE listeners'[Build(x)] # <<>> <=> listeners[Build(x)] # <<>>
    <3>1. listeners'[Build(x)] # <<>> <=> st'[Build(x)] \in Live
      BY <1>6, <1>10, <1>12, UnderWayIs
    <3>2. listeners[Build(x)] # <<>> <=> st[Build(x)] \in Live
      <4>1. st \in [Tasks -> TaskStates] BY <1>0 DEF TypeOK, TaskStates
      <4> QED BY <4>1, <1>6, <1>9, UnderWayIs
    <3> QED BY <3>1, <3>2, <1>6, <1>11
  <2>2. ASSUME NEW x \in Pkgs
        PROVE  <<"build_exit", Build(x)>> \in Pending'
                 <=> <<"build_exit", Build(x)>> \in Pending /\ x # p
    <3>1. <<"build_exit", Build(x)>> = <<"build_exit", b>> <=> x = p BY <1>6
    <3> QED BY <3>1, <1>2, <1>6, <1>13, <1>14
  <2>3. <<"build_exit", Build(p)>> \in Pending BY <1>1, <1>4
  <2> HIDE DEF Pending
  <2>4. UnderWay = {x \in Pkgs : listeners[Build(x)] # <<>> \/ <<"build_exit", Build(x)>> \in Pending}
    BY DEF UnderWay, Pending
  <2>5. UnderWay' = {x \in Pkgs : listeners'[Build(x)] # <<>> \/ <<"build_exit", Build(x)>> \in Pending'}
    BY DEF UnderWay, Pending
  <2> QED BY <2>1, <2>2, <2>3, <2>4, <2>5, <1>3
<1> HIDE DEF c, b, m, rt, good, Pending
<1>18. IsFiniteSet(UnderWay) /\ jobs \in Nat /\ jobs = Cardinality(UnderWay) /\ jobs >= 1
  <2>1. IsFiniteSet(UnderWay)
    <3>1. UnderWay \subseteq Pkgs BY DEF UnderWay
    <3> QED BY <3>1, Given, FS_Subset
  <2>2. jobs \in Nat /\ jobs = Cardinality(UnderWay) BY <1>0 DEF TypeOK, IInv, JobAccounting
  <2>3. jobs # 0 BY <2>1, <2>2, <1>17, FS_EmptySet
  <2> QED BY <2>1, <2>2, <2>3
<1>19. /\ TokensKept'
       /\ token' \in [Pkgs -> {"none", "empty", "token"}] /\ server' \in {"none", "up", "dead"}
       /\ implicit' \in BOOLEAN /\ pool' \in 0..Tokens /\ reader' \in {"off", "on", "stale"}
       /\ terminated' => terminated \/ (Jobserver /\ JobserverMayFail)
  <2>1. UnderWay \ {p} \subseteq UnderWay' BY <1>17
  <2>2. TypeOK /\ TokensKept /\ ReleaseTokens({p}) /\ {p} \in SUBSET Pkgs BY <1>0, <1>3 DEF IInv
  <2> QED BY <2>1, <2>2, ReleaseIs
<1>20. /\ waitQueue' \in Seq(Pkgs) /\ Alone(waitQueue')
       /\ InSeq(waitQueue') = InSeq(waitQueue) \cup (IF good /\ Waits(p) THEN {p} ELSE {})
       /\ p \notin InSeq(waitQueue)
  <2>1. waitQueue \in Seq(Pkgs) BY <1>0 DEF TypeOK
  <2>2. Alone(waitQueue) /\ p \notin InSeq(waitQueue) BY <1>0, <1>3, <1>5 DEF IInv, Course, m
  <2>3. CASE good /\ Waits(p)
    <3>1. waitQueue' = Append(waitQueue, p) BY <2>3, <1>10
    <3> QED BY <3>1, <2>1, <2>2, <2>3, <1>3, AppendIs
  <2>4. CASE ~ (good /\ Waits(p))
    <3>1. waitQueue' = waitQueue BY <2>4, <1>10
    <3> QED BY <3>1, <2>1, <2>2, <2>4
  <2> QED BY <2>3, <2>4
<1>21. TypeOK'
  <2>1. running' \subseteq Tasks /\ failed' \subseteq Pkgs
    <3>1. running \subseteq Tasks /\ failed \subseteq Pkgs BY <1>0 DEF TypeOK
    <3>2. running' \subseteq Tasks
      <4>1. running' \subseteq running \cup {m} BY <1>0 DEF b, m, good
      <4> QED BY <4>1, <3>1, <1>3
    <3>3. failed' \subseteq failed \cup {p} BY <1>15
    <3> QED BY <3>1, <3>2, <3>3, <1>3
  <2>2. jobs' \in Nat BY <1>15, <1>18
  <2> QED BY <2>1, <2>2, <1>0, <1>7, <1>10, <1>12, <1>19, <1>20 DEF TypeOK, TaskStates
<1>22. Shapes' /\ Once' BY <1>12 DEF Once
<1>23. LifeOK' BY <1>12 DEF LifeOK
<1>24. Course'
  <2>1. ASSUME NEW x \in InSeq(pkgQueue') PROVE st'[Build(x)] = "none" /\ st'[Merge(x)] = "none"
    <3>1. x \in InSeq(pkgQueue) /\ x \in Pkgs BY <1>0 DEF TypeOK, InSeq
    <3>2. st[Build(x)] = "none" /\ st[Merge(x)] = "none" BY <3>1, <1>0 DEF IInv, Course
    <3>3. x # p BY <3>2, <1>3 DEF b, Ended
    <3> QED BY <3>1, <3>2, <3>3, <1>6, <1>11
  <2>2. ASSUME NEW x \in Pkgs
        PROVE  /\ x \in InSeq(waitQueue') <=> st'[Merge(x)] = "wait"
               /\ st'[Merge(x)] # "none" => x \in Uninstalls \/ st'[Build(x)] = "ok"
               /\ <<"build_exit", Build(x)>> \in Pending' => st'[Merge(x)] = "none"
               /\ x \in Uninstalls => st'[Build(x)] = "none"
               /\ st'[Setup(x)] \in Live => st'[Build(x)] = "run"
    <3>0. /\ x \in InSeq(waitQueue) <=> st[Merge(x)] = "wait"
          /\ st[Merge(x)] # "none" => x \in Uninstalls \/ st[Build(x)] = "ok"
          /\ <<"build_exit", Build(x)>> \in Pending => st[Merge(x)] = "none"
          /\ x \in Uninstalls => st[Build(x)] = "none"
          /\ st[Setup(x)] \in Live => st[Build(x)] = "run"
      BY <1>0 DEF IInv, Course
    <3>1. <<"build_exit", Build(x)>> \in Pending'
            => <<"build_exit", Build(x)>> \in Pending /\ Build(x) # b
      BY <1>2, <1>6, <1>13, <1>14
    <3>2. CASE x # p
      <4>1. Merge(x) \in Tasks \ {m} /\ Build(x) \in Tasks \ {m} /\ Setup(x) \in Tasks \ {m}
        BY <3>2, <1>6
      <4>2. x \in InSeq(waitQueue') <=> x \in InSeq(waitQueue) BY <3>2, <1>20
      <4> QED BY <4>1, <4>2, <3>0, <3>1, <1>11
    <3>3. CASE x = p
      <4>1. Merge(x) = m /\ Build(x) = b BY <3>3 DEF m, b
      <4>2. x \in InSeq(waitQueue') <=> st'[Merge(x)] = "wait"
        <5>1. CASE good /\ Waits(p) BY <5>1, <4>1, <3>3, <1>10, <1>20
        <5>2. CASE good /\ ~Waits(p)
          <6>1. st'[m] # "wait" BY <5>2, <1>10 DEF Live
          <6> QED BY <6>1, <5>2, <4>1, <3>3, <1>20
        <5>3. CASE ~good BY <5>3, <4>1, <3>3, <1>10, <1>20
        <5> QED BY <5>1, <5>2, <5>3
      <4>3. st'[m] # "none" => good BY <1>10
      <4>4. st[b] # "run" BY <1>3 DEF Ended
      <4>5. b \in Tasks \ {m} /\ Setup(x) \in Tasks \ {m} BY <1>3, <1>6
      <4>6. good => st'[b] = "ok" BY <4>5, <1>11, <1>16
      <4>7. st'[Setup(x)] \notin Live BY <4>1, <4>4, <4>5, <3>0, <1>11
      <4> QED BY <4>1, <4>2, <4>3, <4>6, <4>7, <3>1, <3>3, <1>5
    <3> QED BY <3>2, <3>3
  <2> QED BY <2>1, <2>2, <1>0, <1>20 DEF IInv, Course
<1>25. Covered'
  <2>1. ASSUME Orderly, NEW x \in Tasks, x[1] # "setup", st'[x] \in {"wait"} \cup Live
        PROVE  x \in running'
    <3>1. CASE x = m
      <4>1. good BY <2>1, <3>1, <1>10 DEF Live
      <4> QED BY <4>1, <3>1, <1>0 DEF m, good
    <3>2. CASE x # m
      <4>1. st[x] \in {"wait"} \cup Live BY <3>2, <2>1, <1>11
      <4>2. x \in running BY <4>1, <2>1, <1>0 DEF IInv, Covered
      <4>3. x # b BY <4>1, <1>3 DEF Ended, Live
      <4> QED BY <4>2, <4>3, <1>0 DEF b
    <3> QED BY <3>1, <3>2
  <2>2. ASSUME ~terminatedTasks, NEW e \in ExitKinds \ {"setup_exit"}, NEW x \in Tasks,
               <<e, x>> \in Pending'
        PROVE  x \in running'
    <3>1. <<e, x>> \in Pending /\ <<e, x>> # <<"build_exit", b>> BY <2>2, <1>13, <1>14
    <3>2. x \in running BY <3>1, <2>2 DEF IInv, Covered
    <3>3. x # b
      <4> SUFFICES ASSUME x = b PROVE FALSE OBVIOUS
      <4>1. x[1] = "build" BY TaskIs DEF b
      <4>2. e = "build_exit" BY <4>1, <3>1, <1>0, ExitOf
      <4> QED BY <4>2, <3>1
    <3> QED BY <3>2, <3>3, <1>0 DEF b
  <2>3. NeverWaits => waitQueue' = <<>> /\ \A x \in Tasks : st'[x] # "wait"
    <3>1. NeverWaits => ~Waits(p) BY <1>3 DEF NeverWaits, Waits
    <3>2. NeverWaits => waitQueue' = <<>> /\ \A x \in Tasks : st[x] # "wait"
      BY <3>1, <1>10 DEF IInv, Covered
    <3>3. NeverWaits => st'[m] # "wait" BY <3>1, <1>10 DEF Live
    <3> QED BY <3>2, <3>3, <1>11
  <2>4. ASSUME NEW x \in waitScheduled
        PROVE  \/ "wait_exit" \in InSeq(listeners'[Merge(x)])
               \/ <<"wait_exit", Merge(x)>> \in Pending'
    <3>0. x \in Pkgs /\ "wait_exit" \in ExitKinds BY <1>0 DEF TypeOK, ExitKinds
    <3>1. \/ "wait_exit" \in InSeq(listeners[Merge(x)])
          \/ <<"wait_exit", Merge(x)>> \in Pending
      BY DEF IInv, Covered
    <3>2. CASE <<"wait_exit", Merge(x)>> \in Pending BY <3>0, <3>2, <1>6, <1>13, <1>14
    <3>3. CASE "wait_exit" \in InSeq(listeners[Merge(x)])
      <4>1. Merge(x) # m
        <5>1. listeners[m] = <<>> BY <1>3, <1>5, <1>9 DEF Life, TaskLife
        <5>2. InSeq(<<>>) = {} BY DEF InSeq
        <5> QED BY <5>1, <5>2, <3>3
      <4>2. Merge(x) \in Tasks \ {Merge(p)} BY <4>1, <3>0, <1>6 DEF m
      <4> QED BY <4>2, <3>0, <3>3, <1>8 DEF Built
    <3> QED BY <3>1, <3>2, <3>3
  <2> QED BY <2>1, <2>2, <2>3, <2>4, <1>0 DEF IInv, Covered, Orderly
<1>27. JobAccounting'
  <2>1. Cardinality(UnderWay') = Cardinality(UnderWay) - 1 BY <1>17, <1>18, FS_RemoveElement
  <2>2. jobs <= MaxJobs /\ MaxJobs \in Nat BY Given DEF IInv, JobAccounting
  <2> QED BY <2>1, <2>2, <1>15, <1>18 DEF JobAccounting
<1>28. TokensKept' BY <1>19
<1>29. AtStart' BY <1>0 DEF AtStart
<1>30. Signals' BY <1>0, <1>7, <1>12 DEF IInv, Signals, Outside
\* A main loop that ends had no build left, unless the scheduler was terminated.
<1>26. mainExit /\ Orderly => ~good /\ running' = {} /\ terminated
  <2> SUFFICES ASSUME mainExit, Orderly PROVE ~good /\ running' = {} /\ terminated OBVIOUS
  <2>1. running = {} BY DEF IInv, Halting
  <2>2. terminatedTasks
    <3> SUFFICES ASSUME ~terminatedTasks PROVE FALSE OBVIOUS
    <3>1. "build_exit" \in ExitKinds \ {"setup_exit"} BY <1>2
    <3>2. <<"build_exit", b>> \in Pending BY <1>1, <1>4
    <3>3. b \in running BY <3>1, <3>2, <1>3 DEF IInv, Covered
    <3> QED BY <3>3, <2>1
  <2>3. terminated BY <2>2 DEF IInv, Signals
  <2>4. ~good BY <2>2, <1>16
  <2> QED BY <2>1, <2>3, <2>4, <1>0 DEF good
<1>31. Halting'
  <2>1. Orderly => StopLast(ready')
    <3> SUFFICES ASSUME Orderly PROVE StopLast(ready') OBVIOUS
    <3>1. CASE Stopping \in Pending
      <4>1. mainExit BY <3>1 DEF IInv, Signals
      <4>2. ready' = Terminated(rt) BY <4>1, <1>10, <1>26
      <4>3. StopLast(rt) BY <1>1 DEF IInv, Halting
      <4> QED BY <4>2, <4>3, <1>0, <1>1, <1>7, TermIs
    <3>2. CASE Stopping \notin Pending BY <3>2, <1>12, NoStop DEF Pending
    <3> QED BY <3>1, <3>2
  <2>2. mainExit /\ Orderly => running' = {} /\ ~KeepScheduling'
    BY <1>7, <1>26 DEF KeepScheduling
  <2> QED BY <2>1, <2>2, <1>0 DEF Halting, Orderly, Outside, ExitIsQuiet
<1>32. Resumable'
  <2>1. resume \subseteq Pkgs BY <1>0 DEF TypeOK
  <2>2. ASSUME NEW x \in Pkgs PROVE st'[Merge(x)] = "ok" <=> st[Merge(x)] = "ok"
    <3>1. CASE Merge(x) = m
      <4>2. st'[m] # "ok" /\ st[m] # "ok" BY <1>5, <1>10 DEF Live
      <4> QED BY <3>1, <4>2
    <3>2. CASE Merge(x) # m BY <3>2, <1>6, <1>11
    <3> QED BY <3>1, <3>2
  <2>3. \A x \in Pkgs, e \in {"merge_exit", "wait_exit"} :
          <<e, Merge(x)>> \in Pending' <=> <<e, Merge(x)>> \in Pending
    BY <1>6, <1>13
  <2>4. Resumable BY DEF IInv
  <2> QED BY <2>1, <2>2, <2>3, <2>4, <1>0 DEF Resumable
<1>33. Tracked'
  <2>1. resume \subseteq Pkgs BY <1>0 DEF TypeOK
  <2>2. ASSUME ~terminatedTasks, NEW x \in resume
        PROVE  \/ x \in InSeq(pkgQueue) \cup failed'
               \/ \E y \in {Build(x), Merge(x)} :
                    \/ st'[y] \in {"wait"} \cup Live
                    \/ \E e \in ExitKinds : <<e, y>> \in Pending'
    <3>1. CASE x = p
      <4>1. CASE st[b] = "fail" BY <4>1, <3>1, <1>15
      <4>2. CASE st[b] # "fail"
        <5>1. st[b] = "ok" BY <4>2, <1>3 DEF Ended
        <5>2. good BY <5>1, <2>2, <1>16
        <5>3. st'[m] \in {"wait"} \cup Live BY <5>2, <1>10
        <5> QED BY <5>3, <3>1 DEF m
      <4> QED BY <4>1, <4>2
    <3>2. CASE x # p
      <4>1. Build(x) \in Tasks \ {m} /\ Merge(x) \in Tasks \ {m} /\ Build(x) # b /\ Merge(x) # b
        BY <3>2, <2>1, <1>6
      <4>2. \/ x \in InSeq(pkgQueue) \cup failed
            \/ \E y \in {Build(x), Merge(x)} :
                 \/ st[y] \in {"wait"} \cup Live
                 \/ \E e \in ExitKinds : <<e, y>> \in Pending
        <5>1. phase \notin {"start", "done", "raised"} OBVIOUS
        <5> QED BY <5>1, <2>2 DEF IInv, Tracked
      <4>3. \A y \in {Build(x), Merge(x)} :
               /\ st[y] \in {"wait"} \cup Live => st'[y] \in {"wait"} \cup Live
               /\ \A e \in ExitKinds : <<e, y>> \in Pending => <<e, y>> \in Pending'
        BY <4>1, <1>11, <1>13, <1>14
      <4>4. failed \subseteq failed' BY <1>15
      <4> QED BY <4>2, <4>3, <4>4
    <3> QED BY <3>1, <3>2
  <2> QED BY <2>2, <1>0 DEF Tracked
<1>34. Ordered' BY <1>0, <1>6, <1>11 DEF IInv, Ordered
<1>35. Apart'
  <2>1. ASSUME NEW x \in Pkgs \ {p} PROVE st'[Merge(x)] \in Live <=> st[Merge(x)] \in Live
    BY <1>6, <1>11
  <2>2. IsSystem(p) => st'[m] \notin Live BY <1>10 DEF Waits, Live
  <2>3. ~flushed => waitScheduled = {} BY <1>18 DEF IInv, Apart
  <2>4. \A x \in Pkgs : IsSystem(x) /\ st'[Merge(x)] \in Live => st[Merge(x)] \in Live
    BY <2>1, <2>2 DEF m
  <2> QED BY <2>3, <2>4, <1>0 DEF IInv, Apart
<1>36. Reports' BY <1>0, <1>19 DEF IInv, Reports
<1> QED BY <1>21, <1>22, <1>23, <1>24, <1>25, <1>27, <1>28, <1>29, <1>30, <1>31, <1>32,
           <1>33, <1>34, <1>35, <1>36 DEF IInv

-----------------------------------------------------------------------------
(* The check for termination                                               *)

\* _termination_check with _terminate_tasks.
LEMMA TerminationCheckStep ==
  ASSUME IInv, phase = "loop", ready # <<>>, Head(ready)[1] = "term", TerminationCheck
  PROVE  IInv'
<1> DEFINE c == Head(ready)
           rt == Tail(ready)
           dead == {t \in running : ~Alive(t)}
           ps == {p \in Pkgs : Build(p) \in dead}
<1>0. /\ terminatedTasks' = TRUE /\ ReleaseTokens(ps) /\ running' = running \ dead
      /\ st' = [t \in Tasks |-> IF t \in InSeq(Cancelled) THEN "fail" ELSE st[t]]
      /\ queue' = [q \in Queues |-> <<>>]
      /\ ready' = Terminated(rt \o Called)
      /\ listeners' = [t \in Tasks |-> IF t \in InSeq(Cancelled) THEN <<>> ELSE listeners[t]]
      /\ UNCHANGED <<pkgQueue, completed, failed, unsatisfied, returnEarly, jobs, waitQueue,
                     waitScheduled, flush, flushed, active, phase, changed, wakeup, mainExit,
                     signalled, resume, installed, failedAll>>
      /\ TypeOK /\ InLife /\ InLife'
  BY DEF TerminationCheck, Cancelled, Called, planVars, waitVars, diskVars, IInv, InLife
<1>1. /\ rt \in Seq(Callbacks) /\ Single(rt) /\ Pending = {c} \cup InSeq(rt) /\ c \notin InSeq(rt)
      /\ StopLast(ready) => StopLast(rt)
      /\ c = TermCallback
  BY CallIs DEF TermCallback
<1>2. terminated /\ terminated' = TRUE
  <2>1. terminated /\ terminated \in BOOLEAN BY <1>0, <1>1 DEF IInv, Signals, TypeOK
  <2> QED BY <2>1, <1>0 DEF ReleaseTokens, JobserverFails
<1>3. ready' = rt \o Called BY <1>0, <1>2 DEF Terminated
<1>4. Life(st, listeners, queue, active, Pending) BY <1>0 DEF IInv, LifeOK
<1>5. \A x \in Tasks : \A e : <<e, x>> \in InSeq(rt) <=> <<e, x>> \in Pending BY <1>1, Others
<1>6. Life(st, listeners, queue, active, InSeq(rt)) BY <1>4, <1>5, LifeReady
<1> HIDE DEF c, rt, dead, ps, Pending
<1>7. /\ InSeq(Cancelled) = {t \in Tasks : st[t] = "queued"}
      /\ Called \in Seq(Callbacks) /\ Single(Called)
      /\ \A d \in InSeq(Called) :
           /\ d[2] \in Tasks /\ st[d[2]] = "queued" /\ d[1] \in ExitKinds
           /\ listeners[d[2]] = <<d[1]>> /\ d = <<d[1], d[2]>>
      /\ \A t \in Tasks : \A k : st[t] = "queued" /\ listeners[t] = <<k>> => <<k, t>> \in InSeq(Called)
  BY <1>0, <1>6, CancelledIs
<1>8. /\ Life(st', listeners', queue', active', InSeq(rt) \cup InSeq(Called))
      /\ \A d \in InSeq(Called) : d \notin InSeq(rt)
  BY <1>0, <1>6, LifeCancel
<1>9. /\ ready' \in Seq(Callbacks) /\ Single(ready') /\ Pending' = InSeq(rt) \cup InSeq(Called)
  BY <1>1, <1>3, <1>7, <1>8, ConcatIs, SingleConcat DEF Pending
<1>10. /\ st \in [Tasks -> TaskStates] /\ listeners \in [Tasks -> Seq(Kinds)]
       /\ active \in [Queues -> SUBSET Tasks] /\ running \subseteq Tasks
       /\ waitScheduled \subseteq Pkgs /\ resume \subseteq Pkgs
  BY <1>0 DEF TypeOK, TaskStates
<1>11. /\ \A x \in Tasks : st[x] = "queued" => st'[x] = "fail" /\ listeners'[x] = <<>>
       /\ \A x \in Tasks : st[x] # "queued" => st'[x] = st[x] /\ listeners'[x] = listeners[x]
  BY <1>0, <1>7
<1>12. /\ st' \in [Tasks -> TaskStates] /\ listeners' \in [Tasks -> Seq(Kinds)]
       /\ queue' \in [Queues -> Seq(Tasks)] /\ active' \in [Queues -> SUBSET Tasks]
  <2>1. <<>> \in Seq(Kinds) /\ <<>> \in Seq(Tasks) /\ "fail" \in TaskStates BY DEF TaskStates
  <2>2. \A x \in Tasks : st'[x] \in TaskStates /\ listeners'[x] \in Seq(Kinds)
    BY <2>1, <1>10, <1>11
  <2> QED BY <2>1, <2>2, <1>0, <1>10
<1>13. \A x \in Tasks :
         /\ st'[x] \in Live => st'[x] = "run" /\ st[x] = "run"
         /\ \A v \in {"none", "wait", "ok", "run"} : st'[x] = v <=> st[x] = v
         /\ st[x] = "fail" => st'[x] = "fail"
  BY <1>11 DEF Live
<1>14. \A x \in Tasks : \A e : <<e, x>> \in Pending => <<e, x>> \in Pending' BY <1>5, <1>9
<1>15. ASSUME NEW x \in Tasks, NEW e, <<e, x>> \in Pending', <<e, x>> \notin Pending
       PROVE  st[x] = "queued" /\ listeners[x] = <<e>> /\ e \in ExitKinds
  <2>1. <<e, x>> \in InSeq(Called) BY <1>5, <1>9, <1>15
  <2>2. <<e, x>>[1] = e /\ <<e, x>>[2] = x OBVIOUS
  <2> QED BY <2>1, <2>2, <1>7
<1>16. \A x \in Pkgs : Build(x) \in Tasks /\ Merge(x) \in Tasks /\ Setup(x) \in Tasks BY TaskIs
<1>17. ASSUME NEW x \in Tasks, NEW e \in ExitKinds, e \in InSeq(listeners[x]), st[x] = "queued"
       PROVE  <<e, x>> \in Pending'
  <2>1. PICK k : listeners[x] = <<k>> BY <1>6, <1>17 DEF Life, TaskLife
  <2>2. InSeq(<<k>>) = {k} BY DEF InSeq
  <2>3. e = k BY <2>1, <2>2, <1>17
  <2> QED BY <2>1, <2>3, <1>7, <1>9, <1>17
<1>18. UnderWay' = UnderWay
  <2>1. ASSUME NEW x \in Pkgs
        PROVE  (listeners'[Build(x)] # <<>> \/ <<"build_exit", Build(x)>> \in Pending')
                 <=> (listeners[Build(x)] # <<>> \/ <<"build_exit", Build(x)>> \in Pending)
    <3>1. CASE st[Build(x)] = "queued"
      <4>1. PICK k \in ExitKinds : Own(k, Build(x)) /\ listeners[Build(x)] = <<k>>
        BY <3>1, <1>6, <1>16 DEF Life, TaskLife
      <4>2. k = "build_exit" BY <4>1, TaskIs DEF Own
      <4>3. <<"build_exit", Build(x)>> \in Pending' BY <3>1, <4>1, <4>2, <1>7, <1>9, <1>16
      <4>4. <<k>> # <<>> OBVIOUS
      <4> QED BY <4>1, <4>3, <4>4
    <3>2. CASE st[Build(x)] # "queued"
      <4>1. listeners'[Build(x)] = listeners[Build(x)] BY <3>2, <1>11, <1>16
      <4>2. <<"build_exit", Build(x)>> \in Pending' <=> <<"build_exit", Build(x)>> \in Pending
        BY <3>2, <1>14, <1>15, <1>16
      <4> QED BY <4>1, <4>2
    <3> QED BY <3>1, <3>2
  <2> QED BY <2>1 DEF UnderWay, Pending
<1>19. /\ TokensKept'
       /\ token' \in [Pkgs -> {"none", "empty", "token"}] /\ server' \in {"none", "up", "dead"}
       /\ implicit' \in BOOLEAN /\ pool' \in 0..Tokens /\ reader' \in {"off", "on", "stale"}
  <2>1. UnderWay \ ps \subseteq UnderWay' BY <1>18
  <2>2. TypeOK /\ TokensKept /\ ReleaseTokens(ps) /\ ps \in SUBSET Pkgs BY <1>0 DEF IInv, ps
  <2> QED BY <2>1, <2>2, ReleaseIs
<1>20. Orderly' => Orderly /\ NeverWaits BY <1>0 DEF Orderly
<1>21. TypeOK'
  <2>1. running' \subseteq Tasks BY <1>0, <1>10
  <2> QED BY <2>1, <1>0, <1>2, <1>9, <1>12, <1>19 DEF TypeOK, TaskStates
<1>22. Shapes' /\ Once'
  <2>1. ASSUME NEW d \in Pending'
        PROVE  \/ d[1] \in {"term", "stop"} /\ d[2] = <<>>
               \/ d[1] \notin {"term", "stop"} /\ d[2] \in Tasks
    <3>1. CASE d \in InSeq(rt) BY <3>1, <1>1 DEF IInv, Shapes
    <3>2. CASE d \in InSeq(Called) BY <3>2, <1>7 DEF ExitKinds
    <3> QED BY <3>1, <3>2, <1>9
  <2> QED BY <2>1, <1>9 DEF Shapes, Once
<1>23. LifeOK' BY <1>8, <1>9 DEF LifeOK
<1>24. Course'
  <2>1. ASSUME NEW x \in InSeq(pkgQueue') PROVE st'[Build(x)] = "none" /\ st'[Merge(x)] = "none"
    <3>1. x \in InSeq(pkgQueue) /\ x \in Pkgs BY <1>0 DEF TypeOK, InSeq
    <3>2. st[Build(x)] = "none" /\ st[Merge(x)] = "none" BY <3>1, <1>0 DEF IInv, Course
    <3> QED BY <3>1, <3>2, <1>13, <1>16
  <2>2. ASSUME NEW x \in Pkgs
        PROVE  /\ x \in InSeq(waitQueue) <=> st'[Merge(x)] = "wait"
               /\ st'[Merge(x)] # "none" => x \in Uninstalls \/ st'[Build(x)] = "ok"
               /\ <<"build_exit", Build(x)>> \in Pending' => st'[Merge(x)] = "none"
               /\ x \in Uninstalls => st'[Build(x)] = "none"
               /\ st'[Setup(x)] \in Live => st'[Build(x)] = "run"
    <3>0. /\ x \in InSeq(waitQueue) <=> st[Merge(x)] = "wait"
          /\ st[Merge(x)] # "none" => x \in Uninstalls \/ st[Build(x)] = "ok"
          /\ <<"build_exit", Build(x)>> \in Pending => st[Merge(x)] = "none"
          /\ x \in Uninstalls => st[Build(x)] = "none"
          /\ st[Setup(x)] \in Live => st[Build(x)] = "run"
      BY <1>0 DEF IInv, Course
    <3>1. ASSUME <<"build_exit", Build(x)>> \in Pending' PROVE st[Merge(x)] = "none"
      <4>1. CASE <<"build_exit", Build(x)>> \in Pending BY <4>1, <3>0
      <4>2. CASE <<"build_exit", Build(x)>> \notin Pending
        <5>1. st[Build(x)] = "queued" BY <4>2, <3>1, <1>15, <1>16
        <5> QED BY <5>1, <3>0
      <4> QED BY <4>1, <4>2
    <3>2. st'[Setup(x)] \in Live => st[Setup(x)] \in Live BY <1>13, <1>16 DEF Live
    <3> QED BY <3>0, <3>1, <3>2, <1>13, <1>16
  <2> QED BY <2>1, <2>2, <1>0 DEF IInv, Course
<1>25. Covered'
  <2>1. ASSUME Orderly', NEW x \in Tasks, x[1] # "setup", st'[x] \in {"wait"} \cup Live
        PROVE  x \in running'
    <3>1. st'[x] # "wait" BY <2>1, <1>13, <1>20 DEF IInv, Covered
    <3>2. st[x] = "run" BY <3>1, <2>1, <1>13
    <3>3. x \in running BY <3>2, <2>1, <1>0, <1>20 DEF IInv, Covered, Live
    <3> QED BY <3>2, <3>3, <1>0 DEF dead, Alive
  <2>2. ASSUME NEW x \in waitScheduled
        PROVE  \/ "wait_exit" \in InSeq(listeners'[Merge(x)])
               \/ <<"wait_exit", Merge(x)>> \in Pending'
    <3>0. x \in Pkgs /\ "wait_exit" \in ExitKinds BY <1>10 DEF ExitKinds
    <3>1. \/ "wait_exit" \in InSeq(listeners[Merge(x)])
          \/ <<"wait_exit", Merge(x)>> \in Pending
      BY DEF IInv, Covered
    <3>2. CASE <<"wait_exit", Merge(x)>> \in Pending BY <3>0, <3>2, <1>14, <1>16
    <3>3. CASE "wait_exit" \in InSeq(listeners[Merge(x)]) /\ st[Merge(x)] = "queued"
      BY <3>0, <3>3, <1>16, <1>17
    <3>4. CASE "wait_exit" \in InSeq(listeners[Merge(x)]) /\ st[Merge(x)] # "queued"
      BY <3>0, <3>4, <1>11, <1>16
    <3> QED BY <3>1, <3>2, <3>3, <3>4
  <2>3. NeverWaits => waitQueue = <<>> /\ waitScheduled = {} /\ \A x \in Tasks : st'[x] # "wait"
    BY <1>13 DEF IInv, Covered
  <2> QED BY <2>1, <2>2, <2>3, <1>0 DEF Covered
<1>26. JobAccounting' BY <1>0, <1>18 DEF IInv, JobAccounting
<1>27. AtStart' BY <1>0 DEF AtStart
<1>29. Stopping \in Pending' => Stopping \in Pending /\ mainExit
  <2>1. Stopping \notin InSeq(Called)
    <3> SUFFICES ASSUME Stopping \in InSeq(Called) PROVE FALSE OBVIOUS
    <3>1. Stopping[2] \in Tasks /\ Stopping = <<Stopping[1], Stopping[2]>> BY <1>7
    <3> QED BY <3>1, Others
  <2> QED BY <2>1, <1>1, <1>9 DEF IInv, Signals
<1>30. Signals' BY <1>0, <1>2, <1>29 DEF Signals, Outside
<1>31. Halting'
  <2>1. Orderly' => StopLast(ready')
    <3> SUFFICES ASSUME Orderly' PROVE StopLast(ready') OBVIOUS
    <3>1. CASE Stopping \in Pending
      <4>1. mainExit BY <3>1 DEF IInv, Signals
      <4>2. \A x \in Tasks : st[x] # "queued" BY <4>1, <1>0, <1>20, Still DEF Live
      <4>3. \A d : d \notin InSeq(Called) BY <4>2, <1>7
      <4>4. Called = <<>>
        <5> SUFFICES ASSUME Called # <<>> PROVE FALSE OBVIOUS
        <5>1. Head(Called) \in InSeq(Called) BY <1>7, TailIs
        <5> QED BY <5>1, <4>3
      <4>5. ready' = rt BY <4>4, <1>1, <1>3
      <4>6. StopLast(ready) BY <1>20 DEF IInv, Halting
      <4> QED BY <4>5, <4>6, <1>1
    <3>2. CASE Stopping \notin Pending BY <3>2, <1>29, NoStop DEF Pending
    <3> QED BY <3>1, <3>2
  <2>2. mainExit /\ Orderly' => running' = {} /\ ~KeepScheduling'
    <3>1. mainExit /\ Orderly' => running = {} BY <1>20 DEF IInv, Halting
    <3> QED BY <3>1, <1>0, <1>2 DEF KeepScheduling
  <2> QED BY <2>1, <2>2, <1>0 DEF Halting, Outside, ExitIsQuiet
<1>32. Resumable' BY <1>0, <1>10, <1>13, <1>14, <1>16 DEF IInv, Resumable
<1>33. Tracked' BY <1>0 DEF Tracked
<1>34. Ordered'
  <2>1. \A x \in Pkgs : st'[Build(x)] \in Live => st[Build(x)] \in Live BY <1>13, <1>16 DEF Live
  <2> QED BY <2>1, <1>0 DEF IInv, Ordered
<1>35. Apart'
  <2>1. \A x \in Pkgs : st'[Merge(x)] \in Live => st[Merge(x)] \in Live BY <1>13, <1>16 DEF Live
  <2> QED BY <2>1, <1>0, <1>10 DEF IInv, Apart
<1>36. Reports' BY <1>0, <1>2 DEF IInv, Reports
<1> QED BY <1>19, <1>21, <1>22, <1>23, <1>24, <1>25, <1>26, <1>27, <1>30, <1>31, <1>32,
           <1>33, <1>34, <1>35, <1>36 DEF IInv

-----------------------------------------------------------------------------
(* Every step                                                              *)

\* What _schedule_tasks does between the starts of two tasks, and the events that
\* only call it.
LEMMA PhaseOnlyStep ==
  ASSUME IInv,
         \/ UnblockJobs \/ MergeWakeup \/ ScheduleTasks \/ StopScheduling \/ ChooseNone
         \/ Transfer /\ BatchEnds
  PROVE  IInv'
<1> USE DEF planVars, jobVars, waitVars, termVars, tokenVars, diskVars, InLoop
<1>0. TypeOK BY DEF IInv
<1>1. /\ flush \in BOOLEAN /\ wakeup \in BOOLEAN /\ changed \in BOOLEAN
      /\ returnEarly \in BOOLEAN /\ reader \in {"off", "on", "stale"}
  BY <1>0 DEF TypeOK
<1>2. flush => flushed BY DEF IInv, Apart
<1>3. CASE UnblockJobs
  <2>1. phase = "loop" /\ phase' = "wait" /\ reader' = "off" BY <1>3 DEF UnblockJobs
  <2>2. UNCHANGED <<pkgQueue, completed, failed, unsatisfied, jobVars, waitQueue,
                    waitScheduled, flushed, taskVars, ready, mainExit, termVars, server,
                    implicit, pool, token, diskVars, flush, wakeup, changed, returnEarly>>
    BY <1>3 DEF UnblockJobs
  <2> QED BY <1>1, <2>1, <2>2, PhaseStep
<1>4. CASE MergeWakeup
  <2>1. phase = "loop" /\ phase' \in {"loop", "wait"} /\ wakeup' = FALSE
    BY <1>4 DEF MergeWakeup
  <2>2. UNCHANGED <<pkgQueue, completed, failed, unsatisfied, jobVars, waitQueue,
                    waitScheduled, flushed, taskVars, ready, mainExit, termVars, server,
                    implicit, pool, token, diskVars, flush, changed, returnEarly, reader>>
    BY <1>4 DEF MergeWakeup
  <2> QED BY <1>1, <2>1, <2>2, PhaseStep
<1>5. CASE ScheduleTasks
  <2>1. phase = "wait" /\ phase' \in {"imp", "transfer"} /\ changed' = FALSE
    BY <1>5 DEF ScheduleTasks
  <2>2. UNCHANGED <<pkgQueue, completed, failed, unsatisfied, jobVars, waitQueue,
                    waitScheduled, flushed, taskVars, ready, mainExit, termVars, server,
                    implicit, pool, token, diskVars, wakeup, returnEarly, reader>>
    BY <1>5 DEF ScheduleTasks
  <2>3. flush' = FALSE \/ flush' = flush BY <1>5 DEF ScheduleTasks
  <2>4. phase' = "transfer" => flushed \/ (jobs = 0 /\ ~Busy("merge"))
    BY <1>2, <1>5 DEF ScheduleTasks
  <2>5. flush' \in BOOLEAN /\ (flush' => flush)
    <3>1. CASE flush' = FALSE BY <3>1
    <3>2. CASE flush' = flush BY <3>2, <1>1
    <3> QED BY <2>3, <3>1, <3>2
  <2>6. /\ phase \in {"loop", "wait", "transfer", "imp", "tail"}
        /\ phase' \in {"loop", "wait", "transfer", "imp", "tail"}
        /\ wakeup' \in BOOLEAN /\ changed' \in BOOLEAN /\ returnEarly' \in BOOLEAN
        /\ reader' \in {"off", "on", "stale"}
    BY <1>1, <2>1, <2>2
  <2>7. UNCHANGED <<pkgQueue, completed, failed, unsatisfied, jobVars, waitQueue,
                    waitScheduled, flushed, taskVars, ready, mainExit, termVars, server,
                    implicit, pool, token, diskVars>>
    BY <2>2
  <2> QED BY <2>4, <2>5, <2>6, <2>7, PhaseStep
<1>6. CASE StopScheduling
  <2>1. phase = "imp" /\ phase' = "tail" BY <1>6 DEF StopScheduling
  <2>2. UNCHANGED <<pkgQueue, completed, failed, unsatisfied, jobVars, waitQueue,
                    waitScheduled, flushed, taskVars, ready, mainExit, termVars, server,
                    implicit, pool, token, diskVars, flush, changed, wakeup, returnEarly, reader>>
    BY <1>6 DEF StopScheduling
  <2> QED BY <1>1, <2>1, <2>2, PhaseStep
<1>7. CASE ChooseNone
  <2>1. phase = "imp" /\ phase' = "tail" /\ returnEarly' = TRUE
    BY <1>7 DEF ChooseNone, MayChoose
  <2>2. UNCHANGED <<pkgQueue, completed, failed, unsatisfied, jobVars, waitQueue,
                    waitScheduled, flushed, taskVars, ready, mainExit, termVars, server,
                    implicit, pool, token, diskVars, flush, changed, wakeup, reader>>
    BY <1>7 DEF ChooseNone
  <2> QED BY <1>1, <2>1, <2>2, PhaseStep
<1>8. CASE Transfer /\ BatchEnds
  <2>1. phase = "transfer" /\ phase' = "imp" BY <1>8 DEF Transfer
  <2>2. UNCHANGED <<pkgQueue, completed, failed, unsatisfied, jobVars, waitQueue,
                    waitScheduled, flushed, taskVars, ready, mainExit, termVars, server,
                    implicit, pool, token, diskVars, flush, changed, wakeup, returnEarly, reader>>
    BY <1>8 DEF Transfer
  <2> QED BY <1>1, <2>1, <2>2, PhaseStep
<1> QED BY <1>3, <1>4, <1>5, <1>6, <1>7, <1>8

\* The event loop calls its first callback.
LEMMA RunCallbackStep == ASSUME IInv, RunCallback PROVE IInv'
<1> DEFINE k == Head(ready)[1]
           t == Head(ready)[2]
<1>0. phase = "loop" /\ ready # <<>> BY DEF RunCallback, InLoop
<1>1. CASE k = "queue_exit" /\ QueueExit(t) BY <1>0, <1>1, QueueExitStep
<1>2. CASE k = "build_exit" /\ BuildExit(t[2]) BY <1>0, <1>2, BuildExitStep
<1>3. CASE k = "merge_exit" /\ MergeExit(t[2], FALSE) BY <1>0, <1>3, MergeExitStep
<1>4. CASE k = "wait_exit" /\ MergeExit(t[2], TRUE) BY <1>0, <1>4, MergeExitStep
<1>5. CASE k = "setup_exit" /\ SetupExit BY <1>0, <1>5, SetupExitStep
<1>6. CASE k = "merge_started" /\ SystemMergeStarted(t[2]) BY <1>0, <1>6, SystemMergeStartedStep
<1>7. CASE k = "term" /\ TerminationCheck BY <1>0, <1>7, TerminationCheckStep
<1>8. CASE k = "stop" /\ Stop BY <1>0, <1>8, StopStep
<1> QED BY <1>1, <1>2, <1>3, <1>4, <1>5, <1>6, <1>7, <1>8 DEF RunCallback

\* A step of _schedule_tasks.
LEMMA ScheduleStep == ASSUME IInv, Schedule PROVE IInv'
<1>1. CASE Transfer
  <2>1. CASE BatchEnds BY <1>1, <2>1, PhaseOnlyStep
  <2>2. CASE ~BatchEnds
    <3>1. TransferAdd BY <1>1, <2>2 DEF Transfer, TransferAdd
    <3> QED BY <3>1, TransferAddStep
  <2> QED BY <2>1, <2>2
<1>2. CASE ScheduleTasks \/ StopScheduling \/ ChooseNone BY <1>2, PhaseOnlyStep
<1>3. CASE StartUninstall BY <1>3, StartUninstallStep
<1>4. CASE StartBuild BY <1>4, StartBuildStep
<1>5. CASE NoToken BY <1>5, NoTokenStep
<1>6. CASE EndIteration BY <1>6, EndIterationStep
<1> QED BY <1>1, <1>2, <1>3, <1>4, <1>5, <1>6 DEF Schedule

\* A step of merge() between main loops.
LEMMA MainStep == ASSUME IInv, Main PROVE IInv'
<1>1. CASE Start BY <1>1, StartStep
<1>2. CASE Finish BY <1>2, FinishStep
<1>3. CASE RemoveRaises BY <1>3, RemoveRaisesStep
<1>4. ASSUME NEW dropped \in SUBSET (resume \ failed), KeepGoingRound(dropped) PROVE IInv'
  BY <1>4, KeepGoingStep
<1> QED BY <1>1, <1>2, <1>3, <1>4 DEF Main

\* A step of the builds, the merges, the signals or the other users of tokens.
LEMMA EnvStep == ASSUME IInv, Env PROVE IInv'
<1>1. ASSUME NEW t \in Tasks, NEW result \in {"ok", "fail"}, EndTask(t, result) PROVE IInv'
  BY <1>1, EndTaskStep
<1>2. ASSUME NEW p \in Pkgs, ScheduleSetup(p) PROVE IInv'
  BY <1>2, ScheduleSetupStep
<1>3. CASE Signal BY <1>3, SignalStep
<1>4. CASE Flush BY <1>4, FlushStep
<1>5. CASE OtherClient BY <1>5, OtherClientStep
<1>6. CASE UnblockJobs \/ MergeWakeup BY <1>6, PhaseOnlyStep
<1> QED BY <1>1, <1>2, <1>3, <1>4, <1>5, <1>6 DEF Env

\* Nothing changes.
LEMMA StutterStep == ASSUME IInv, UNCHANGED vars PROVE IInv'
<1> USE DEF vars, planVars, jobVars, waitVars, taskVars, loopVars, termVars, tokenVars, diskVars
<1> SUFFICES ASSUME TRUE PROVE IInv' OBVIOUS
<1>1. TypeOK' BY DEF IInv, TypeOK
<1>2. Shapes' /\ Once' BY DEF IInv, Shapes, Once, Pending, Single
<1>3. LifeOK' BY DEF IInv, LifeOK, InLife, Pending
<1>4. Course' BY DEF IInv, Course, InLife, Pending
<1>5. Covered' BY DEF IInv, Covered, InLife, Pending, Orderly, NeverWaits
<1>6. JobAccounting' BY DEF IInv, JobAccounting, UnderWay
<1>7. TokensKept' BY DEF IInv, TokensKept, Held, UnderWay
<1>8. AtStart' BY DEF IInv, AtStart, Init
<1>9. Signals' /\ Halting'
  BY DEF IInv, Signals, Halting, Pending, Outside, Orderly, NeverWaits, KeepScheduling, ExitIsQuiet,
         Busy, Alive
<1>10. Resumable' BY DEF IInv, Resumable, InLife, Pending
<1>11. Tracked' BY DEF IInv, Tracked, Pending
<1>12. Ordered' BY DEF IInv, Ordered, InLife
<1>13. Apart' /\ Reports' BY DEF IInv, Apart, Reports
<1> QED BY <1>1, <1>2, <1>3, <1>4, <1>5, <1>6, <1>7, <1>8, <1>9, <1>10, <1>11, <1>12, <1>13
        DEF IInv

\* The invariant is inductive.
LEMMA NextStep == ASSUME IInv, [Next]_vars PROVE IInv'
<1>1. CASE Main BY <1>1, MainStep
<1>2. CASE Schedule BY <1>2, ScheduleStep
<1>3. CASE RunCallback BY <1>3, RunCallbackStep
<1>4. CASE Env BY <1>4, EnvStep
<1>5. CASE UNCHANGED vars BY <1>5, StutterStep
<1> QED BY <1>1, <1>2, <1>3, <1>4, <1>5 DEF Next, Terminating

\* The invariant holds at the start.
LEMMA InitStep == ASSUME Init PROVE IInv
<1>1. TypeOK
  <2>1. /\ pkgQueue = <<>> /\ waitQueue = <<>> /\ ready = <<>>
        /\ \A S : <<>> \in Seq(S)
    BY DEF Init
  <2>2. pool \in 0..Tokens BY Given DEF Init
  <2>3. resume \subseteq Pkgs
    <3>1. \A i \in 1..Len(MergeList) : MergeList[i] \in Pkgs BY Given
    <3> QED BY <3>1 DEF Init
  <2>4. /\ listeners \in [Tasks -> Seq(Kinds)] /\ queue \in [Queues -> Seq(Tasks)]
        /\ active \in [Queues -> SUBSET Tasks]
        /\ st \in [Tasks -> {"none", "wait", "queued", "run", "ok", "fail"}]
        /\ token \in [Pkgs -> {"none", "empty", "token"}]
    BY <2>1 DEF Init
  <2>5. /\ {flush, flushed, changed, wakeup, mainExit, terminated, terminatedTasks,
            signalled, implicit} \subseteq BOOLEAN
        /\ returnEarly \in BOOLEAN /\ jobs \in Nat /\ running \subseteq Tasks
        /\ phase \in {"start", "loop", "wait", "transfer", "imp", "tail", "exited",
                      "done", "raised"}
        /\ server \in {"none", "up", "dead"} /\ reader \in {"off", "on", "stale"}
    BY DEF Init
  <2>6. /\ completed \subseteq Pkgs /\ failed \subseteq Pkgs
        /\ failedAll \subseteq Pkgs /\ unsatisfied \subseteq Pkgs
        /\ installed \subseteq Pkgs /\ waitScheduled \subseteq Pkgs
    BY DEF Init
  <2> QED BY <2>1, <2>2, <2>3, <2>4, <2>5, <2>6 DEF TypeOK
<1>2. Pending = {} /\ InSeq(pkgQueue) = {} /\ InSeq(waitQueue) = {} BY DEF Init, Pending, InSeq
<1>3. Alone(pkgQueue) /\ Alone(waitQueue) /\ Single(ready) /\ StopLast(ready)
  BY DEF Init, Alone, Single, StopLast
<1>4. LifeOK
  <2>1. \A q \in Queues : queue[q] = <<>> /\ active[q] = {} BY DEF Init
  <2>2. \A q \in Queues : Alone(queue[q]) /\ InSeq(queue[q]) = {} BY <2>1 DEF Alone, InSeq
  <2>3. \A t \in Tasks : st[t] = "none" /\ listeners[t] = <<>> BY DEF Init
  <2>4. \A t \in Tasks : TaskLife(t, st, listeners, queue, active, Pending)
    BY <2>1, <2>2, <2>3, <1>2, QueueIs DEF TaskLife, Ended
  <2> QED BY <2>2, <2>4 DEF LifeOK, Life
<1>5. Shapes /\ Once BY <1>2, <1>3 DEF Shapes, Once
<1>6. \A p \in Pkgs : /\ st[Build(p)] = "none" /\ st[Merge(p)] = "none" /\ st[Setup(p)] = "none"
                      /\ listeners[Build(p)] = <<>> /\ token[p] = "none"
  BY TaskIs DEF Init
<1>7. Course BY <1>2, <1>3, <1>6 DEF Course, Live
<1>8. Covered
  <2>1. waitQueue = <<>> /\ waitScheduled = {} /\ ~terminatedTasks
        /\ \A t \in Tasks : st[t] \notin {"wait"} \cup Live
    BY DEF Init, Live
  <2> QED BY <2>1, <1>2 DEF Covered
<1>9. JobAccounting
  <2>1. UnderWay = {} BY <1>2, <1>6 DEF UnderWay, Pending
  <2> QED BY <2>1, FS_EmptySet, Given DEF JobAccounting, Init
<1>10. TokensKept
  <2>1. Held = {} /\ {p \in Pkgs : token[p] # "none"} = {} BY <1>6 DEF Held
  <2> QED BY <2>1, FS_EmptySet, Given DEF TokensKept, Init
<1>11. AtStart BY DEF AtStart
<1>12. Signals BY <1>2 DEF Signals, Init
<1>13. Halting
  <2>1. ~mainExit /\ ~Outside /\ phase = "start" BY DEF Init, Outside
  <2> QED BY <2>1, <1>3 DEF Halting, ExitIsQuiet
<1>14. Resumable BY <1>2, <1>6 DEF Resumable, Init, Planned, InSeq
<1>15. Tracked BY DEF Tracked, Init
<1>16. Ordered BY <1>6 DEF Ordered, Init, Live
<1>17. Apart BY <1>6 DEF Apart, Init, Live
<1>18. Reports BY DEF Reports, Init
<1> QED BY <1>1, <1>4, <1>5, <1>7, <1>8, <1>9, <1>10, <1>11, <1>12, <1>13, <1>14, <1>15, <1>16,
           <1>17, <1>18 DEF IInv

-----------------------------------------------------------------------------
(* Theorems                                                                *)

\* The inductive invariant holds.
THEOREM SchedulerInvariant == Spec => []IInv
<1>1. Init => IInv BY InitStep
<1>2. IInv /\ [Next]_vars => IInv' BY NextStep
<1> QED BY <1>1, <1>2, PTL DEF Spec

\* The variables keep their types: no count falls below zero, nothing but a task
\* or a package gets into a queue, and the fifo never holds more tokens than exist.
THEOREM TypeCorrect == Spec => []TypeOK
<1>1. IInv => TypeOK BY DEF IInv
<1> QED BY <1>1, SchedulerInvariant, PTL

\* _jobs is the number of builds under way and never above --jobs, no token of the
\* job server is lost or returned twice, and the implicit slot has one user.
THEOREM AccountingKept == Spec => []Accounting
<1>1. IInv => Accounting BY DEF IInv, Accounting, TokenAccounting, TokensKept
<1> QED BY <1>1, SchedulerInvariant, PTL

\* When the main loop ends, nothing is queued, waits or runs, unless the scheduler
\* was terminated in a configuration in which merges wait (Orderly): then a waiting
\* merge may still be started.
THEOREM ExitsQuietly == Spec => [](Orderly => ExitIsQuiet)
<1>1. IInv => (Orderly => ExitIsQuiet) BY DEF IInv, Halting
<1> QED BY <1>1, SchedulerInvariant, PTL

\* No package is ever missing from the resume list that is neither merged nor
\* reported as failed, whatever is interrupted at whatever moment.
THEOREM ResumeListComplete == Spec => [](Planned \subseteq resume \cup installed \cup failedAll)
<1>1. IInv => Planned \subseteq resume \cup installed \cup failedAll BY DEF IInv, Resumable
<1> QED BY <1>1, SchedulerInvariant, PTL

\* The resume list is exact: and at the end it holds no package that was merged.
THEOREM ResumeListKept == Spec => [](Orderly => ResumeListExact)
<1>1. ASSUME IInv, Orderly PROVE ResumeListExact
  <2>1. Planned \subseteq resume \cup installed \cup failedAll BY <1>1 DEF IInv, Resumable
  <2>2. ASSUME phase = "done", NEW p \in resume \cap installed PROVE FALSE
    <3>1. Pending \subseteq {TermCallback} BY <1>1, <2>2 DEF IInv, Halting, Outside
    <3>2. PICK k \in {"merge_exit", "wait_exit"} : <<k, Merge(p)>> \in Pending
      BY <1>1 DEF IInv, Resumable
    <3>3. <<k, Merge(p)>>[1] # TermCallback[1] BY DEF TermCallback
    <3> QED BY <3>1, <3>2, <3>3
  <2> QED BY <2>1, <2>2 DEF ResumeListExact
<1>2. IInv => (Orderly => ResumeListExact) BY <1>1
<1> QED BY <1>2, SchedulerInvariant, PTL

-----------------------------------------------------------------------------
(* merge() has returned                                                    *)

results == <<st, waitScheduled, flushed, resume, signalled, failedAll>>

\* The steps after which merge() has returned.
LEMMA ReturnIs ==
  ASSUME IInv, [Next]_vars, phase' \in {"done", "raised"}
  PROVE  \/ Finish \/ RemoveRaises
         \/ \E dropped \in SUBSET (resume \ failed) : KeepGoingRound(dropped) /\ phase' = "done"
         \/ UNCHANGED phase /\ UNCHANGED results
<1> USE DEF loopVars, diskVars, taskVars, waitVars, termVars, results
<1>1. CASE Main
  <2>1. ~Start BY DEF Start, StartLoop
  <2>2. ASSUME NEW dropped \in SUBSET (resume \ failed), KeepGoingRound(dropped)
        PROVE  phase' = "done"
    BY <2>2 DEF KeepGoingRound, StartLoop
  <2> QED BY <1>1, <2>1, <2>2 DEF Main
<1>2. CASE Schedule
  <2> SUFFICES ASSUME TRUE PROVE FALSE OBVIOUS
  <2>1. ~ (ScheduleTasks \/ Transfer \/ StopScheduling \/ ChooseNone \/ NoToken)
    BY DEF ScheduleTasks, Transfer, StopScheduling, ChooseNone, NoToken
  <2>2. ~ (StartUninstall \/ StartBuild)
    BY DEF StartUninstall, StartBuild, CanStart, MayChoose
  <2>3. ~EndIteration BY DEF EndIteration
  <2> QED BY <1>2, <2>1, <2>2, <2>3 DEF Schedule
<1>3. CASE RunCallback
  <2>0. phase = "loop" BY <1>3 DEF RunCallback, InLoop
  <2>1. ASSUME NEW t, QueueExit(t) PROVE FALSE BY <2>0, <2>1 DEF QueueExit
  <2>2. ASSUME NEW p, BuildExit(p) PROVE FALSE BY <2>2 DEF BuildExit
  <2>3. ASSUME NEW p, NEW w, MergeExit(p, w) PROVE FALSE BY <2>3 DEF MergeExit
  <2>4. ASSUME NEW p, SystemMergeStarted(p) PROVE FALSE BY <2>0, <2>4 DEF SystemMergeStarted
  <2>5. ~ (SetupExit \/ TerminationCheck \/ Stop) BY <2>0 DEF SetupExit, TerminationCheck, Stop
  <2> QED BY <1>3, <2>1, <2>2, <2>3, <2>4, <2>5 DEF RunCallback
<1>4. CASE Env
  <2>1. ASSUME NEW t \in Tasks, NEW result \in {"ok", "fail"}, EndTask(t, result) PROVE FALSE
    BY <2>1 DEF EndTask, Up
  <2>2. ASSUME NEW p \in Pkgs, ScheduleSetup(p) PROVE FALSE BY <2>2 DEF ScheduleSetup
  <2>3. ~Signal /\ ~Flush BY DEF Signal, Flush, Up
  <2>4. CASE OtherClient BY <2>4 DEF OtherClient
  <2>5. ~UnblockJobs /\ ~MergeWakeup BY DEF UnblockJobs, MergeWakeup
  <2> QED BY <1>4, <2>1, <2>2, <2>3, <2>4, <2>5 DEF Env
<1>5. CASE UNCHANGED vars BY <1>5 DEF vars
<1> QED BY <1>1, <1>2, <1>3, <1>4, <1>5 DEF Next, Terminating

\* What the running tasks do in the last states is what they did before.
LEMMA EndSame ==
  ASSUME IInv, [Next]_vars, phase' \in {"done", "raised"}
  PROVE  \/ /\ UNCHANGED <<st, waitScheduled, flushed>>
            /\ resume' = resume
         \/ st' = [t \in Tasks |-> "none"]
<1> USE DEF waitVars, taskVars, diskVars
<1>1. CASE Finish BY <1>1 DEF Finish
<1>2. CASE RemoveRaises BY <1>2 DEF RemoveRaises
<1>3. ASSUME NEW dropped \in SUBSET (resume \ failed), KeepGoingRound(dropped)
      PROVE  st' = [t \in Tasks |-> "none"]
  BY <1>3 DEF KeepGoingRound
<1>4. CASE UNCHANGED results BY <1>4 DEF results
<1> QED BY <1>1, <1>2, <1>3, <1>4, ReturnIs

\* merge() returns success only after all packages have been merged: nothing is left
\* of the resume list, through any number of --keep-going rounds.  A job server that
\* fails at the start is left out: its failure is reported as a success.
THEOREM SuccessIsMerged ==
  Spec => []((Jobserver /\ JobserverMayFail) \/ SuccessMeansMerged)
<1> DEFINE Nothing == phase = "done" /\ ~signalled /\ failedAll = {} => resume = {}
           J == (Jobserver /\ JobserverMayFail) \/ Nothing
<1>1. ASSUME IInv, Finish, ~ (Jobserver /\ JobserverMayFail), ~signalled, failedAll' = {}
      PROVE  resume = {}
  <2>1. failed = {} /\ phase = "exited" BY <1>1 DEF Finish
  <2>2. ~terminated /\ ~terminatedTasks BY <1>1 DEF IInv, Reports, Signals
  <2>3. mainExit /\ Orderly /\ InLife BY <2>1, <2>2, <1>1 DEF IInv, Signals, Orderly, InLife
  <2>4. pkgQueue = <<>> BY <2>1, <2>2, <2>3, <1>1 DEF IInv, Halting, KeepScheduling
  <2>5. InSeq(pkgQueue) = {} BY <2>4 DEF InSeq
  <2>6. Pending \subseteq {TermCallback} BY <2>1, <2>3, <1>1 DEF IInv, Halting, Outside
  <2>7. running = {} BY <2>3, <1>1 DEF IInv, Halting
  <2>8. ASSUME NEW p \in resume PROVE FALSE
    <3>0. p \in Pkgs BY <1>1 DEF IInv, TypeOK
    <3>1. PICK t \in {Build(p), Merge(p)} :
             \/ st[t] \in {"wait"} \cup Live
             \/ \E k \in ExitKinds : <<k, t>> \in Pending
      BY <2>1, <2>2, <2>5, <1>1 DEF IInv, Tracked
    <3>2. t \in Tasks /\ t[1] # "setup" BY <3>0, TaskIs
    <3>3. st[t] \notin {"wait"} \cup Live BY <3>2, <2>3, <2>7, <1>1 DEF IInv, Covered
    <3>4. PICK k \in ExitKinds : <<k, t>> \in Pending BY <3>1, <3>3
    <3>5. <<k, t>>[1] # TermCallback[1] BY DEF ExitKinds, TermCallback
    <3> QED BY <3>4, <3>5, <2>6
  <2> QED BY <2>8
<1>2. Init => J BY DEF Init
<1>3. ASSUME IInv, J, [Next]_vars PROVE J'
  <2> SUFFICES ASSUME ~ (Jobserver /\ JobserverMayFail), phase' = "done", ~signalled', failedAll' = {}
               PROVE  resume' = {}
    OBVIOUS
  <2>1. CASE Finish
    <3>1. UNCHANGED <<resume, signalled>> BY <2>1 DEF Finish, termVars
    <3> QED BY <1>1, <1>3, <2>1, <3>1
  <2>2. ~RemoveRaises BY DEF RemoveRaises
  <2>3. ASSUME NEW dropped \in SUBSET (resume \ failed), KeepGoingRound(dropped) PROVE FALSE
    <3>1. failed # {} BY <2>3 DEF KeepGoingRound, Over
    <3>2. failedAll' = failedAll \cup failed \cup dropped BY <2>3 DEF KeepGoingRound, Reported
    <3> QED BY <3>1, <3>2
  <2>4. CASE UNCHANGED phase /\ UNCHANGED results BY <2>4, <1>3 DEF results
  <2> QED BY <1>3, <2>1, <2>2, <2>3, <2>4, ReturnIs
<1>4. IInv /\ J => ((Jobserver /\ JobserverMayFail) \/ SuccessMeansMerged)
  BY DEF IInv, Resumable, SuccessMeansMerged
<1> QED BY <1>2, <1>3, <1>4, SchedulerInvariant, PTL DEF Spec

\* No build runs before the packages it needs, as far as they come before it in the
\* merge list and are still to be merged.
THEOREM DependenciesFirst == Spec => [](NoDeps \/ DepsMergedFirst)
<1> DEFINE J == NoDeps \/ DepsMergedFirst
<1>1. IInv /\ InLife => J BY DEF IInv, Ordered, DepsMergedFirst, Alive, Live
<1>2. Init => J
  <2>1. Init => InLife BY DEF Init, InLife
  <2> QED BY <2>1, <1>1, InitStep
<1>3. ASSUME IInv, J, [Next]_vars PROVE J'
  <2>1. IInv' BY <1>3, NextStep
  <2>2. CASE InLife'
    <3>1. (IInv /\ InLife => J)' BY DEF IInv, Ordered, DepsMergedFirst, Alive, Live
    <3> QED BY <3>1, <2>1, <2>2
  <2>3. CASE ~InLife'
    <3>1. \/ UNCHANGED <<st, waitScheduled, flushed>> /\ resume' = resume
          \/ st' = [t \in Tasks |-> "none"]
      BY <1>3, <2>3, EndSame DEF InLife
    <3>2. CASE UNCHANGED st /\ resume' = resume BY <3>2, <1>3 DEF DepsMergedFirst, Alive
    <3>3. CASE st' = [t \in Tasks |-> "none"] BY <3>3, TaskIs DEF DepsMergedFirst, Alive
    <3> QED BY <3>1, <3>2, <3>3
  <2> QED BY <2>2, <2>3
<1> QED BY <1>2, <1>3, SchedulerInvariant, PTL DEF Spec

\* System packages are merged one at a time, and a package that had to wait for the
\* end of the builds is merged while none runs.
THEOREM MergesAreApart == Spec => []MergesApart
<1>1. ASSUME IInv, InLife PROVE WaitingMergesExclusive
  <2> SUFFICES ASSUME ~flushed, NEW p \in waitScheduled, NEW q \in Pkgs, Alive(Merge(p))
               PROVE  /\ ~Alive(Build(q))
                      /\ IsSystem(p) /\ q # p => ~Alive(Merge(q))
    BY DEF WaitingMergesExclusive
  <2>1. p \in Pkgs BY <1>1 DEF IInv, TypeOK
  <2>2. jobs = 0 BY <1>1 DEF IInv, Apart
  <2>3. ~Alive(Build(q))
    <3>1. UnderWay = {}
      <4>1. Cardinality(UnderWay) = 0 BY <2>2, <1>1 DEF IInv, JobAccounting
      <4>2. IsFiniteSet(UnderWay) BY Given, FS_Subset DEF UnderWay
      <4> QED BY <4>1, <4>2, FS_EmptySet
    <3>2. listeners[Build(q)] = <<>> BY <3>1 DEF UnderWay
    <3>3. Build(q) \in Tasks BY TaskIs
    <3>4. TaskLife(Build(q), st, listeners, queue, active, Pending)
      BY <3>3, <1>1 DEF IInv, LifeOK, Life
    <3>5. ASSUME st[Build(q)] = "run" PROVE FALSE
      <4>1. PICK k \in ExitKinds : listeners[Build(q)] \in {<<"queue_exit", k>>, <<k, "queue_exit">>}
        BY <3>4, <3>5 DEF TaskLife
      <4>2. Len(listeners[Build(q)]) = 2 BY <4>1
      <4> QED BY <4>2, <3>2
    <3> QED BY <3>5 DEF Alive
  <2>4. ASSUME IsSystem(p), q # p PROVE ~Alive(Merge(q))
    <3>1. st[Merge(p)] \in Live BY DEF Alive, Live
    <3>2. st[Merge(q)] \notin Live BY <3>1, <2>1, <2>4, <1>1 DEF IInv, Apart
    <3> QED BY <3>2 DEF Alive, Live
  <2> QED BY <2>3, <2>4
<1>2. IInv => SystemMergesSerial BY DEF IInv, Apart, SystemMergesSerial, Alive, Live
<1>3. IInv => (InLife => MergesApart) BY <1>1, <1>2 DEF MergesApart
<1>4. Init => MergesApart
  <2>1. Init => InLife BY DEF Init, InLife
  <2> QED BY <2>1, <1>3, InitStep
<1>5. ASSUME IInv, (InLife => MergesApart)', MergesApart, [Next]_vars PROVE MergesApart'
  <2>1. CASE InLife' BY <2>1, <1>5
  <2>2. CASE ~InLife'
    <3>1. \/ UNCHANGED <<st, waitScheduled, flushed>>
          \/ st' = [t \in Tasks |-> "none"]
      BY <1>5, <2>2, EndSame DEF InLife
    <3>2. CASE UNCHANGED <<st, waitScheduled, flushed>>
      BY <3>2, <1>5 DEF MergesApart, SystemMergesSerial, WaitingMergesExclusive, Alive
    <3>3. CASE st' = [t \in Tasks |-> "none"]
      BY <3>3, TaskIs DEF MergesApart, SystemMergesSerial, WaitingMergesExclusive, Alive
    <3> QED BY <3>1, <3>2, <3>3
  <2> QED BY <2>1, <2>2
<1> QED BY <1>3, <1>4, <1>5, SchedulerInvariant, PTL DEF Spec

-----------------------------------------------------------------------------
(* What a step does to the task queues                                     *)

\* The queue of t, with dq queued and act running, starts tasks, and no other task
\* starts.
QueueDoes(t, dq, act) ==
  \E n \in 0..Len(dq) :
    /\ Runs(QueueMax(QueueOf(t)), dq, act, n)
    /\ queue' = [queue EXCEPT ![QueueOf(t)] = SubSeq(dq, n + 1, Len(dq))]
    /\ active' = [active EXCEPT ![QueueOf(t)] = act \cup InSeq(SubSeq(dq, 1, n))]
    /\ \A x \in Tasks : st'[x] = "run" => st[x] = "run" \/ x \in InSeq(SubSeq(dq, 1, n))

NoneStarts == \A x \in Tasks : st'[x] = "run" => st[x] = "run"

\* t is new and joins its queue, at the end or in front; merges do not any more
\* after _terminate_tasks, unless they have waited.
Joins(t) ==
  /\ InLife /\ st[t] \in {"none", "wait"}
  /\ \E dq \in {Append(queue[QueueOf(t)], t), <<t>> \o queue[QueueOf(t)]} :
       QueueDoes(t, dq, active[QueueOf(t)])
  /\ t[1] = "merge" /\ terminatedTasks => ~NeverWaits

\* The queue of t, which has ended, is told so.
Leaves(t) ==
  /\ InLife /\ <<"queue_exit", t>> \in Pending
  /\ QueueDoes(t, queue[QueueOf(t)], active[QueueOf(t)] \ {t})

\* The four things that happen to the queues.
QueueMoves ==
  \/ UNCHANGED <<queue, active, terminatedTasks>> /\ NoneStarts
  \/ queue' = [q \in Queues |-> <<>>] /\ UNCHANGED active /\ NoneStarts
  \/ \E t \in Tasks : Joins(t) /\ UNCHANGED terminatedTasks
  \/ \E t \in Tasks : Leaves(t) /\ UNCHANGED terminatedTasks

\* schedule() acts on one queue and starts only what it held.
LEMMA PumpDoes ==
  ASSUME NEW t \in Tasks, NEW dq, NEW act, NEW s, NEW ls, NEW rd, NEW h,
         Pump(QueueOf(t), dq, act, s, ls, rd, t, h),
         \A x \in Tasks : s[x] = "run" => st[x] = "run"
  PROVE  QueueDoes(t, dq, act)
<1>1. PICK n \in 0..Len(dq) :
        /\ Runs(QueueMax(QueueOf(t)), dq, act, n)
        /\ queue' = [queue EXCEPT ![QueueOf(t)] = SubSeq(dq, n + 1, Len(dq))]
        /\ active' = [active EXCEPT ![QueueOf(t)] = act \cup InSeq(SubSeq(dq, 1, n))]
        /\ st' = [x \in Tasks |-> IF x \in InSeq(SubSeq(dq, 1, n)) THEN "run" ELSE s[x]]
  BY DEF Pump
<1>2. \A x \in Tasks : st'[x] = "run" => st[x] = "run" \/ x \in InSeq(SubSeq(dq, 1, n))
  BY <1>1
<1> QED BY <1>1, <1>2 DEF QueueDoes

\* add(t) and addFront(t).
LEMMA AddDoes ==
  ASSUME TypeOK, NEW t \in Tasks, NEW h, NEW rd, Add(t, h, rd) \/ AddFront(t, h, rd)
  PROVE  \E dq \in {Append(queue[QueueOf(t)], t), <<t>> \o queue[QueueOf(t)]} :
           QueueDoes(t, dq, active[QueueOf(t)])
<1> DEFINE s == [st EXCEPT ![t] = "queued"]
<1>1. \A x \in Tasks : s[x] = "run" => st[x] = "run" BY DEF TypeOK
<1>2. PICK dq \in {Append(queue[QueueOf(t)], t), <<t>> \o queue[QueueOf(t)]} :
        Pump(QueueOf(t), dq, active[QueueOf(t)], s, listeners, rd, t, <<h>>)
  BY DEF Add, AddFront
<1> HIDE DEF s
<1>3. QueueDoes(t, dq, active[QueueOf(t)]) BY <1>1, <1>2, PumpDoes
<1> QED BY <1>3

\* Every step is one of the four.
LEMMA QueueMovesIs == ASSUME IInv, [Next]_vars PROVE QueueMoves
<1> USE DEF planVars, jobVars, waitVars, loopVars, termVars, tokenVars, diskVars, NoneStarts
<1>0. TypeOK BY DEF IInv
<1>1. CASE Main
  <2>1. UNCHANGED <<queue, active, terminatedTasks>> /\ (st' = st \/ st' = [t \in Tasks |-> "none"])
    BY <1>1 DEF Main, Start, Finish, RemoveRaises, KeepGoingRound, taskVars
  <2>2. NoneStarts BY <2>1
  <2> QED BY <2>1, <2>2 DEF QueueMoves
<1>2. CASE Schedule
  <2>1. CASE ScheduleTasks \/ StopScheduling \/ ChooseNone \/ NoToken \/ EndIteration
    <3>1. UNCHANGED <<taskVars, terminatedTasks>>
      BY <2>1 DEF ScheduleTasks, StopScheduling, ChooseNone, NoToken, EndIteration
    <3> QED BY <3>1 DEF QueueMoves, taskVars
  <2>2. CASE Transfer /\ BatchEnds
    <3>1. UNCHANGED <<taskVars, terminatedTasks>> BY <2>2 DEF Transfer
    <3> QED BY <3>1 DEF QueueMoves, taskVars
  <2>3. CASE Transfer /\ ~BatchEnds
    <3> DEFINE p == Head(waitQueue)
    <3>1. /\ phase = "transfer" /\ waitQueue # <<>> /\ Add(Merge(p), "wait_exit", ready)
          /\ UNCHANGED terminatedTasks
      BY <2>3 DEF Transfer, BatchEnds
    <3>2. InLife BY <3>1 DEF InLife
    <3>3. p \in InSeq(waitQueue) /\ p \in Pkgs BY <3>1, <1>0, TailIs DEF TypeOK
    <3>4. st[Merge(p)] = "wait" BY <3>2, <3>3 DEF IInv, Course
    <3>5. ~NeverWaits BY <3>1 DEF IInv, Covered
    <3>6. Merge(p) \in Tasks BY <3>3, TaskIs
    <3> HIDE DEF p
    <3>7. Joins(Merge(p)) BY <3>1, <3>2, <3>4, <3>5, <3>6, <1>0, AddDoes DEF Joins
    <3> QED BY <3>1, <3>6, <3>7 DEF QueueMoves
  <2>4. CASE StartUninstall
    <3> DEFINE p == pkgQueue[Chosen]
    <3>1. /\ CanStart /\ pkgQueue' = WithoutAt(pkgQueue, Chosen)
          /\ AddFront(Merge(p), "merge_exit", ready) /\ UNCHANGED terminatedTasks
      BY <2>4 DEF StartUninstall
    <3>2. p \in Pkgs /\ st[Merge(p)] = "none" /\ InLife /\ ~terminatedTasks BY <3>1, TakenIs
    <3>3. Merge(p) \in Tasks BY <3>2, TaskIs
    <3> HIDE DEF p
    <3>4. Joins(Merge(p)) BY <3>1, <3>2, <3>3, <1>0, AddDoes DEF Joins
    <3> QED BY <3>1, <3>3, <3>4 DEF QueueMoves
  <2>5. CASE StartBuild
    <3> DEFINE p == pkgQueue[Chosen]
    <3>1. /\ CanStart /\ pkgQueue' = WithoutAt(pkgQueue, Chosen)
          /\ Add(Build(p), "build_exit", Terminated(ready)) /\ UNCHANGED terminatedTasks
      BY <2>5 DEF StartBuild
    <3>2. p \in Pkgs /\ st[Build(p)] = "none" /\ InLife /\ ~terminatedTasks BY <3>1, TakenIs
    <3>3. Build(p) \in Tasks BY <3>2, TaskIs
    <3> HIDE DEF p
    <3>4. Joins(Build(p)) BY <3>1, <3>2, <3>3, <1>0, AddDoes DEF Joins
    <3> QED BY <3>1, <3>3, <3>4 DEF QueueMoves
  <2> QED BY <1>2, <2>1, <2>2, <2>3, <2>4, <2>5 DEF Schedule
<1>3. CASE RunCallback
  <2> DEFINE c == Head(ready)
             t == c[2]
  <2>1. phase = "loop" /\ ready # <<>> /\ InLife BY <1>3 DEF RunCallback, InLoop, InLife
  <2>2. /\ c \in Pending /\ c = <<c[1], c[2]>>
        /\ c[1] \notin {"term", "stop"} => t \in Tasks
    <3> DEFINE d == c
               rd == Tail(ready)
    <3> HIDE DEF d, rd
    <3>1. d = Head(ready) /\ rd = Tail(ready) BY DEF d, rd
    <3>2. /\ Pending = {d} \cup InSeq(rd) /\ d = <<d[1], d[2]>>
          /\ \/ d[1] \in {"term", "stop"} /\ d[2] = <<>>
             \/ d[1] \in Kinds \ {"term", "stop"} /\ d[2] \in Tasks
      BY <3>1, <2>1, CallIs
    <3> QED BY <3>2 DEF d
  <2>3. ASSUME c[1] = "queue_exit", QueueExit(t) PROVE QueueMoves
    <3>1. /\ Pump(QueueOf(t), queue[QueueOf(t)], active[QueueOf(t)] \ {t}, st, listeners,
                  Tail(ready), t, <<>>)
          /\ UNCHANGED terminatedTasks
      BY <2>3 DEF QueueExit
    <3>2. t \in Tasks /\ <<"queue_exit", t>> \in Pending BY <2>2, <2>3
    <3> HIDE DEF t
    <3>3. QueueDoes(t, queue[QueueOf(t)], active[QueueOf(t)] \ {t}) BY <3>1, <3>2, PumpDoes
    <3>4. Leaves(t) BY <2>1, <3>2, <3>3 DEF Leaves
    <3> QED BY <3>1, <3>2, <3>4 DEF QueueMoves
  <2>4. ASSUME c[1] = "build_exit", BuildExit(t[2]) PROVE QueueMoves
    <3> DEFINE p == t[2]
               m == Merge(p)
    <3>0. t \in Tasks /\ <<"build_exit", t>> \in Pending BY <2>2, <2>4
    <3>1. t = Build(p) /\ p \in Pkgs /\ m \in Tasks
      <4>1. Own("build_exit", t) BY <3>0, <2>1 DEF IInv, LifeOK, Life, TaskLife, ExitKinds
      <4> QED BY <4>1, <3>0, TaskIs DEF Own
    <3>2. st[m] = "none" BY <3>0, <3>1, <2>1 DEF IInv, Course
    <3>3. UNCHANGED terminatedTasks BY <2>4 DEF BuildExit
    <3>4. CASE Mergeable(p) /\ ~ (MergeWait \/ IsSystem(p))
      <4>1. Add(m, "merge_exit", Terminated(Tail(ready))) /\ ~terminatedTasks
        BY <2>4, <3>4 DEF BuildExit, Mergeable
      <4> HIDE DEF m
      <4>2. Joins(m) BY <4>1, <3>1, <3>2, <2>1, <1>0, AddDoes DEF Joins
      <4> QED BY <4>2, <3>1, <3>3 DEF QueueMoves
    <3>5. CASE ~ (Mergeable(p) /\ ~ (MergeWait \/ IsSystem(p)))
      <4>1. /\ UNCHANGED <<listeners, queue, active>>
            /\ st' = IF Mergeable(p) THEN [st EXCEPT ![m] = "wait"] ELSE st
        BY <2>4, <3>5 DEF BuildExit
      <4>2. NoneStarts
        <5>1. CASE Mergeable(p)
          <6>1. st' = [st EXCEPT ![m] = "wait"] BY <4>1, <5>1
          <6> QED BY <6>1, <3>1, <1>0 DEF TypeOK
        <5>2. CASE ~Mergeable(p) BY <4>1, <5>2
        <5> QED BY <5>1, <5>2
      <4> QED BY <4>1, <4>2, <3>3 DEF QueueMoves
    <3> QED BY <3>4, <3>5
  <2>5. ASSUME NEW p, NEW w, MergeExit(p, w) PROVE QueueMoves
    <3>1. UNCHANGED <<taskVars, terminatedTasks>> BY <2>5 DEF MergeExit
    <3> QED BY <3>1 DEF QueueMoves, taskVars
  <2>6. ASSUME NEW p, SystemMergeStarted(p) PROVE QueueMoves
    <3>1. UNCHANGED <<taskVars, terminatedTasks>> BY <2>6 DEF SystemMergeStarted
    <3> QED BY <3>1 DEF QueueMoves, taskVars
  <2>7. CASE SetupExit \/ Stop
    <3>1. UNCHANGED <<taskVars, terminatedTasks>> BY <2>7 DEF SetupExit, Stop
    <3> QED BY <3>1 DEF QueueMoves, taskVars
  <2>8. CASE TerminationCheck
    <3> DEFINE hurt == InSeq(queue["merge"] \o queue["jobs"] \o queue["ebuild_locks"])
    <3>1. /\ queue' = [q \in Queues |-> <<>>] /\ UNCHANGED active
          /\ st' = [x \in Tasks |-> IF x \in hurt THEN "fail" ELSE st[x]]
      BY <2>8 DEF TerminationCheck
    <3> HIDE DEF hurt
    <3>2. NoneStarts BY <3>1
    <3> QED BY <3>1, <3>2 DEF QueueMoves
  <2> QED BY <1>3, <2>3, <2>4, <2>5, <2>6, <2>7, <2>8 DEF RunCallback
<1>4. CASE Env
  <2>1. ASSUME NEW t \in Tasks, NEW result \in {"ok", "fail"}, EndTask(t, result) PROVE QueueMoves
    <3>1. UNCHANGED <<queue, active, terminatedTasks>> /\ st' = [st EXCEPT ![t] = result]
      BY <2>1 DEF EndTask
    <3>2. NoneStarts BY <3>1, <1>0 DEF TypeOK
    <3> QED BY <3>1, <3>2 DEF QueueMoves
  <2>2. ASSUME NEW p \in Pkgs, ScheduleSetup(p) PROVE QueueMoves
    <3> DEFINE t == Setup(p)
               s == [st EXCEPT ![t] = "queued"]
    <3>1. /\ phase = "loop" /\ st[t] = "none" /\ UNCHANGED terminatedTasks
          /\ Pump(SetupQueue, Append(queue[SetupQueue], t), active[SetupQueue], s,
                  [listeners EXCEPT ![t] = <<"setup_exit">>], ready, t, <<>>)
      BY <2>2 DEF ScheduleSetup, InLoop
    <3>2. t \in Tasks /\ QueueOf(t) = SetupQueue /\ t[1] = "setup" BY TaskIs, QueueIs
    <3>3. \A x \in Tasks : s[x] = "run" => st[x] = "run" BY <1>0 DEF TypeOK
    <3>4. InLife BY <3>1 DEF InLife
    <3> HIDE DEF t, s
    <3>5. QueueDoes(t, Append(queue[QueueOf(t)], t), active[QueueOf(t)])
      BY <3>1, <3>2, <3>3, PumpDoes
    <3>6. Joins(t) BY <3>1, <3>2, <3>4, <3>5 DEF Joins
    <3> QED BY <3>1, <3>2, <3>6 DEF QueueMoves
  <2>3. CASE Signal \/ Flush \/ OtherClient \/ UnblockJobs \/ MergeWakeup
    <3>1. UNCHANGED <<taskVars, terminatedTasks>>
      BY <2>3 DEF Signal, Flush, OtherClient, UnblockJobs, MergeWakeup
    <3> QED BY <3>1 DEF QueueMoves, taskVars
  <2> QED BY <1>4, <2>1, <2>2, <2>3 DEF Env
<1>5. CASE UNCHANGED vars BY <1>5 DEF vars, taskVars, QueueMoves
<1> QED BY <1>1, <1>2, <1>3, <1>4, <1>5 DEF Next, Terminating

-----------------------------------------------------------------------------
(* The task queues implement TaskQueue                                     *)

\* Nothing is added that is queued or runs already.
LEMMA JoinsNew ==
  ASSUME IInv, NEW t \in Tasks, Joins(t)
  PROVE  t \notin active[QueueOf(t)] \cup InSeq(queue[QueueOf(t)])
<1>1. TaskLife(t, st, listeners, queue, active, Pending) BY DEF IInv, LifeOK, Life, Joins
<1>2. QueueOf(t) \in Queues BY QueueIs
<1> QED BY <1>1, <1>2 DEF TaskLife, Joins, Ended

\* A task that leaves its queue was one of its running tasks.
LEMMA LeavesActive ==
  ASSUME IInv, NEW t \in Tasks, Leaves(t)
  PROVE  t \in active[QueueOf(t)]
BY DEF IInv, LifeOK, Life, Leaves, TaskLife

\* What TaskQueue allows the queue q to do.
Schedules(q, dq, act) ==
  \E n \in 0..Len(dq) :
    /\ Runs(QueueMax(q), dq, act, n)
    /\ queue'[q] = SubSeq(dq, n + 1, Len(dq))
    /\ active'[q] = act \cup InSeq(SubSeq(dq, 1, n))

Allowed(q) ==
  \/ queue'[q] = <<>> /\ active'[q] = active[q]
  \/ \E t \in Tasks :
       \/ /\ t \notin active[q] \cup InSeq(queue[q])
          /\ \/ Schedules(q, Append(queue[q], t), active[q])
             \/ Schedules(q, <<t>> \o queue[q], active[q])
       \/ t \in active[q] /\ Schedules(q, queue[q], active[q] \ {t})
  \/ queue'[q] = queue[q] /\ active'[q] = active[q]

\* One queue moves, the others stay.
LEMMA DoesSchedule ==
  ASSUME TypeOK, NEW t \in Tasks, NEW dq, NEW act, QueueDoes(t, dq, act)
  PROVE  /\ Schedules(QueueOf(t), dq, act)
         /\ \A q \in Queues \ {QueueOf(t)} : queue'[q] = queue[q] /\ active'[q] = active[q]
<1>1. PICK n \in 0..Len(dq) :
        /\ Runs(QueueMax(QueueOf(t)), dq, act, n)
        /\ queue' = [queue EXCEPT ![QueueOf(t)] = SubSeq(dq, n + 1, Len(dq))]
        /\ active' = [active EXCEPT ![QueueOf(t)] = act \cup InSeq(SubSeq(dq, 1, n))]
  BY DEF QueueDoes
<1>2. QueueOf(t) \in Queues BY QueueIs
<1> QED BY <1>1, <1>2 DEF Schedules, TypeOK

\* Every step is one that TaskQueue allows each of the queues.
LEMMA QueueAllowed == ASSUME IInv, [Next]_vars, NEW q \in Queues PROVE Allowed(q)
<1>0. TypeOK BY DEF IInv
<1>1. CASE UNCHANGED <<queue, active>> BY <1>1 DEF Allowed
<1>2. CASE queue' = [r \in Queues |-> <<>>] /\ UNCHANGED active BY <1>2 DEF Allowed
<1>3. ASSUME NEW t \in Tasks, Joins(t) PROVE Allowed(q)
  <2>1. t \notin active[QueueOf(t)] \cup InSeq(queue[QueueOf(t)]) BY <1>3, JoinsNew
  <2>2. PICK dq \in {Append(queue[QueueOf(t)], t), <<t>> \o queue[QueueOf(t)]} :
          QueueDoes(t, dq, active[QueueOf(t)])
    BY <1>3 DEF Joins
  <2>3. /\ Schedules(QueueOf(t), dq, active[QueueOf(t)])
        /\ \A r \in Queues \ {QueueOf(t)} : queue'[r] = queue[r] /\ active'[r] = active[r]
    BY <2>2, <1>0, DoesSchedule
  <2>4. CASE q = QueueOf(t)
    <3>1. t \notin active[q] \cup InSeq(queue[q]) BY <2>1, <2>4
    <3>2. Schedules(q, Append(queue[q], t), active[q]) \/ Schedules(q, <<t>> \o queue[q], active[q])
      BY <2>2, <2>3, <2>4
    <3> QED BY <3>1, <3>2 DEF Allowed
  <2>5. CASE q # QueueOf(t) BY <2>3, <2>5 DEF Allowed
  <2> QED BY <2>4, <2>5
<1>4. ASSUME NEW t \in Tasks, Leaves(t) PROVE Allowed(q)
  <2>1. t \in active[QueueOf(t)] BY <1>4, LeavesActive
  <2>2. QueueDoes(t, queue[QueueOf(t)], active[QueueOf(t)] \ {t}) BY <1>4 DEF Leaves
  <2>3. /\ Schedules(QueueOf(t), queue[QueueOf(t)], active[QueueOf(t)] \ {t})
        /\ \A r \in Queues \ {QueueOf(t)} : queue'[r] = queue[r] /\ active'[r] = active[r]
    BY <2>2, <1>0, DoesSchedule
  <2>4. CASE q = QueueOf(t)
    <3>1. t \in active[q] /\ Schedules(q, queue[q], active[q] \ {t}) BY <2>1, <2>3, <2>4
    <3> QED BY <3>1 DEF Allowed
  <2>5. CASE q # QueueOf(t) BY <2>3, <2>5 DEF Allowed
  <2> QED BY <2>4, <2>5
<1> QED BY <1>1, <1>2, <1>3, <1>4, QueueMovesIs DEF QueueMoves

\* Each of the three queues does what SequentialTaskQueue promises: it only takes new
\* tasks, ends running ones or is cleared, and each time starts what it has room for.
THEOREM QueuesAreQueues == Spec => QueuesImplement
<1>0. "jobs" \in Queues /\ "merge" \in Queues /\ "ebuild_locks" \in Queues BY DEF Queues
<1>1. Init => JobsQueue!Init /\ MergeQueue!Init /\ LocksQueue!Init
  BY <1>0 DEF Init, JobsQueue!Init, MergeQueue!Init, LocksQueue!Init
<1>2. ASSUME IInv, [Next]_vars PROVE [JobsQueue!Next]_(JobsQueue!vars)
  <2>1. Allowed("jobs") BY <1>0, <1>2, QueueAllowed
  <2>2. \A dq, act : Schedules("jobs", dq, act) => JobsQueue!Schedule(dq, act)
    <3>1. \A S : JobsQueue!Cardinality(S) = Cardinality(S)
      BY DEF JobsQueue!Cardinality, Cardinality
    <3>2. \A max, dq, act, n : JobsQueue!Runs(max, dq, act, n) <=> Runs(max, dq, act, n)
      BY <3>1, ZenonT(60) DEF JobsQueue!Runs, JobsQueue!InSeq, Runs, InSeq
    <3> QED BY <3>2 DEF Schedules, JobsQueue!Schedule, JobsQueue!InSeq, InSeq
  <2> QED BY <2>1, <2>2 DEF Allowed, JobsQueue!Next, JobsQueue!Add, JobsQueue!AddFront,
        JobsQueue!TaskExit, JobsQueue!Clear, JobsQueue!New, JobsQueue!InSeq, JobsQueue!vars, InSeq
<1>3. ASSUME IInv, [Next]_vars PROVE [MergeQueue!Next]_(MergeQueue!vars)
  <2>1. Allowed("merge") BY <1>0, <1>3, QueueAllowed
  <2>2. \A dq, act : Schedules("merge", dq, act) => MergeQueue!Schedule(dq, act)
    <3>1. \A S : MergeQueue!Cardinality(S) = Cardinality(S)
      BY DEF MergeQueue!Cardinality, Cardinality
    <3>2. \A max, dq, act, n : MergeQueue!Runs(max, dq, act, n) <=> Runs(max, dq, act, n)
      BY <3>1, ZenonT(60) DEF MergeQueue!Runs, MergeQueue!InSeq, Runs, InSeq
    <3> QED BY <3>2 DEF Schedules, MergeQueue!Schedule, MergeQueue!InSeq, InSeq
  <2> QED BY <2>1, <2>2 DEF Allowed, MergeQueue!Next, MergeQueue!Add, MergeQueue!AddFront,
        MergeQueue!TaskExit, MergeQueue!Clear, MergeQueue!New, MergeQueue!InSeq, MergeQueue!vars,
        InSeq
<1>4. ASSUME IInv, [Next]_vars PROVE [LocksQueue!Next]_(LocksQueue!vars)
  <2>1. Allowed("ebuild_locks") BY <1>0, <1>4, QueueAllowed
  <2>2. \A dq, act : Schedules("ebuild_locks", dq, act) => LocksQueue!Schedule(dq, act)
    <3>1. \A S : LocksQueue!Cardinality(S) = Cardinality(S)
      BY DEF LocksQueue!Cardinality, Cardinality
    <3>2. \A max, dq, act, n : LocksQueue!Runs(max, dq, act, n) <=> Runs(max, dq, act, n)
      BY <3>1, ZenonT(60) DEF LocksQueue!Runs, LocksQueue!InSeq, Runs, InSeq
    <3> QED BY <3>2 DEF Schedules, LocksQueue!Schedule, LocksQueue!InSeq, InSeq
  <2> QED BY <2>1, <2>2 DEF Allowed, LocksQueue!Next, LocksQueue!Add, LocksQueue!AddFront,
        LocksQueue!TaskExit, LocksQueue!Clear, LocksQueue!New, LocksQueue!InSeq, LocksQueue!vars,
        InSeq
<1> QED
  BY <1>1, <1>2, <1>3, <1>4, SchedulerInvariant, PTL
  DEF Spec, QueuesImplement, JobsQueue!Spec, MergeQueue!Spec, LocksQueue!Spec

-----------------------------------------------------------------------------
(* Termination                                                             *)

\* After _terminate_tasks no merge waits in a queue.
NoneLeft == terminatedTasks =>
  \A p \in Pkgs, q \in Queues : Merge(p) \notin InSeq(queue[q])

\* Where merges do not wait, none is started after _terminate_tasks.
THEOREM TerminatedStartsNoMerge == Spec => (NeverWaits => NoMergeAfterTermination)
<1>1. Init => NoneLeft BY DEF Init, NoneLeft
<1>2. ASSUME IInv, [Next]_vars, NoneLeft, NeverWaits
      PROVE  NoneLeft' /\ (terminatedTasks => ~MergeStarts)
  <2>0. TypeOK BY <1>2 DEF IInv
  <2>1. CASE UNCHANGED <<queue, active, terminatedTasks>> /\ NoneStarts
    BY <2>1, <1>2, TaskIs DEF NoneLeft, MergeStarts, Alive, NoneStarts
  <2>2. CASE queue' = [q \in Queues |-> <<>>] /\ NoneStarts
    <3>1. NoneLeft' BY <2>2 DEF NoneLeft, InSeq
    <3> QED BY <3>1, <2>2, TaskIs DEF MergeStarts, Alive, NoneStarts
  <2>3. ASSUME NEW t \in Tasks, Joins(t) \/ Leaves(t), UNCHANGED terminatedTasks, terminatedTasks
        PROVE  NoneLeft' /\ ~MergeStarts
    <3> DEFINE q == QueueOf(t)
    <3>1. q \in Queues /\ queue[q] \in Seq(Tasks) BY <2>0, QueueIs DEF TypeOK
    <3>2. PICK dq, act :
            /\ dq \in Seq(Tasks) /\ QueueDoes(t, dq, act)
            /\ \A p \in Pkgs : Merge(p) \notin InSeq(dq)
      <4>1. \A p \in Pkgs : Merge(p) \notin InSeq(queue[q]) BY <3>1, <2>3, <1>2 DEF NoneLeft
      <4>2. CASE Joins(t)
        <5>1. \A p \in Pkgs : Merge(p) # t BY <4>2, <2>3, <1>2, TaskIs DEF Joins
        <5>2. PICK dq \in {Append(queue[q], t), <<t>> \o queue[q]} : QueueDoes(t, dq, active[q])
          BY <4>2 DEF Joins
        <5>3. dq \in Seq(Tasks) /\ InSeq(dq) = InSeq(queue[q]) \cup {t}
          <6>1. CASE dq = Append(queue[q], t) BY <6>1, <3>1, AppendIs
          <6>2. CASE dq = <<t>> \o queue[q] BY <6>2, <3>1, FrontIs
          <6> QED BY <5>2, <6>1, <6>2
        <5> QED BY <4>1, <5>1, <5>2, <5>3
      <4>3. CASE Leaves(t) BY <4>1, <4>3, <3>1 DEF Leaves
      <4> QED BY <4>2, <4>3, <2>3
    <3>3. PICK n \in 0..Len(dq) :
            /\ queue' = [queue EXCEPT ![q] = SubSeq(dq, n + 1, Len(dq))]
            /\ \A x \in Tasks : st'[x] = "run" => st[x] = "run" \/ x \in InSeq(SubSeq(dq, 1, n))
      BY <3>2 DEF QueueDoes
    <3>4. InSeq(dq) = InSeq(SubSeq(dq, 1, n)) \cup InSeq(SubSeq(dq, n + 1, Len(dq)))
      BY <3>2, <3>3, PrefixIs
    <3> HIDE DEF q
    <3>5. NoneLeft'
      <4>1. \A r \in Queues : queue'[r] = queue[r] \/ queue'[r] = SubSeq(dq, n + 1, Len(dq))
        BY <3>3, <3>1, <2>0 DEF TypeOK
      <4> QED BY <4>1, <3>2, <3>4, <2>3, <1>2 DEF NoneLeft
    <3>6. ~MergeStarts BY <3>2, <3>3, <3>4, TaskIs DEF MergeStarts, Alive
    <3> QED BY <3>5, <3>6
  <2>4. ASSUME UNCHANGED terminatedTasks, ~terminatedTasks PROVE NoneLeft' BY <2>4 DEF NoneLeft
  <2> QED BY <1>2, <2>1, <2>2, <2>3, <2>4, QueueMovesIs DEF QueueMoves
<1>3. NeverWaits \/ ~NeverWaits OBVIOUS
<1>4. IInv /\ NoneLeft /\ NeverWaits /\ [Next]_vars => NoneLeft' BY <1>2
<1>5. IInv /\ NoneLeft /\ NeverWaits /\ [Next]_vars => [terminatedTasks => ~MergeStarts]_vars
  BY <1>2
<1>6. NeverWaits => NeverWaits' BY DEF NeverWaits
<1> QED
  BY <1>1, <1>4, <1>5, <1>6, SchedulerInvariant, PTL DEF Spec, NoMergeAfterTermination

-----------------------------------------------------------------------------
(* Builds beside a fragile system                                          *)

\* Every a in s is followed by a b; every b in s is preceded by an a.
Follows(s, a, b) == \A i \in 1..Len(s) : s[i] = a => \E j \in 1..Len(s) : i < j /\ s[j] = b
Leads(s, a, b)   == \A i \in 1..Len(s) : s[i] = b => \E j \in 1..Len(s) : j < i /\ s[j] = a

\* A build that ends tells its queue first, and _build_exit afterwards.
Served(s) == \A p \in Pkgs : Follows(s, <<"queue_exit", Build(p)>>, <<"build_exit", Build(p)>>)
BuildListeners == <<"queue_exit", "build_exit">>

\* Hence no build waits in its queue: there is room in it whenever there is a job.
BuildsServed == InLife =>
  /\ queue["jobs"] = <<>>
  /\ \A p \in Pkgs : st[Build(p)] = "run" => listeners[Build(p)] = BuildListeners
  /\ Served(ready)

\* The start of a system merge is announced before its exit.
Announced(p) == <<"merge_started", Merge(p)>>
MergeExits   == {"merge_exit", "wait_exit"}
Leading(s, p) == \A k \in MergeExits : Leads(s, Announced(p), <<k, Merge(p)>>)

\* The runtime dependencies of p that are to be merged keep builds apart.
Told(p) == \A d \in RuntimeDeps[p] \ (Uninstalls \cup {p}) : d \in resume => d \in unsatisfied

\* They are recorded before the merge counts.
TellsOf(p) ==
  /\ p \in completed => Told(p)
  /\ st[Merge(p)] = "run" => Told(p) \/ Announced(p) \in Pending
  /\ Told(p) \/ Leading(ready, p)
SystemTold == InLife /\ ~terminated => \A p \in Pkgs : IsSystem(p) => TellsOf(p)

\* No build starts, and those that run keep their listeners.
BuildsStay ==
  \A p \in Pkgs : st'[Build(p)] = "run" =>
    st[Build(p)] = "run" /\ listeners'[Build(p)] = listeners[Build(p)]
\* Builds that run have their listeners.
BuildsTell == \A p \in Pkgs : st'[Build(p)] = "run" => listeners'[Build(p)] = BuildListeners
\* The merges of system packages that start are announced.
StartsTold ==
  \A p \in Pkgs : IsSystem(p) /\ st'[Merge(p)] = "run" =>
    st[Merge(p)] = "run" \/ Announced(p) \in Pending'

\* Order survives a concatenation, an Append and a Tail.
LEMMA FollowsIs ==
  ASSUME NEW U, NEW s \in Seq(U), NEW r \in Seq(U), NEW a, NEW b
  PROVE  /\ Follows(s, a, b) /\ Follows(r, a, b) => Follows(s \o r, a, b)
         /\ a \notin InSeq(r) => Follows(r, a, b)
         /\ s # <<>> /\ Follows(s, a, b) => Follows(Tail(s), a, b)
<1>1. /\ Len(s) \in Nat /\ Len(r) \in Nat /\ Len(s \o r) = Len(s) + Len(r)
      /\ \A i \in 1..Len(s) : i \in 1..Len(s \o r) /\ (s \o r)[i] = s[i]
      /\ \A i \in 1..Len(r) : Len(s) + i \in 1..Len(s \o r) /\ (s \o r)[Len(s) + i] = r[i]
  OBVIOUS
<1>2. ASSUME NEW i \in 1..Len(s \o r), i \notin 1..Len(s)
      PROVE  i - Len(s) \in 1..Len(r) /\ (s \o r)[i] = r[i - Len(s)] /\ i = Len(s) + (i - Len(s))
  BY <1>1, <1>2
<1>3. ASSUME Follows(s, a, b), Follows(r, a, b), NEW i \in 1..Len(s \o r), (s \o r)[i] = a
      PROVE  \E j \in 1..Len(s \o r) : i < j /\ (s \o r)[j] = b
  <2>1. CASE i \in 1..Len(s)
    <3>1. PICK j \in 1..Len(s) : i < j /\ s[j] = b BY <1>1, <1>3, <2>1 DEF Follows
    <3> QED BY <3>1, <1>1
  <2>2. CASE i \notin 1..Len(s)
    <3>1. PICK j \in 1..Len(r) : i - Len(s) < j /\ r[j] = b BY <1>2, <1>3, <2>2 DEF Follows
    <3>2. i < Len(s) + j BY <3>1, <1>1
    <3> QED BY <3>1, <3>2, <1>1
  <2> QED BY <2>1, <2>2
<1>4. a \notin InSeq(r) => Follows(r, a, b) BY DEF Follows, InSeq
<1>5. ASSUME s # <<>>, Follows(s, a, b), NEW i \in 1..Len(Tail(s)), Tail(s)[i] = a
      PROVE  \E j \in 1..Len(Tail(s)) : i < j /\ Tail(s)[j] = b
  <2>1. /\ Len(Tail(s)) = Len(s) - 1
        /\ \A n \in 1..Len(Tail(s)) : Tail(s)[n] = s[n + 1] /\ n + 1 \in 1..Len(s)
    BY <1>5
  <2>2. PICK j \in 1..Len(s) : i + 1 < j /\ s[j] = b BY <1>5, <2>1 DEF Follows
  <2>3. j - 1 \in 1..Len(Tail(s)) /\ i < j - 1 /\ (j - 1) + 1 = j BY <1>1, <2>1, <2>2
  <2> QED BY <2>1, <2>2, <2>3
<1> QED BY <1>3, <1>4, <1>5 DEF Follows

LEMMA LeadsIs ==
  ASSUME NEW U, NEW s \in Seq(U), NEW r \in Seq(U), NEW a, NEW b
  PROVE  /\ Leads(s, a, b) /\ (b \notin InSeq(r) \/ a \in InSeq(s)) => Leads(s \o r, a, b)
         /\ b \notin InSeq(s) => Leads(s, a, b)
         /\ s # <<>> /\ Leads(s, a, b) /\ Head(s) # a => Leads(Tail(s), a, b)
         /\ s # <<>> /\ Leads(s, a, b) => Head(s) # b
<1>1. /\ Len(s) \in Nat /\ Len(r) \in Nat /\ Len(s \o r) = Len(s) + Len(r)
      /\ \A i \in 1..Len(s) : i \in 1..Len(s \o r) /\ (s \o r)[i] = s[i]
  OBVIOUS
<1>2. ASSUME NEW i \in 1..Len(s \o r), i \notin 1..Len(s)
      PROVE  i - Len(s) \in 1..Len(r) /\ (s \o r)[i] = r[i - Len(s)] /\ \A j \in 1..Len(s) : j < i
  BY <1>1, <1>2
<1>3. ASSUME Leads(s, a, b), b \notin InSeq(r) \/ a \in InSeq(s),
             NEW i \in 1..Len(s \o r), (s \o r)[i] = b
      PROVE  \E j \in 1..Len(s \o r) : j < i /\ (s \o r)[j] = a
  <2>1. CASE i \in 1..Len(s)
    <3>1. PICK j \in 1..Len(s) : j < i /\ s[j] = a BY <1>1, <1>3, <2>1 DEF Leads
    <3> QED BY <3>1, <1>1
  <2>2. CASE i \notin 1..Len(s)
    <3>1. b \in InSeq(r) BY <1>2, <1>3, <2>2 DEF InSeq
    <3>2. PICK j \in 1..Len(s) : s[j] = a BY <3>1, <1>3 DEF InSeq
    <3> QED BY <3>2, <1>1, <1>2, <2>2
  <2> QED BY <2>1, <2>2
<1>4. b \notin InSeq(s) => Leads(s, a, b) BY DEF Leads, InSeq
<1>5. ASSUME s # <<>>
      PROVE  /\ Len(Tail(s)) = Len(s) - 1 /\ Head(s) = s[1] /\ 1 \in 1..Len(s)
             /\ \A n \in 1..Len(Tail(s)) : Tail(s)[n] = s[n + 1] /\ n + 1 \in 1..Len(s)
  BY <1>5
<1>6. ASSUME s # <<>>, Leads(s, a, b), Head(s) # a, NEW i \in 1..Len(Tail(s)), Tail(s)[i] = b
      PROVE  \E j \in 1..Len(Tail(s)) : j < i /\ Tail(s)[j] = a
  <2>1. PICK j \in 1..Len(s) : j < i + 1 /\ s[j] = a BY <1>5, <1>6 DEF Leads
  <2>2. j # 1 BY <2>1, <1>5, <1>6
  <2>3. j - 1 \in 1..Len(Tail(s)) /\ j - 1 < i /\ (j - 1) + 1 = j BY <1>1, <1>5, <1>6, <2>1, <2>2
  <2> QED BY <1>5, <1>6, <2>1, <2>3
<1>7. ASSUME s # <<>>, Leads(s, a, b), Head(s) = b PROVE FALSE
  <2>1. PICK j \in 1..Len(s) : j < 1 /\ s[j] = a BY <1>5, <1>7 DEF Leads
  <2> QED BY <2>1, <1>1
<1> QED BY <1>3, <1>4, <1>6, <1>7 DEF Leads

\* What the order of callbacks survives: calling one, and queueing others.
LEMMA ServedIs ==
  ASSUME NEW s \in Seq(Callbacks), Served(s)
  PROVE  /\ \A r \in Seq(Callbacks) : Served(r) => Served(s \o r)
         /\ \A r \in Seq(Callbacks) : (\A c \in InSeq(r) : c[1] # "queue_exit") => Served(s \o r)
         /\ s # <<>> => Served(Tail(s))
         /\ Served(Terminated(s))
<1>1. ASSUME NEW r \in Seq(Callbacks), Served(r) PROVE Served(s \o r)
  BY <1>1, FollowsIs DEF Served
<1>2. ASSUME NEW r \in Seq(Callbacks), \A c \in InSeq(r) : c[1] # "queue_exit"
      PROVE  Served(s \o r)
  <2>1. \A p \in Pkgs : <<"queue_exit", Build(p)>> \notin InSeq(r)
    <3>1. \A p \in Pkgs : <<"queue_exit", Build(p)>>[1] = "queue_exit" OBVIOUS
    <3> QED BY <3>1, <1>2
  <2>2. Served(r) BY <2>1, FollowsIs DEF Served
  <2> QED BY <1>1, <2>2
<1>3. s # <<>> => Served(Tail(s)) BY FollowsIs DEF Served
<1>4. Served(Terminated(s))
  <2>1. <<TermCallback>> \in Seq(Callbacks) BY DEF TermCallback, Callbacks, Kinds
  <2>2. InSeq(<<TermCallback>>) = {TermCallback} BY Pairs
  <2>3. TermCallback[1] # "queue_exit" BY DEF TermCallback
  <2>4. Served(s \o <<TermCallback>>) BY <1>2, <2>1, <2>2, <2>3
  <2>5. Append(s, TermCallback) = s \o <<TermCallback>> BY <2>1, AppendIsConcat
  <2> QED BY <2>4, <2>5 DEF Terminated
<1> QED BY <1>1, <1>2, <1>3, <1>4

LEMMA LeadingIs ==
  ASSUME NEW s \in Seq(Callbacks), NEW p \in Pkgs, Leading(s, p)
  PROVE  /\ \A r \in Seq(Callbacks) :
              (\A c \in InSeq(r) : c[1] \notin MergeExits \/ c[2] # Merge(p)) => Leading(s \o r, p)
         /\ \A r \in Seq(Callbacks) : Announced(p) \in InSeq(s) => Leading(s \o r, p)
         /\ s # <<>> /\ Head(s) # Announced(p) => Leading(Tail(s), p)
         /\ s # <<>> => Head(s)[1] \notin MergeExits \/ Head(s)[2] # Merge(p)
         /\ Leading(Terminated(s), p)
<1>1. ASSUME NEW r \in Seq(Callbacks), \A c \in InSeq(r) : c[1] \notin MergeExits \/ c[2] # Merge(p)
      PROVE  Leading(s \o r, p)
  <2>1. \A k \in MergeExits : <<k, Merge(p)>> \notin InSeq(r)
    <3>1. \A k \in MergeExits : <<k, Merge(p)>>[1] = k /\ <<k, Merge(p)>>[2] = Merge(p) OBVIOUS
    <3> QED BY <3>1, <1>1
  <2> QED BY <2>1, LeadsIs DEF Leading
<1>2. ASSUME NEW r \in Seq(Callbacks), Announced(p) \in InSeq(s) PROVE Leading(s \o r, p)
  BY <1>2, LeadsIs DEF Leading
<1>3. s # <<>> /\ Head(s) # Announced(p) => Leading(Tail(s), p) BY LeadsIs DEF Leading
<1>4. ASSUME s # <<>>, Head(s)[1] \in MergeExits, Head(s)[2] = Merge(p) PROVE FALSE
  <2>1. Head(s) \in Callbacks BY <1>4
  <2>2. Head(s) = <<Head(s)[1], Merge(p)>> BY <2>1, <1>4 DEF Callbacks
  <2> QED BY <2>2, <1>4, LeadsIs DEF Leading
<1>5. Leading(Terminated(s), p)
  <2>1. <<TermCallback>> \in Seq(Callbacks) BY DEF TermCallback, Callbacks, Kinds
  <2>2. InSeq(<<TermCallback>>) = {TermCallback} BY Pairs
  <2>3. TermCallback[1] \notin MergeExits BY DEF TermCallback, MergeExits
  <2>4. Leading(s \o <<TermCallback>>, p) BY <1>1, <2>1, <2>2, <2>3
  <2>5. Append(s, TermCallback) = s \o <<TermCallback>> BY <2>1, AppendIsConcat
  <2> QED BY <2>4, <2>5 DEF Terminated
<1> QED BY <1>1, <1>2, <1>3, <1>4, <1>5

\* A step that calls one callback at most, adds others that are no exits, and starts no
\* system merge unannounced.
LEMMA OrderStep ==
  ASSUME IInv, InLife, BuildsServed, SystemTold, terminated => terminated',
         NEW rd, rd = ready \/ (/\ ready # <<>> /\ rd = Tail(ready)
                                /\ Head(ready)[1] # "merge_started"),
         NEW s \in {rd, Terminated(rd)}, NEW w \in Seq(Callbacks), ready' = s \o w,
         \A c \in InSeq(w) : c[1] \notin MergeExits \cup {"queue_exit"},
         queue'["jobs"] = <<>>, BuildsStay \/ BuildsTell, StartsTold,
         UNCHANGED <<completed, unsatisfied, resume>>
  PROVE  BuildsServed' /\ SystemTold'
<1>0. ready \in Seq(Callbacks) BY DEF IInv, TypeOK
<1>1. /\ rd \in Seq(Callbacks)
      /\ \A p : Announced(p) \in Pending => Announced(p) \in InSeq(rd)
  <2>1. CASE rd = ready BY <2>1, <1>0 DEF Pending
  <2>2. CASE ready # <<>> /\ rd = Tail(ready) /\ Head(ready)[1] # "merge_started"
    <3>1. rd \in Seq(Callbacks) /\ Pending = {Head(ready)} \cup InSeq(rd)
      BY <2>2, <1>0, TailIs DEF Pending
    <3>2. \A p : Announced(p)[1] = "merge_started" BY DEF Announced
    <3> QED BY <3>1, <3>2, <2>2
  <2> QED BY <2>1, <2>2
<1>2. s \in Seq(Callbacks) /\ InSeq(rd) \subseteq InSeq(s)
  <2>1. TermCallback \in Callbacks BY DEF TermCallback, Callbacks, Kinds
  <2>2. Append(rd, TermCallback) \in Seq(Callbacks) /\ InSeq(rd) \subseteq InSeq(Append(rd, TermCallback))
    BY <1>1, <2>1, AppendIs
  <2> QED BY <1>1, <2>2 DEF Terminated
<1>3. ready' \in Seq(Callbacks) /\ InSeq(s) \subseteq InSeq(ready')
  BY <1>2, ConcatIs
<1>4. BuildsServed'
  <2>1. Served(ready) BY DEF BuildsServed
  <2>2. Served(rd) BY <2>1, <1>0, ServedIs
  <2>3. Served(s) BY <2>2, <1>1, ServedIs
  <2>4. Served(ready') BY <2>3, <1>2, ServedIs
  <2>5. \A p \in Pkgs : st'[Build(p)] = "run" => listeners'[Build(p)] = BuildListeners
    BY DEF BuildsStay, BuildsTell, BuildsServed
  <2> QED BY <2>4, <2>5 DEF BuildsServed
<1>5. ASSUME ~terminated', NEW p \in Pkgs, IsSystem(p) PROVE TellsOf(p)'
  <2>1. TellsOf(p) BY <1>5 DEF SystemTold
  <2>2. Told(p)' <=> Told(p) BY DEF Told
  <2>3. p \in completed' => Told(p)' BY <2>1, <2>2 DEF TellsOf
  <2>4. st'[Merge(p)] = "run" => Told(p)' \/ Announced(p) \in Pending'
    <3>1. Announced(p) \in Pending => Announced(p) \in Pending'
      BY <1>1, <1>2, <1>3 DEF Pending
    <3> QED BY <3>1, <2>1, <2>2, <1>5 DEF TellsOf, StartsTold
  <2>5. Leading(ready, p) => Leading(ready', p)
    <3> HAVE Leading(ready, p)
    <3>1. Leading(rd, p)
      <4>1. CASE rd = ready BY <4>1
      <4>2. CASE ready # <<>> /\ rd = Tail(ready) /\ Head(ready)[1] # "merge_started"
        <5>1. Head(ready) # Announced(p) BY <4>2 DEF Announced
        <5> QED BY <5>1, <4>2, <1>0, LeadingIs
      <4> QED BY <4>1, <4>2
    <3>2. Leading(s, p) BY <3>1, <1>1, LeadingIs
    <3> QED BY <3>2, <1>2, LeadingIs
  <2> QED BY <2>1, <2>2, <2>3, <2>4, <2>5 DEF TellsOf
<1>6. SystemTold' BY <1>5 DEF SystemTold
<1> QED BY <1>4, <1>6

\* The states and listeners that a pump starts from differ in those of t alone.
SameBut(t, s, ls) == \A x \in Tasks \ {t} : s[x] = st[x] /\ ls[x] = listeners[x]

\* schedule() of a queue that does not hold builds.
LEMMA PumpOrder ==
  ASSUME IInv, InLife, BuildsServed, NEW t \in Tasks, NEW dq \in Seq(Tasks),
         InSeq(dq) \subseteq InSeq(queue[QueueOf(t)]) \cup {t},
         QueueOf(t) = "jobs" => dq = <<>>,
         NEW act, NEW s \in [Tasks -> TaskStates], NEW ls \in [Tasks -> Seq(Kinds)],
         NEW rd \in Seq(Callbacks), NEW h \in Seq(Kinds),
         Pump(QueueOf(t), dq, act, s, ls, rd, t, h), SameBut(t, s, ls),
         s[t] = "run" => st[t] = "run",
         t[1] = "build" => ls[t] = listeners[t] /\ h = <<>>
  PROVE  /\ \E w \in Seq(Callbacks) :
              /\ ready' = rd \o w
              /\ \A c \in InSeq(w) : c[1] \notin MergeExits \cup {"queue_exit"}
         /\ queue'["jobs"] = <<>> /\ BuildsStay /\ StartsTold
<1> DEFINE q == QueueOf(t)
<1>0. q \in Queues /\ "jobs" \in Queues /\ queue \in [Queues -> Seq(Tasks)]
  BY QueueIs DEF IInv, TypeOK, Queues
<1>1. PICK S, rest, ms : Pumped(q, dq, act, s, ls, rd, t, h, S, rest, ms)
  BY <1>0, PumpIs
<1>2. /\ S \subseteq InSeq(dq) /\ rest \in Seq(Tasks) /\ InSeq(rest) \subseteq InSeq(dq)
      /\ ms \in Seq(Callbacks) /\ \A c \in InSeq(ms) : c[1] = "merge_started"
      /\ \A x \in S \cap SystemMerges : <<"merge_started", x>> \in InSeq(ms)
      /\ queue' = [queue EXCEPT ![q] = rest]
      /\ st' = [x \in Tasks |-> IF x \in S THEN "run" ELSE s[x]]
      /\ listeners' = [x \in Tasks |->
           (IF x \in S THEN Append(ls[x], "queue_exit") ELSE ls[x]) \o (IF x = t THEN h ELSE <<>>)]
      /\ ready' = rd \o ms
  BY <1>1 DEF Pumped
<1>3. \A p \in Pkgs : Build(p) \notin InSeq(dq)
  <2> SUFFICES ASSUME NEW p \in Pkgs, Build(p) \in InSeq(dq) PROVE FALSE OBVIOUS
  <2>1. dq # <<>> BY DEF InSeq
  <2>2. q # "jobs" BY <2>1
  <2>3. Build(p) # t /\ Build(p) \in Tasks BY <2>2, QueueIs, TaskIs
  <2>4. Build(p) \in InSeq(queue[q]) BY <2>3
  <2>5. TaskLife(Build(p), st, listeners, queue, active, Pending) BY <2>3 DEF IInv, LifeOK, Life
  <2>6. q = QueueOf(Build(p)) BY <2>4, <2>5, <1>0 DEF TaskLife
  <2> QED BY <2>2, <2>6, QueueIs
<1>4. queue'["jobs"] = <<>>
  <2>1. CASE q = "jobs"
    <3>1. InSeq(dq) = {} BY <2>1 DEF InSeq
    <3>2. InSeq(rest) = {} BY <3>1, <1>2
    <3>3. rest = <<>>
      <4> SUFFICES ASSUME rest # <<>> PROVE FALSE OBVIOUS
      <4>1. Head(rest) \in InSeq(rest) BY <1>2, TailIs
      <4> QED BY <4>1, <3>2
    <3> QED BY <3>3, <2>1, <1>0, <1>2
  <2>2. CASE q # "jobs" BY <2>2, <1>0, <1>2 DEF BuildsServed
  <2> QED BY <2>1, <2>2
<1> HIDE DEF q
<1>5. BuildsStay
  <2> SUFFICES ASSUME NEW p \in Pkgs, st'[Build(p)] = "run"
               PROVE  st[Build(p)] = "run" /\ listeners'[Build(p)] = listeners[Build(p)]
    BY DEF BuildsStay
  <2> DEFINE x == Build(p)
  <2>1. x \in Tasks /\ x[1] = "build" BY TaskIs
  <2>2. x \notin S BY <1>2, <1>3
  <2> HIDE DEF x
  <2>3. s[x] = "run" BY <1>2, <2>1, <2>2 DEF x
  <2>4. st[x] = "run" BY <2>1, <2>3 DEF SameBut
  <2>5. ls[x] = listeners[x] /\ (IF x = t THEN h ELSE <<>>) = <<>> BY <2>1 DEF SameBut
  <2>6. listeners'[x] = ls[x] \o <<>> BY <1>2, <2>1, <2>2, <2>5
  <2>7. ls[x] \o <<>> = ls[x]
    <3>1. ls[x] \in Seq(Kinds) BY <2>1
    <3> QED BY <3>1, ConcatEmptySeq
  <2> QED BY <2>4, <2>5, <2>6, <2>7 DEF x
<1>6. StartsTold
  <2> SUFFICES ASSUME NEW p \in Pkgs, IsSystem(p), st'[Merge(p)] = "run", st[Merge(p)] # "run"
               PROVE  Announced(p) \in Pending'
    BY DEF StartsTold
  <2>1. Merge(p) \in Tasks BY TaskIs
  <2>2. s[Merge(p)] # "run" BY <2>1 DEF SameBut
  <2>3. Merge(p) \in S BY <1>2, <2>1, <2>2
  <2>4. Merge(p) \in SystemMerges BY DEF SystemMerges
  <2>5. Announced(p) \in InSeq(ms) BY <1>2, <2>3, <2>4 DEF Announced
  <2>6. InSeq(ready') = InSeq(rd) \cup InSeq(ms) BY <1>2, ConcatIs
  <2> QED BY <2>5, <2>6 DEF Pending
<1>7. \A c \in InSeq(ms) : c[1] \notin MergeExits \cup {"queue_exit"} BY <1>2 DEF MergeExits
<1> QED BY <1>2, <1>4, <1>5, <1>6, <1>7

\* A step that leaves the tasks alone.
LEMMA CalmStep ==
  ASSUME IInv, InLife' => InLife, BuildsServed, SystemTold, terminated => terminated',
         UNCHANGED <<taskVars, completed, unsatisfied, resume>>,
         NEW rd, rd = ready \/ (/\ ready # <<>> /\ rd = Tail(ready)
                                /\ Head(ready)[1] # "merge_started"),
         ready' \in {rd, Terminated(rd), Append(rd, Stopping)}
  PROVE  BuildsServed' /\ SystemTold' /\ BuildsStay
<1>1. BuildsStay BY DEF BuildsStay, taskVars
<1>2. CASE ~InLife' BY <1>1, <1>2 DEF BuildsServed, SystemTold
<1>3. CASE InLife'
  <2>1. InLife /\ ready \in Seq(Callbacks) BY <1>3 DEF IInv, TypeOK
  <2>2. rd \in Seq(Callbacks) BY <2>1, TailIs
  <2>3. <<Stopping>> \in Seq(Callbacks) /\ TermCallback \in Callbacks /\ Stopping \in Callbacks
    BY DEF Stopping, TermCallback, Callbacks, Kinds
  <2>4. PICK s \in {rd, Terminated(rd)}, w \in {<<>>, <<Stopping>>} : ready' = s \o w
    <3>1. Append(rd, Stopping) = rd \o <<Stopping>> BY <2>2, <2>3, AppendIsConcat
    <3>2. Terminated(rd) \in Seq(Callbacks)
      <4>1. Append(rd, TermCallback) \in Seq(Callbacks) BY <2>2, <2>3
      <4> QED BY <4>1, <2>2 DEF Terminated
    <3>3. rd \o <<>> = rd /\ Terminated(rd) \o <<>> = Terminated(rd)
      BY <2>2, <3>2, ConcatEmptySeq
    <3> QED BY <3>1, <3>3
  <2>5. w \in Seq(Callbacks) /\ \A c \in InSeq(w) : c[1] \notin MergeExits \cup {"queue_exit"}
    <3>1. InSeq(<<Stopping>>) = {Stopping} BY Pairs
    <3>2. InSeq(<<>>) = {} BY DEF InSeq
    <3>3. Stopping[1] \notin MergeExits \cup {"queue_exit"} BY DEF Stopping, MergeExits
    <3>4. <<>> \in Seq(Callbacks) OBVIOUS
    <3> QED BY <3>1, <3>2, <3>3, <3>4, <2>3, <2>4
  <2>6. queue'["jobs"] = <<>> BY <2>1 DEF BuildsServed, taskVars
  <2>7. StartsTold BY DEF StartsTold, taskVars
  <2> QED BY <1>1, <2>1, <2>4, <2>5, <2>6, <2>7, OrderStep
<1> QED BY <1>2, <1>3

\* A merge or an uninstall is added.
LEMMA MergeAddStep ==
  ASSUME IInv, InLife, BuildsServed, SystemTold, terminated => terminated',
         NEW p \in Pkgs, NEW k \in MergeExits,
         NEW rd, rd = ready \/ (/\ ready # <<>> /\ rd = Tail(ready)
                                /\ Head(ready)[1] # "merge_started"),
         NEW s \in {rd, Terminated(rd)},
         Add(Merge(p), k, s) \/ AddFront(Merge(p), k, s),
         UNCHANGED <<completed, unsatisfied, resume>>
  PROVE  BuildsServed' /\ SystemTold' /\ BuildsStay
<1>a. /\ queue \in [Queues -> Seq(Tasks)] /\ ready \in Seq(Callbacks)
      /\ st \in [Tasks -> TaskStates] /\ listeners \in [Tasks -> Seq(Kinds)]
  BY DEF IInv, TypeOK, TaskStates
<1>1. s \in Seq(Callbacks)
  <2>1. rd \in Seq(Callbacks)
    <3>1. ready # <<>> => Tail(ready) \in Seq(Callbacks) BY <1>a, TailIs
    <3>2. rd = ready \/ (ready # <<>> /\ rd = Tail(ready)) OBVIOUS
    <3> QED BY <3>1, <3>2, <1>a
  <2>2. TermCallback \in Callbacks BY DEF TermCallback, Callbacks, Kinds
  <2>3. Append(rd, TermCallback) \in Seq(Callbacks) BY <2>1, <2>2
  <2> QED BY <2>1, <2>3 DEF Terminated
<1> DEFINE t == Merge(p)
           q == QueueOf(t)
<1>0. t \in Tasks /\ t[1] # "build" /\ q = "merge" /\ q \in Queues /\ queue[q] \in Seq(Tasks)
  BY <1>a, TaskIs, QueueIs DEF Queues
<1> HIDE DEF t
<1>2. PICK dq \in {Append(queue[q], t), <<t>> \o queue[q]} :
        Pump(q, dq, active[q], [st EXCEPT ![t] = "queued"], listeners, s, t, <<k>>)
  BY DEF Add, AddFront, t
<1>3. dq \in Seq(Tasks) /\ InSeq(dq) \subseteq InSeq(queue[q]) \cup {t}
  <2>1. CASE dq = Append(queue[q], t) BY <2>1, <1>0, AppendIs
  <2>2. CASE dq = <<t>> \o queue[q] BY <2>2, <1>0, FrontIs
  <2> QED BY <2>1, <2>2
<1> DEFINE sq == [st EXCEPT ![t] = "queued"]
<1>4. /\ sq \in [Tasks -> TaskStates] /\ sq[t] = "queued"
      /\ \A x \in Tasks \ {t} : sq[x] = st[x]
  BY <1>0, <1>a DEF TaskStates
<1>5. <<k>> \in Seq(Kinds) BY DEF MergeExits, Kinds
<1> HIDE DEF sq
<1>6. /\ \E w \in Seq(Callbacks) :
           /\ ready' = s \o w
           /\ \A c \in InSeq(w) : c[1] \notin MergeExits \cup {"queue_exit"}
      /\ queue'["jobs"] = <<>> /\ BuildsStay /\ StartsTold
  <2>1. Pump(q, dq, active[q], sq, listeners, s, t, <<k>>) BY <1>2 DEF sq
  <2>2. /\ q = "jobs" => dq = <<>>
        /\ sq[t] = "run" => st[t] = "run"
        /\ t[1] = "build" => listeners[t] = listeners[t] /\ <<k>> = <<>>
        /\ SameBut(t, sq, listeners)
    BY <1>0, <1>4 DEF SameBut
  <2> QED BY <1>0, <1>a, <1>1, <1>3, <1>4, <1>5, <2>1, <2>2, PumpOrder
<1> QED BY <1>6, OrderStep

\* A build is started: it is the only one in its queue, and there is room for it.
LEMMA BuildAddStep ==
  ASSUME IInv, BuildsServed, SystemTold, StartBuild
  PROVE  BuildsServed' /\ SystemTold'
<1> DEFINE p == pkgQueue[Chosen]
           t == Build(p)
           dq == Append(queue["jobs"], t)
           s == Terminated(ready)
<1>1. /\ CanStart /\ pkgQueue' = WithoutAt(pkgQueue, Chosen)
      /\ Add(Build(p), "build_exit", s) /\ AcquireToken(p)
      /\ UNCHANGED <<completed, unsatisfied, resume>>
  BY DEF StartBuild, diskVars
<1>2. p \in Pkgs /\ st[Build(p)] = "none" /\ InLife /\ jobs < MaxJobs BY <1>1, TakenIs
<1>3. terminated => terminated' BY <1>1 DEF AcquireToken, JobserverFails
<1>4. /\ t \in Tasks /\ t[1] = "build" /\ QueueOf(t) = "jobs" /\ "jobs" \in Queues
      /\ queue \in [Queues -> Seq(Tasks)] /\ ready \in Seq(Callbacks)
      /\ active \in [Queues -> SUBSET Tasks]
      /\ st \in [Tasks -> TaskStates] /\ listeners \in [Tasks -> Seq(Kinds)]
  BY <1>2, TaskIs, QueueIs DEF IInv, TypeOK, TaskStates, Queues
<1>5. dq = <<t>> BY <1>2, Pairs DEF BuildsServed
<1> HIDE DEF p, s
<1>6. \A x \in Tasks : TaskLife(x, st, listeners, queue, active, Pending)
  BY <1>2 DEF IInv, LifeOK, Life
<1>7. listeners[t] = <<>> BY <1>2, <1>4, <1>6 DEF TaskLife
<1>8. Cardinality(active["jobs"]) < MaxJobs /\ IsFiniteSet(active["jobs"])
  <2>1. ASSUME NEW x \in active["jobs"] PROVE x \in Tasks /\ x = Build(x[2]) /\ x[2] \in UnderWay
    <3>1. x \in Tasks BY <1>4
    <3>2. QueueOf(x) = "jobs" /\ (st[x] = "run" \/ (st[x] \in Ended /\ <<"queue_exit", x>> \in Pending))
      BY <3>1, <1>4, <1>6 DEF TaskLife
    <3>3. x[2] \in Pkgs /\ x = Build(x[2])
      BY <3>1, <3>2, TaskIs, QueueIs
    <3>4. CASE st[x] = "run"
      <4>1. listeners[x] = BuildListeners BY <3>3, <3>4, <1>2 DEF BuildsServed
      <4>2. listeners[x] # <<>> BY <4>1 DEF BuildListeners
      <4> QED BY <3>1, <3>3, <4>2 DEF UnderWay
    <3>5. CASE <<"queue_exit", x>> \in Pending
      <4>1. Follows(ready, <<"queue_exit", x>>, <<"build_exit", x>>)
        BY <3>3, <1>2 DEF BuildsServed, Served
      <4>2. <<"build_exit", x>> \in InSeq(ready) BY <4>1, <3>5 DEF Follows, Pending, InSeq
      <4> QED BY <3>1, <3>3, <4>2 DEF UnderWay
    <3> QED BY <3>2, <3>4, <3>5
  <2> DEFINE f == [x \in active["jobs"] |-> x[2]]
  <2>2. f \in Injection(active["jobs"], UnderWay)
    <3>1. f \in [active["jobs"] -> UnderWay] BY <2>1
    <3>2. \A x, y \in active["jobs"] : f[x] = f[y] => x = y BY <2>1
    <3> QED BY <3>1, <3>2 DEF Injection, IsInjective
  <2>3. IsFiniteSet(UnderWay) BY Given, FS_Subset DEF UnderWay
  <2> HIDE DEF f
  <2>4. IsFiniteSet(active["jobs"]) /\ Cardinality(active["jobs"]) <= Cardinality(UnderWay)
    BY <2>2, <2>3, FS_Injection
  <2>5. jobs = Cardinality(UnderWay) BY DEF IInv, JobAccounting
  <2>6. Cardinality(active["jobs"]) \in Nat /\ Cardinality(UnderWay) \in Nat /\ MaxJobs \in Nat
    BY <2>3, <2>4, FS_CardinalityType, Given
  <2> QED BY <2>4, <2>5, <2>6, <1>2
<1> DEFINE sq == [st EXCEPT ![t] = "queued"]
<1>9. /\ sq \in [Tasks -> TaskStates] /\ sq[t] = "queued"
      /\ \A x \in Tasks \ {t} : sq[x] = st[x]
  BY <1>4 DEF TaskStates
<1>10. Pump("jobs", <<t>>, active["jobs"], sq, listeners, s, t, <<"build_exit">>)
  BY <1>1, <1>4, <1>5 DEF Add
<1> HIDE DEF t, sq, dq
<1>11. queue'["jobs"] = <<>>
  <2>1. PICK n \in 0..Len(<<t>>) :
          /\ Runs(QueueMax("jobs"), <<t>>, active["jobs"], n)
          /\ queue' = [queue EXCEPT !["jobs"] = SubSeq(<<t>>, n + 1, Len(<<t>>))]
    BY <1>10 DEF Pump
  <2>2. QueueMax("jobs") = MaxJobs BY DEF QueueMax
  <2>3. n # 0
    <3> SUFFICES ASSUME n = 0 PROVE FALSE OBVIOUS
    <3>1. Cardinality(active["jobs"] \cup InSeq(SubSeq(<<t>>, 1, 0))) >= MaxJobs
      BY <2>1, <2>2 DEF Runs
    <3>2. InSeq(SubSeq(<<t>>, 1, 0)) = {}
      <4>1. Len(SubSeq(<<t>>, 1, 0)) = 0 OBVIOUS
      <4> QED BY <4>1 DEF InSeq
    <3>3. active["jobs"] \cup {} = active["jobs"] OBVIOUS
    <3>4. Cardinality(active["jobs"]) >= MaxJobs BY <3>1, <3>2, <3>3
    <3>5. Cardinality(active["jobs"]) \in Nat /\ MaxJobs \in Nat BY <1>8, FS_CardinalityType, Given
    <3> QED BY <3>4, <3>5, <1>8
  <2>4. n = 1 BY <2>1, <2>3
  <2>5. SubSeq(<<t>>, 2, 1) = <<>> OBVIOUS
  <2> QED BY <2>1, <2>4, <2>5, <1>4
<1>12. PICK S, rest, ms : Pumped("jobs", <<t>>, active["jobs"], sq, listeners, s, t, <<"build_exit">>, S, rest, ms)
  <2>1. <<t>> \in Seq(Tasks) /\ <<"build_exit">> \in Seq(Kinds) BY <1>4 DEF Kinds
  <2> QED BY <1>4, <1>10, <2>1, PumpIs
<1>13. /\ {t} = S \cup InSeq(rest) /\ ms \in Seq(Callbacks)
       /\ \A c \in InSeq(ms) : c[1] = "merge_started"
       /\ queue' = [queue EXCEPT !["jobs"] = rest]
       /\ st' = [x \in Tasks |-> IF x \in S THEN "run" ELSE sq[x]]
       /\ listeners' = [x \in Tasks |->
            (IF x \in S THEN Append(listeners[x], "queue_exit") ELSE listeners[x])
              \o (IF x = t THEN <<"build_exit">> ELSE <<>>)]
       /\ ready' = s \o ms
  BY <1>12, Pairs DEF Pumped
<1>14. S = {t}
  <2>1. rest = <<>> BY <1>11, <1>13, <1>4
  <2>2. InSeq(rest) = {} BY <2>1 DEF InSeq
  <2> QED BY <2>2, <1>13
<1>15. listeners'[t] = BuildListeners
  <2>1. listeners'[t] = Append(<<>>, "queue_exit") \o <<"build_exit">>
    BY <1>4, <1>7, <1>13, <1>14
  <2> QED BY <2>1, Pairs DEF BuildListeners
<1>16. ASSUME NEW x \in Tasks, x # t PROVE st'[x] = st[x] /\ listeners'[x] = listeners[x]
  <2>1. st'[x] = st[x] /\ listeners'[x] = listeners[x] \o <<>> BY <1>9, <1>13, <1>14, <1>16
  <2>2. listeners[x] \in Seq(Kinds) BY <1>4, <1>16
  <2> QED BY <2>1, <2>2, ConcatEmptySeq
<1>17. BuildsTell
  <2> SUFFICES ASSUME NEW x \in Pkgs, st'[Build(x)] = "run"
               PROVE  listeners'[Build(x)] = BuildListeners
    BY DEF BuildsTell
  <2>1. CASE Build(x) = t BY <2>1, <1>15
  <2>2. CASE Build(x) # t
    <3>1. Build(x) \in Tasks BY TaskIs
    <3> QED BY <3>1, <2>2, <1>2, <1>16 DEF BuildsServed
  <2> QED BY <2>1, <2>2
<1>18. StartsTold
  <2>1. \A x \in Pkgs : Merge(x) \in Tasks /\ Merge(x) # t BY TaskIs, <1>4
  <2> QED BY <2>1, <1>16 DEF StartsTold
<1>19. \A c \in InSeq(ms) : c[1] \notin MergeExits \cup {"queue_exit"} BY <1>13 DEF MergeExits
<1>20. s \in {ready, Terminated(ready)} BY DEF s
<1> QED BY <1>1, <1>2, <1>3, <1>11, <1>13, <1>17, <1>18, <1>19, <1>20, OrderStep


\* A task ends: a build tells its queue first, and the start of a system merge has
\* been announced by then.
LEMMA EndTaskOrder ==
  ASSUME IInv, BuildsServed, SystemTold, NEW t \in Tasks, NEW result \in {"ok", "fail"},
         EndTask(t, result)
  PROVE  BuildsServed' /\ SystemTold' /\ BuildsStay
<1>0. /\ InLife /\ TypeOK /\ st[t] = "run"
      /\ ready \in Seq(Callbacks) /\ ready' = ready \o Notify(t)
      /\ st \in [Tasks -> TaskStates] /\ st' = [st EXCEPT ![t] = result]
      /\ listeners \in [Tasks -> Seq(Kinds)] /\ listeners' = [listeners EXCEPT ![t] = <<>>]
      /\ UNCHANGED <<queue, completed, unsatisfied, resume, terminated>>
  BY DEF EndTask, Up, InLife, Alive, IInv, TypeOK, TaskStates, planVars, termVars
<1>1. PICK k \in ExitKinds : listeners[t] \in {<<"queue_exit", k>>, <<k, "queue_exit">>}
  <2>1. TaskLife(t, st, listeners, queue, active, Pending) BY <1>0 DEF IInv, LifeOK, Life
  <2> QED BY <2>1, <1>0 DEF TaskLife
<1>2. /\ Notify(t) \in Seq(Callbacks)
      /\ InSeq(Notify(t)) = {<<"queue_exit", t>>, <<k, t>>}
      /\ \A c \in InSeq(Notify(t)) : c[2] = t
  BY <1>0, <1>1, NotifyIs
<1>3. /\ st'[t] # "run"
      /\ \A x \in Tasks \ {t} : st'[x] = st[x] /\ listeners'[x] = listeners[x]
  BY <1>0
<1>4. BuildsStay
  <2> SUFFICES ASSUME NEW p \in Pkgs, st'[Build(p)] = "run"
               PROVE  st[Build(p)] = "run" /\ listeners'[Build(p)] = listeners[Build(p)]
    BY DEF BuildsStay
  <2>1. Build(p) \in Tasks \ {t} BY <1>3, TaskIs
  <2> QED BY <2>1, <1>3
<1>5. Served(Notify(t))
  <2> SUFFICES ASSUME NEW p \in Pkgs
               PROVE  Follows(Notify(t), <<"queue_exit", Build(p)>>, <<"build_exit", Build(p)>>)
    BY DEF Served
  <2>1. CASE t = Build(p)
    <3>1. listeners[t] = BuildListeners BY <2>1, <1>0 DEF BuildsServed
    <3>2. Len(listeners[t]) = 2 /\ listeners[t][1] = "queue_exit" /\ listeners[t][2] = "build_exit"
      BY <3>1 DEF BuildListeners
    <3>3. /\ Len(Notify(t)) = 2 /\ Notify(t)[1] = <<"queue_exit", t>>
          /\ Notify(t)[2] = <<"build_exit", t>>
      BY <3>2 DEF Notify
    <3>4. <<"queue_exit", t>> # <<"build_exit", t>> OBVIOUS
    <3>5. 1..2 = {1, 2} /\ 1 < 2 OBVIOUS
    <3> QED BY <2>1, <3>3, <3>4, <3>5 DEF Follows
  <2>2. CASE t # Build(p)
    <3>1. <<"queue_exit", Build(p)>> \notin InSeq(Notify(t))
      <4>1. <<"queue_exit", Build(p)>>[2] = Build(p) OBVIOUS
      <4> QED BY <4>1, <2>2, <1>2
    <3> QED BY <3>1, <1>2, FollowsIs
  <2> QED BY <2>1, <2>2
<1>6. BuildsServed'
  <2>1. Served(ready) /\ queue["jobs"] = <<>> BY <1>0 DEF BuildsServed
  <2>2. Served(ready') BY <2>1, <1>0, <1>2, <1>5, ServedIs
  <2>3. \A p \in Pkgs : st'[Build(p)] = "run" => listeners'[Build(p)] = BuildListeners
    BY <1>0, <1>4 DEF BuildsStay, BuildsServed
  <2> QED BY <1>0, <2>1, <2>2, <2>3 DEF BuildsServed
<1>7. ASSUME ~terminated', NEW p \in Pkgs, IsSystem(p) PROVE TellsOf(p)'
  <2>1. TellsOf(p) BY <1>0, <1>7 DEF SystemTold
  <2>2. Told(p)' <=> Told(p) BY <1>0 DEF Told
  <2>3. Pending \subseteq Pending' BY <1>0, <1>2, ConcatIs DEF Pending
  <2>4. p \in completed' => Told(p)' BY <1>0, <2>1, <2>2 DEF TellsOf
  <2>5. st'[Merge(p)] = "run" => Told(p)' \/ Announced(p) \in Pending'
    <3> HAVE st'[Merge(p)] = "run"
    <3>1. Merge(p) \in Tasks \ {t} BY <1>3, TaskIs
    <3>2. st[Merge(p)] = "run" BY <3>1, <1>3
    <3> QED BY <3>2, <2>1, <2>2, <2>3 DEF TellsOf
  <2>6. Leading(ready, p) => Leading(ready', p) \/ Told(p)
    <3> HAVE Leading(ready, p)
    <3>1. CASE t # Merge(p)
      <4>1. \A c \in InSeq(Notify(t)) : c[2] # Merge(p) BY <3>1, <1>2
      <4> QED BY <4>1, <1>0, <1>2, LeadingIs
    <3>2. CASE t = Merge(p)
      <4>1. Told(p) \/ Announced(p) \in InSeq(ready) BY <3>2, <1>0, <2>1 DEF TellsOf, Pending
      <4> QED BY <4>1, <1>0, <1>2, LeadingIs
    <3> QED BY <3>1, <3>2
  <2> QED BY <2>1, <2>2, <2>4, <2>5, <2>6 DEF TellsOf
<1>8. SystemTold' BY <1>7 DEF SystemTold
<1> QED BY <1>4, <1>6, <1>8

\* The exit callback of a merge: what it waited for has been recorded by then.
LEMMA MergeExitOrder ==
  ASSUME IInv, InLife, BuildsServed, SystemTold, ready # <<>>,
         NEW k \in MergeExits, Head(ready)[1] = k, NEW p, p = Head(ready)[2][2],
         NEW waited \in BOOLEAN, MergeExit(p, waited)
  PROVE  BuildsServed' /\ SystemTold' /\ BuildsStay
<1> DEFINE c == Head(ready)
<1>0. /\ ready \in Seq(Callbacks) /\ ready' = Tail(ready) /\ resume' = Committed(p)
      /\ UNCHANGED <<st, listeners, queue, terminated>>
  BY DEF MergeExit, IInv, TypeOK, taskVars, termVars
<1>1. /\ ready' \in Seq(Callbacks) /\ Pending = {c} \cup Pending'
      /\ c = <<k, c[2]>> /\ c[2] \in Tasks
  BY <1>0, CallIs DEF Pending, MergeExits
<1>2. p \in Pkgs /\ c[2] = Merge(p) /\ Merge(p) \in Tasks
  <2>1. k \in ExitKinds BY DEF MergeExits, ExitKinds
  <2>2. c[2][1] = "merge" BY <2>1, <1>1, ExitOf DEF MergeExits
  <2> QED BY <2>2, <1>1, TaskIs
<1> HIDE DEF c
<1>3. BuildsStay BY <1>0 DEF BuildsStay
<1>4. BuildsServed'
  <2>1. Served(ready') BY <1>0, ServedIs DEF BuildsServed
  <2> QED BY <1>0, <2>1 DEF BuildsServed
<1>5. ASSUME ~terminated', NEW x \in Pkgs, IsSystem(x) PROVE TellsOf(x)'
  <2>1. TellsOf(x) BY <1>0, <1>5 DEF SystemTold
  <2>2. c # Announced(x)
    <3>1. Announced(x)[1] = "merge_started" BY DEF Announced
    <3> QED BY <3>1 DEF c, MergeExits
  <2>3. resume' \subseteq resume BY <1>0 DEF Committed
  <2>4. Told(x) => Told(x)'
    <3> SUFFICES ASSUME Told(x), NEW d \in RuntimeDeps[x] \ (Uninstalls \cup {x}), d \in resume'
                 PROVE  d \in unsatisfied'
      BY DEF Told
    <3>1. d \in unsatisfied BY <2>3 DEF Told
    <3>2. CASE UNCHANGED unsatisfied BY <3>1, <3>2
    <3>3. CASE st[Merge(p)] = "ok" /\ Complete(p)
      <4>1. CASE d = p
        <5>1. resume' = resume \ {p} BY <4>1, <3>3, <1>0 DEF Committed
        <5> QED BY <5>1, <4>1
      <4>2. CASE d # p
        <5>1. d \notin Replaces[p] BY <1>2, Given
        <5> QED BY <5>1, <4>2, <3>1, <3>3 DEF Complete
      <4> QED BY <4>1, <4>2
    <3> QED BY <3>2, <3>3 DEF MergeExit
  <2>5. x \in completed' => Told(x)
    <3> HAVE x \in completed'
    <3>1. CASE x \in completed BY <3>1, <2>1 DEF TellsOf
    <3>2. CASE x \notin completed
      <4>1. Complete(p) BY <3>2 DEF MergeExit
      <4>2. completed' \subseteq completed \cup {p} \cup Uninstalls
        BY <4>1, <1>2, CompleteIs DEF IInv
      <4>3. x \notin Uninstalls BY <1>5, Given DEF IsSystem
      <4>4. x = p BY <3>2, <4>2, <4>3
      <4>5. ~Leading(ready, x)
        <5>1. c[1] \in MergeExits /\ c[2] = Merge(x) BY <1>2, <4>4 DEF c
        <5> QED BY <5>1, <1>0, LeadingIs DEF c
      <4> QED BY <4>5, <2>1 DEF TellsOf
    <3> QED BY <3>1, <3>2
  <2>6. Announced(x) \in Pending => Announced(x) \in Pending' BY <1>1, <2>2
  <2>7. Leading(ready, x) => Leading(ready', x) BY <1>0, <2>2, LeadingIs DEF c
  <2> QED BY <1>0, <2>1, <2>4, <2>5, <2>6, <2>7 DEF TellsOf
<1>6. SystemTold' BY <1>5 DEF SystemTold
<1> QED BY <1>3, <1>4, <1>6

\* The start of a system merge is recorded.
LEMMA StartedOrder ==
  ASSUME IInv, InLife, BuildsServed, SystemTold, ready # <<>>,
         NEW p, p = Head(ready)[2][2], SystemMergeStarted(p)
  PROVE  BuildsServed' /\ SystemTold' /\ BuildsStay
<1> DEFINE c == Head(ready)
<1>0. /\ ready \in Seq(Callbacks) /\ ready' = Tail(ready)
      /\ unsatisfied' = unsatisfied \cup {d \in RuntimeDeps[p] \ Uninstalls : d # p /\ d \notin completed}
      /\ UNCHANGED <<st, listeners, queue, terminated, resume, completed>>
  BY DEF SystemMergeStarted, IInv, TypeOK, taskVars, termVars, diskVars
<1>1. ready' \in Seq(Callbacks) /\ Pending = {c} \cup Pending'
  BY <1>0, CallIs DEF Pending
<1>3. BuildsStay BY <1>0 DEF BuildsStay
<1>4. BuildsServed'
  <2>1. Served(ready') BY <1>0, ServedIs DEF BuildsServed
  <2> QED BY <1>0, <2>1 DEF BuildsServed
<1>5. ASSUME ~terminated', NEW x \in Pkgs, IsSystem(x) PROVE TellsOf(x)'
  <2>1. TellsOf(x) BY <1>0, <1>5 DEF SystemTold
  <2>2. Told(x) => Told(x)' BY <1>0 DEF Told
  <2>3. CASE c = Announced(x)
    <3>1. c[2][2] = x BY <2>3 DEF Announced, Merge
    <3>2. x = p BY <3>1
    <3>3. \A d \in resume : d \notin Uninstalls => d \notin completed
      BY DEF IInv, Resumable
    <3>4. Told(x)' BY <3>2, <3>3, <1>0 DEF Told
    <3> QED BY <3>4 DEF TellsOf
  <2>4. CASE c # Announced(x)
    <3>1. Announced(x) \in Pending => Announced(x) \in Pending' BY <1>1, <2>4
    <3>2. Leading(ready, x) => Leading(ready', x) BY <1>0, <2>4, LeadingIs
    <3> QED BY <1>0, <2>1, <2>2, <3>1, <3>2 DEF TellsOf
  <2> QED BY <2>3, <2>4
<1>6. SystemTold' BY <1>5 DEF SystemTold
<1> QED BY <1>3, <1>4, <1>6


\* The check for termination: the builds that are cancelled had only one listener.
LEMMA CheckOrder ==
  ASSUME IInv, InLife, BuildsServed, SystemTold, ready # <<>>, Head(ready)[1] = "term",
         TerminationCheck
  PROVE  BuildsServed' /\ SystemTold' /\ BuildsStay
<1> DEFINE rd == Tail(ready)
<1>0. /\ st' = [t \in Tasks |-> IF t \in InSeq(Cancelled) THEN "fail" ELSE st[t]]
      /\ queue' = [q \in Queues |-> <<>>]
      /\ ready' = Terminated(rd \o Called)
      /\ listeners' = [t \in Tasks |-> IF t \in InSeq(Cancelled) THEN <<>> ELSE listeners[t]]
      /\ ReleaseTokens({p \in Pkgs : Build(p) \in {t \in running : ~Alive(t)}})
      /\ TypeOK
  BY DEF TerminationCheck, Cancelled, Called, IInv
<1>1. /\ rd \in Seq(Callbacks) /\ ready \in Seq(Callbacks)
      /\ Head(ready) = TermCallback /\ TermCallback \in Pending
  BY <1>0, CallIs, ZenonT(60) DEF TermCallback, TypeOK
<1>2. terminated /\ terminated' = TRUE
  <2>1. terminated /\ terminated \in BOOLEAN BY <1>0, <1>1 DEF IInv, Signals, TypeOK
  <2> QED BY <2>1, <1>0 DEF ReleaseTokens, JobserverFails
<1>3. ready' = rd \o Called BY <1>0, <1>2 DEF Terminated
<1>4. /\ Called \in Seq(Callbacks)
      /\ \A c \in InSeq(Called) : c[1] # "queue_exit"
  <2>1. Life(st, listeners, queue, active, Pending) BY DEF IInv, LifeOK
  <2>2. Called \in Seq(Callbacks) /\ \A c \in InSeq(Called) : c[1] \in ExitKinds
    BY <1>0, <2>1, CancelledIs
  <2>3. "queue_exit" \notin ExitKinds BY DEF ExitKinds
  <2> QED BY <2>2, <2>3
<1> HIDE DEF rd
<1>5. BuildsStay
  <2> SUFFICES ASSUME NEW p \in Pkgs, st'[Build(p)] = "run"
               PROVE  st[Build(p)] = "run" /\ listeners'[Build(p)] = listeners[Build(p)]
    BY DEF BuildsStay
  <2>1. Build(p) \in Tasks BY TaskIs
  <2> QED BY <2>1, <1>0
<1>6. BuildsServed'
  <2>1. Served(rd) BY <1>1, ServedIs DEF BuildsServed, rd
  <2>2. Served(ready') BY <2>1, <1>1, <1>3, <1>4, ServedIs
  <2>3. queue'["jobs"] = <<>> BY <1>0 DEF Queues
  <2>4. \A p \in Pkgs : st'[Build(p)] = "run" => listeners'[Build(p)] = BuildListeners
    BY <1>5 DEF BuildsStay, BuildsServed
  <2> QED BY <2>2, <2>3, <2>4 DEF BuildsServed
<1> QED BY <1>2, <1>5, <1>6 DEF SystemTold

\* The exit callback of a build: its merge is added, waits, or is dropped.
LEMMA BuildExitOrder ==
  ASSUME IInv, InLife, BuildsServed, SystemTold, ready # <<>>, Head(ready)[1] = "build_exit",
         NEW p, p = Head(ready)[2][2], BuildExit(p)
  PROVE  BuildsServed' /\ SystemTold' /\ BuildsStay
<1> DEFINE m == Merge(p)
           rd == Tail(ready)
           good == Mergeable(p)
           wait == MergeWait \/ IsSystem(p)
<1>0. /\ ReleaseTokens({p}) /\ UNCHANGED <<completed, unsatisfied, resume>>
      /\ \/ Add(m, "merge_exit", Terminated(rd))
         \/ /\ ready' = Terminated(rd)
            /\ st' = IF good THEN [st EXCEPT ![m] = "wait"] ELSE st
            /\ UNCHANGED <<listeners, queue, active>>
  BY DEF BuildExit, diskVars
<1>1. terminated => terminated'
  BY <1>0 DEF ReleaseTokens, JobserverFails
<1>2. p \in Pkgs /\ ready \in Seq(Callbacks) /\ st \in [Tasks -> TaskStates]
  <2>1. Head(ready)[2] \in Tasks BY CallIs
  <2> QED BY <2>1, TaskIs DEF IInv, TypeOK, TaskStates
<1>3. rd \in Seq(Callbacks) /\ Head(ready)[1] # "merge_started" /\ Terminated(rd) \in Seq(Callbacks)
  <2>1. rd \in Seq(Callbacks) BY <1>2, TailIs
  <2>2. TermCallback \in Callbacks BY DEF TermCallback, Callbacks, Kinds
  <2>3. Append(rd, TermCallback) \in Seq(Callbacks) BY <2>1, <2>2
  <2> QED BY <2>1, <2>3 DEF Terminated
<1>4. CASE Add(m, "merge_exit", Terminated(rd))
  <2>1. "merge_exit" \in MergeExits BY DEF MergeExits
  <2> QED BY <2>1, <1>0, <1>1, <1>2, <1>3, <1>4, MergeAddStep
<1>5. CASE /\ ready' = Terminated(rd)
           /\ st' = IF good THEN [st EXCEPT ![m] = "wait"] ELSE st
           /\ UNCHANGED <<listeners, queue, active>>
  <2>1. m \in Tasks /\ \A x \in Pkgs : Build(x) \in Tasks /\ Build(x) # m BY <1>2, TaskIs
  <2>2. \A x \in Tasks : st'[x] = "run" => st[x] = "run" BY <1>2, <1>5, <2>1
  <2>3. BuildsStay BY <1>5, <2>1, <2>2 DEF BuildsStay
  <2>4. StartsTold BY <2>2, TaskIs DEF StartsTold
  <2>5. ready' = Terminated(rd) \o <<>> BY <1>3, <1>5, ConcatEmptySeq
  <2>6. <<>> \in Seq(Callbacks) /\ InSeq(<<>>) = {} BY DEF InSeq
  <2>7. queue'["jobs"] = <<>> BY <1>5 DEF BuildsServed
  <2> HIDE DEF m, good, wait
  <2>8. /\ rd = ready \/ (ready # <<>> /\ rd = Tail(ready) /\ Head(ready)[1] # "merge_started")
        /\ Terminated(rd) \in {rd, Terminated(rd)}
        /\ \A c \in InSeq(<<>>) : c[1] \notin MergeExits \cup {"queue_exit"}
    BY <1>3, <2>6
  <2> HIDE DEF rd
  <2> QED BY <1>0, <1>1, <2>3, <2>4, <2>5, <2>6, <2>7, <2>8, OrderStep
<1> QED BY <1>0, <1>4, <1>5

\* The callback of a queue, which starts the next of its tasks.
LEMMA QueueExitOrder ==
  ASSUME IInv, InLife, BuildsServed, SystemTold, ready # <<>>, Head(ready)[1] = "queue_exit",
         NEW t, t = Head(ready)[2], QueueExit(t)
  PROVE  BuildsServed' /\ SystemTold' /\ BuildsStay
<1> DEFINE rd == Tail(ready)
           q == QueueOf(t)
           dq == queue[q]
<1>0. /\ Pump(q, dq, active[q] \ {t}, st, listeners, rd, t, <<>>)
      /\ UNCHANGED <<completed, unsatisfied, resume, terminated>>
  BY DEF QueueExit, planVars, termVars, diskVars
<1>1. t \in Tasks /\ rd \in Seq(Callbacks) BY CallIs
<1>2. /\ q \in Queues /\ dq \in Seq(Tasks) /\ <<>> \in Seq(Kinds)
      /\ listeners \in [Tasks -> Seq(Kinds)] /\ st \in [Tasks -> TaskStates]
  BY <1>1, QueueIs DEF IInv, TypeOK, TaskStates
<1>3. /\ q = "jobs" => dq = <<>>
      /\ InSeq(dq) \subseteq InSeq(queue[q]) \cup {t}
      /\ SameBut(t, st, listeners)
  BY DEF BuildsServed, SameBut
<1> HIDE DEF rd, dq
<1>4. /\ \E w \in Seq(Callbacks) :
           /\ ready' = rd \o w
           /\ \A c \in InSeq(w) : c[1] \notin MergeExits \cup {"queue_exit"}
      /\ queue'["jobs"] = <<>> /\ BuildsStay /\ StartsTold
  BY <1>0, <1>1, <1>2, <1>3, PumpOrder
<1>5. /\ rd = ready \/ (ready # <<>> /\ rd = Tail(ready) /\ Head(ready)[1] # "merge_started")
      /\ rd \in {rd, Terminated(rd)}
  BY DEF rd
<1> QED BY <1>0, <1>4, <1>5, OrderStep

\* A task is queued that is not a build.
LEMMA QuietAddOrder ==
  ASSUME IInv, InLife, BuildsServed, SystemTold, NEW t \in Tasks, t[1] # "build",
         QueueOf(t) # "jobs", NEW dq \in Seq(Tasks),
         InSeq(dq) \subseteq InSeq(queue[QueueOf(t)]) \cup {t},
         NEW act, NEW s \in [Tasks -> TaskStates], NEW ls \in [Tasks -> Seq(Kinds)],
         Pump(QueueOf(t), dq, act, s, ls, ready, t, <<>>), SameBut(t, s, ls),
         s[t] # "run",
         UNCHANGED <<completed, unsatisfied, resume, terminated>>
  PROVE  BuildsServed' /\ SystemTold' /\ BuildsStay
<1>1. /\ QueueOf(t) = "jobs" => dq = <<>>
      /\ t[1] = "build" => ls[t] = listeners[t] /\ <<>> = <<>>
      /\ s[t] = "run" => st[t] = "run"
      /\ ready \in Seq(Callbacks) /\ <<>> \in Seq(Kinds)
  BY DEF IInv, TypeOK
<1>2. /\ \E w \in Seq(Callbacks) :
           /\ ready' = ready \o w
           /\ \A c \in InSeq(w) : c[1] \notin MergeExits \cup {"queue_exit"}
      /\ queue'["jobs"] = <<>> /\ BuildsStay /\ StartsTold
  BY <1>1, PumpOrder
<1> QED BY <1>2, OrderStep

\* A setup phase is queued.
LEMMA SetupOrder ==
  ASSUME IInv, InLife, BuildsServed, SystemTold, NEW p \in Pkgs, ScheduleSetup(p)
  PROVE  BuildsServed' /\ SystemTold' /\ BuildsStay
<1> DEFINE t  == Setup(p)
           dq == Append(queue[QueueOf(t)], t)
           s  == [st EXCEPT ![t] = "queued"]
           ls == [listeners EXCEPT ![t] = <<"setup_exit">>]
<1>1. t \in Tasks /\ t[1] = "setup" /\ QueueOf(t) \in Queues /\ QueueOf(t) = SetupQueue
      /\ QueueOf(t) # "jobs"
  BY TaskIs, QueueIs
<1>2. /\ Pump(QueueOf(t), dq, active[QueueOf(t)], s, ls, ready, t, <<>>)
      /\ UNCHANGED <<completed, unsatisfied, resume, terminated>>
  BY <1>1 DEF ScheduleSetup, planVars, termVars, diskVars
<1>3. /\ queue[QueueOf(t)] \in Seq(Tasks)
      /\ listeners \in [Tasks -> Seq(Kinds)] /\ st \in [Tasks -> TaskStates]
  BY <1>1 DEF IInv, TypeOK, TaskStates
<1>4. <<"setup_exit">> \in Seq(Kinds) /\ "queued" \in TaskStates BY DEF Kinds, TaskStates
<1>5. /\ ls \in [Tasks -> Seq(Kinds)] /\ s \in [Tasks -> TaskStates] /\ s[t] # "run"
      /\ SameBut(t, s, ls)
  BY <1>1, <1>3, <1>4 DEF SameBut
<1>6. dq \in Seq(Tasks) /\ InSeq(dq) \subseteq InSeq(queue[QueueOf(t)]) \cup {t}
  BY <1>1, <1>3, AppendIs
<1> HIDE DEF t, dq, s, ls
<1> QED BY <1>1, <1>2, <1>5, <1>6, QuietAddOrder

\* Between main loops: when another one begins no exit callback is left.
LEMMA MainOrder ==
  ASSUME IInv, BuildsServed, SystemTold, Main
  PROVE  BuildsServed' /\ SystemTold' /\ BuildsStay
<1>1. CASE Start
  <2>1. /\ ready' \in {ready, Terminated(ready)}
        /\ terminated => terminated'
        /\ phase = "start" /\ UNCHANGED <<taskVars, completed, unsatisfied, resume>>
    BY <1>1 DEF Start, StartLoop, diskVars
  <2>2. InLife BY <2>1 DEF InLife
  <2> QED BY <2>1, <2>2, CalmStep
<1>2. CASE Finish \/ RemoveRaises
  <2>1. ~InLife' /\ UNCHANGED taskVars BY <1>2 DEF Finish, RemoveRaises, InLife
  <2> QED BY <2>1 DEF BuildsServed, SystemTold, BuildsStay, taskVars
<1>3. ASSUME NEW dropped \in SUBSET (resume \ failed), KeepGoingRound(dropped)
      PROVE  BuildsServed' /\ SystemTold' /\ BuildsStay
  <2>1. /\ phase = "exited" /\ st' = [t \in Tasks |-> "none"] /\ queue' = queue
        /\ completed' = {} /\ (terminated => terminated')
        /\ ready' \in {ready, Terminated(ready)}
    BY <1>3 DEF KeepGoingRound, StartLoop
  <2>2. InLife /\ Outside /\ ready \in Seq(Callbacks)
    BY <2>1 DEF InLife, Outside, IInv, TypeOK
  <2>3. \A t \in Tasks : st'[t] # "run" BY <2>1
  <2>4. BuildsStay BY <2>3, TaskIs DEF BuildsStay
  <2>5. BuildsServed'
    <3>1. Served(ready) /\ queue["jobs"] = <<>> BY <2>2 DEF BuildsServed
    <3>2. Served(ready') BY <3>1, <2>1, <2>2, ServedIs
    <3> QED BY <3>1, <3>2, <2>1, <2>3, TaskIs DEF BuildsServed
  <2>6. ASSUME ~terminated', NEW p \in Pkgs PROVE TellsOf(p)'
    <3>1. ~terminated /\ ready' = ready BY <2>6, <2>1 DEF Terminated
    <3>2. Orderly BY <3>1 DEF IInv, Signals, Orderly
    <3>3. Pending \subseteq {TermCallback} BY <3>2, <2>2 DEF IInv, Halting
    <3>4. \A k \in MergeExits : <<k, Merge(p)>> \notin InSeq(ready)
      BY <3>3, Others, TaskIs DEF Pending
    <3>5. Leading(ready, p) BY <3>4, <2>2, LeadsIs DEF Leading
    <3>6. st'[Merge(p)] # "run" BY <2>3, TaskIs
    <3> QED BY <3>1, <3>5, <3>6, <2>1 DEF TellsOf
  <2>7. SystemTold' BY <2>6 DEF SystemTold
  <2> QED BY <2>4, <2>5, <2>7
<1> QED BY <1>1, <1>2, <1>3 DEF Main

\* A step of _schedule_tasks, other than the start of a build.
LEMMA ScheduleOrder ==
  ASSUME IInv, BuildsServed, SystemTold, Schedule, ~StartBuild
  PROVE  BuildsServed' /\ SystemTold' /\ BuildsStay
<1> USE DEF planVars, termVars, diskVars
<1>1. CASE \/ ScheduleTasks \/ StopScheduling \/ ChooseNone \/ NoToken \/ EndIteration
           \/ Transfer /\ BatchEnds
  <2>1. /\ ready' \in {ready, Append(ready, Stopping)}
        /\ UNCHANGED <<taskVars, completed, unsatisfied, resume, terminated>>
    BY <1>1 DEF ScheduleTasks, StopScheduling, ChooseNone, NoToken, EndIteration, Transfer, Stopping
  <2>2. InLife
    BY <1>1 DEF ScheduleTasks, StopScheduling, ChooseNone, MayChoose, NoToken, CanStart,
         EndIteration, Transfer, InLife
  <2> QED BY <2>1, <2>2, CalmStep
<1>2. CASE Transfer /\ ~BatchEnds
  <2>1. /\ phase = "transfer" /\ waitQueue # <<>> /\ Add(Merge(Head(waitQueue)), "wait_exit", ready)
        /\ UNCHANGED <<completed, unsatisfied, resume, terminated>>
    BY <1>2 DEF Transfer, BatchEnds
  <2>2. InLife BY <2>1 DEF InLife
  <2>3. Head(waitQueue) \in Pkgs BY <2>1, TailIs DEF IInv, TypeOK
  <2>4. "wait_exit" \in MergeExits BY DEF MergeExits
  <2>5. ready \in {ready, Terminated(ready)} OBVIOUS
  <2> QED BY <2>1, <2>2, <2>3, <2>4, <2>5, MergeAddStep
<1>3. CASE StartUninstall
  <2> DEFINE p == pkgQueue[Chosen]
  <2>1. /\ CanStart /\ pkgQueue' = WithoutAt(pkgQueue, Chosen)
        /\ AddFront(Merge(p), "merge_exit", ready)
        /\ UNCHANGED <<completed, unsatisfied, resume, terminated>>
    BY <1>3 DEF StartUninstall
  <2>2. p \in Pkgs /\ InLife BY <2>1, TakenIs
  <2>3. "merge_exit" \in MergeExits BY DEF MergeExits
  <2>4. ready \in {ready, Terminated(ready)} OBVIOUS
  <2> HIDE DEF p
  <2> QED BY <2>1, <2>2, <2>3, <2>4, MergeAddStep
<1> QED BY <1>1, <1>2, <1>3 DEF Schedule

\* A callback of the event loop.
LEMMA CallbackOrder ==
  ASSUME IInv, BuildsServed, SystemTold, RunCallback
  PROVE  BuildsServed' /\ SystemTold' /\ BuildsStay
<1> DEFINE k == Head(ready)[1]
           t == Head(ready)[2]
<1>0. InLife /\ ready # <<>> BY DEF RunCallback, InLoop, InLife
<1>1. CASE k = "queue_exit" /\ QueueExit(t) BY <1>0, <1>1, QueueExitOrder
<1>2. CASE k = "build_exit" /\ BuildExit(t[2]) BY <1>0, <1>2, BuildExitOrder
<1>3. CASE k = "merge_exit" /\ MergeExit(t[2], FALSE) BY <1>0, <1>3, MergeExitOrder DEF MergeExits
<1>4. CASE k = "wait_exit" /\ MergeExit(t[2], TRUE) BY <1>0, <1>4, MergeExitOrder DEF MergeExits
<1>5. CASE (k = "setup_exit" /\ SetupExit) \/ (k = "stop" /\ Stop)
  <2>1. /\ ready' = Tail(ready) /\ Head(ready)[1] # "merge_started"
        /\ UNCHANGED <<taskVars, completed, unsatisfied, resume, terminated>>
    BY <1>5 DEF SetupExit, Stop, planVars, termVars, diskVars
  <2> DEFINE rd == Tail(ready)
  <2>2. /\ rd = ready \/ (ready # <<>> /\ rd = Tail(ready) /\ Head(ready)[1] # "merge_started")
        /\ ready' \in {rd, Terminated(rd), Append(rd, Stopping)}
    BY <1>0, <2>1
  <2> HIDE DEF rd
  <2> QED BY <1>0, <2>1, <2>2, CalmStep
<1>6. CASE k = "merge_started" /\ SystemMergeStarted(t[2]) BY <1>0, <1>6, StartedOrder
<1>7. CASE k = "term" /\ TerminationCheck BY <1>0, <1>7, CheckOrder
<1> QED BY <1>1, <1>2, <1>3, <1>4, <1>5, <1>6, <1>7 DEF RunCallback

\* A step of the environment.
LEMMA EnvOrder ==
  ASSUME IInv, BuildsServed, SystemTold, Env
  PROVE  BuildsServed' /\ SystemTold' /\ BuildsStay
<1> USE DEF planVars, termVars, diskVars, loopVars
<1>1. ASSUME NEW t \in Tasks, NEW result \in {"ok", "fail"}, EndTask(t, result)
      PROVE  BuildsServed' /\ SystemTold' /\ BuildsStay
  BY <1>1, EndTaskOrder
<1>2. ASSUME NEW p \in Pkgs, ScheduleSetup(p) PROVE BuildsServed' /\ SystemTold' /\ BuildsStay
  <2>1. InLife BY <1>2 DEF ScheduleSetup, InLoop, InLife
  <2> QED BY <1>2, <2>1, SetupOrder
<1>3. CASE Signal \/ Flush \/ OtherClient \/ UnblockJobs \/ MergeWakeup
  <2>1. /\ ready' \in {ready, Terminated(ready)}
        /\ terminated => terminated'
        /\ UNCHANGED <<taskVars, completed, unsatisfied, resume>>
    BY <1>3 DEF Signal, Flush, OtherClient, UnblockJobs, MergeWakeup
  <2>2. InLife' => InLife
    BY <1>3 DEF Signal, Flush, Up, OtherClient, UnblockJobs, MergeWakeup, InLoop, InLife
  <2> QED BY <2>1, <2>2, CalmStep
<1> QED BY <1>1, <1>2, <1>3 DEF Env

\* Every step keeps the two orders, and only StartBuild starts a build.
LEMMA OrderKept ==
  ASSUME IInv, BuildsServed, SystemTold, [Next]_vars
  PROVE  BuildsServed' /\ SystemTold' /\ (StartBuild \/ BuildsStay)
<1>1. CASE StartBuild BY <1>1, BuildAddStep
<1>2. CASE Main BY <1>2, MainOrder
<1>3. CASE Schedule /\ ~StartBuild BY <1>3, ScheduleOrder
<1>4. CASE RunCallback BY <1>4, CallbackOrder
<1>5. CASE Env BY <1>5, EnvOrder
<1>6. CASE UNCHANGED vars
  <2>1. /\ ready' = ready /\ phase' = phase
        /\ UNCHANGED <<taskVars, completed, unsatisfied, resume, terminated>>
    BY <1>6 DEF vars, planVars, loopVars, termVars, diskVars
  <2> QED BY <2>1, CalmStep DEF InLife
<1> QED BY <1>1, <1>2, <1>3, <1>4, <1>5, <1>6 DEF Next, Terminating

\* While a system package is merged without one of its runtime dependencies that the
\* merge list still holds, no build is started beside another one.  The dependency is
\* in _unsatisfied_system_deps by then: _system_merge_started has been called before
\* the exit callback of the merge, in whatever order they were queued and ended.
THEOREM FragileBuildsAlone == Spec => FragileSystemBuildsAlone
<1>1. Init => BuildsServed /\ SystemTold
  <2> SUFFICES ASSUME Init PROVE BuildsServed /\ SystemTold OBVIOUS
  <2>1. /\ ready = <<>> /\ completed = {} /\ queue["jobs"] = <<>>
        /\ \A t \in Tasks : st[t] # "run"
    BY DEF Init, Queues
  <2>2. Served(ready) /\ \A p \in Pkgs : Leading(ready, p)
    BY <2>1 DEF Served, Follows, Leading, Leads
  <2> QED BY <2>1, <2>2, TaskIs DEF BuildsServed, SystemTold, TellsOf
<1>2. ASSUME IInv, BuildsServed, SystemTold, [Next]_vars, NEW x \in Pkgs, Fragile(x),
             NEW p \in Pkgs, NEW q \in Pkgs, ~Alive(Build(p)), Alive(Build(p))',
             q # p, Alive(Build(q))
      PROVE  FALSE
  <2>1. StartBuild BY <1>2, OrderKept DEF BuildsStay, Alive
  <2>2. ~SchedulingBlocked /\ ~terminated /\ InLife
    BY <2>1 DEF StartBuild, CanStart, MayChoose, KeepScheduling, InLife
  <2>3. q \in UnderWay
    <3>1. listeners[Build(q)] = BuildListeners BY <1>2, <2>2 DEF BuildsServed, Alive
    <3> QED BY <3>1 DEF UnderWay, BuildListeners
  <2>4. jobs > 0
    <3>1. jobs = Cardinality(UnderWay) BY <1>2 DEF IInv, JobAccounting
    <3>2. IsFiniteSet(UnderWay) BY Given, FS_Subset DEF UnderWay
    <3>3. Cardinality(UnderWay) # 0 BY <2>3, <3>2, FS_EmptySet
    <3>4. Cardinality(UnderWay) \in Nat BY <3>2, FS_CardinalityType
    <3> QED BY <3>1, <3>3, <3>4
  <2>5. unsatisfied = {} BY <2>2, <2>4 DEF SchedulingBlocked
  <2>6. PICK d \in RuntimeDeps[x] \ (Uninstalls \cup {x}) : d \in resume
    BY <1>2 DEF Fragile
  <2>7. Told(x) BY <1>2, <2>2 DEF Fragile, SystemTold, TellsOf
  <2> QED BY <2>5, <2>6, <2>7 DEF Told
<1>3. IInv /\ BuildsServed /\ SystemTold /\ [Next]_vars => BuildsServed' /\ SystemTold'
  BY OrderKept
<1>4. IInv /\ BuildsServed /\ SystemTold /\ [Next]_vars =>
        [(\E p \in Pkgs : Fragile(p)) => ~BuildStartsBesideAnother]_vars
  BY <1>2 DEF BuildStartsBesideAnother
<1> QED BY <1>1, <1>3, <1>4, SchedulerInvariant, PTL DEF Spec, FragileSystemBuildsAlone
=============================================================================
