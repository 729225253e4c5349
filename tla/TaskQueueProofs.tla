-------------------------- MODULE TaskQueueProofs --------------------------
(***************************************************************************)
(* What a SequentialTaskQueue promises, for every max_jobs and any number  *)
(* of tasks: it is full or has nothing to start (Served), and no task is   *)
(* in it twice (NoneTwice).  Then what iter_gather promises over its       *)
(* TaskScheduler, for every max_jobs and any number of futures             *)
(* (GatherWhole).                                                          *)
(***************************************************************************)
EXTENDS TaskQueue, IterGather, FiniteSetTheorems, SequenceTheorems, TLAPS

\* A call of add, addFront or _task_exit is its own bookkeeping, followed by
\* schedule() on a deque dq and a set act that are in order.
InOrder(dq, act) ==
  /\ dq \in Seq(Tasks)
  /\ act \subseteq Tasks /\ IsFiniteSet(act)
  /\ \A i, j \in 1..Len(dq) : dq[i] = dq[j] => i = j
  /\ \A i \in 1..Len(dq) : dq[i] \notin act

IInv == TypeOK /\ Served /\ NoneTwice

\* The elements of a sequence are finitely many.
LEMMA InSeqFinite ==
  ASSUME NEW S, NEW s \in Seq(S)
  PROVE  IsFiniteSet(InSeq(s)) /\ InSeq(s) \subseteq S
<1> DEFINE f == [i \in 1..Len(s) |-> s[i]]
<1>1. IsFiniteSet(1..Len(s))
  BY FS_Interval
<1>2. f \in Surjection(1..Len(s), InSeq(s))
  BY DEF InSeq, Surjection
<1>3. IsFiniteSet(InSeq(s))
  BY <1>1, <1>2, FS_Surjection
<1> QED BY <1>3 DEF InSeq

\* The first k elements of a sequence, one more at a time.
LEMMA OneMore ==
  ASSUME NEW S, NEW s \in Seq(S), NEW k \in 1..Len(s)
  PROVE  InSeq(SubSeq(s, 1, k)) = InSeq(SubSeq(s, 1, k - 1)) \cup {s[k]}
<1>1. SubSeq(s, 1, k) \in Seq(S) /\ Len(SubSeq(s, 1, k)) = k
      /\ \A i \in 1..k : SubSeq(s, 1, k)[i] = s[i]
  BY SubSeqProperties
<1>2. Len(SubSeq(s, 1, k - 1)) = k - 1
      /\ \A i \in 1..(k - 1) : SubSeq(s, 1, k - 1)[i] = s[i]
  BY SubSeqProperties
<1>3. InSeq(SubSeq(s, 1, k)) = {s[i] : i \in 1..k}
  BY <1>1 DEF InSeq
<1>4. InSeq(SubSeq(s, 1, k - 1)) = {s[i] : i \in 1..(k - 1)}
  BY <1>2 DEF InSeq
<1>5. 1..k = 1..(k - 1) \cup {k}
  OBVIOUS
<1> QED BY <1>3, <1>4, <1>5

\* schedule() leaves the queue full or empty: the last task that it started
\* still had room, and it stopped for lack of tasks or of room.
LEMMA ScheduleServes ==
  ASSUME NEW dq, NEW act, InOrder(dq, act), Cardinality(act) <= Limit,
         Schedule(dq, act)
  PROVE  TypeOK' /\ Served'
<1> USE TaskQueueAssumption DEF InOrder
<1> DEFINE after(k) == act \cup InSeq(SubSeq(dq, 1, k))
<1>1. PICK n \in 0..Len(dq) :
        /\ Runs(Limit, dq, act, n)
        /\ queue' = SubSeq(dq, n + 1, Len(dq))
        /\ active' = after(n)
  BY DEF Schedule
<1>2. ASSUME NEW k \in 0..Len(dq)
      PROVE  IsFiniteSet(after(k)) /\ Cardinality(after(k)) \in Nat
             /\ after(k) \subseteq Tasks
  <2>1. SubSeq(dq, 1, k) \in Seq(Tasks)
    BY SubSeqProperties
  <2>2. IsFiniteSet(after(k))
    BY <2>1, InSeqFinite, FS_Union
  <2> QED BY <2>1, <2>2, InSeqFinite, FS_CardinalityType
<1>3. queue' \in Seq(Tasks) /\ Len(queue') = Len(dq) - n
  BY <1>1, SubSeqProperties
<1>4. TypeOK'
  BY <1>1, <1>2, <1>3 DEF TypeOK
<1>5. n = Len(dq) \/ Cardinality(after(n)) >= Limit
  BY <1>1 DEF Runs
<1>6. Cardinality(after(n)) <= Limit
  <2>1. CASE n = 0
    <3>1. InSeq(SubSeq(dq, 1, 0)) = {}
      BY SubSeqEmpty DEF InSeq
    <3> QED BY <2>1, <3>1
  <2>2. CASE n > 0
    <3>1. Cardinality(after(n - 1)) < Limit
      BY <1>1, <2>2 DEF Runs
    <3>2. after(n) = after(n - 1) \cup {dq[n]}
      BY <2>2, OneMore
    <3>3. n - 1 \in 0..Len(dq)
      BY <2>2
    <3> HIDE DEF after
    <3>4. IsFiniteSet(after(n - 1)) /\ Cardinality(after(n - 1)) \in Nat
      BY <1>2, <3>3
    <3>5. \/ Cardinality(after(n)) = Cardinality(after(n - 1))
          \/ Cardinality(after(n)) = Cardinality(after(n - 1)) + 1
      BY <3>2, <3>4, FS_AddElement
    <3> QED BY <3>1, <3>4, <3>5
  <2> QED BY <2>1, <2>2
<1>7. Cardinality(after(n)) \in Nat
  BY <1>2
<1>8. queue' # <<>> => Cardinality(after(n)) = Limit
  <2> HIDE DEF after
  <2>1. queue' # <<>> => n # Len(dq)
    BY <1>3
  <2> QED BY <1>5, <1>6, <1>7, <2>1
<1> QED BY <1>1, <1>4, <1>6, <1>8 DEF Served

\* schedule() moves tasks, it copies none.
LEMMA ScheduleMoves ==
  ASSUME NEW dq, NEW act, InOrder(dq, act), Schedule(dq, act)
  PROVE  NoneTwice'
<1> USE DEF InOrder
<1>1. PICK n \in 0..Len(dq) :
        /\ queue' = SubSeq(dq, n + 1, Len(dq))
        /\ active' = act \cup InSeq(SubSeq(dq, 1, n))
  BY DEF Schedule
<1>2. /\ Len(queue') = Len(dq) - n
      /\ \A i \in 1..Len(queue') : queue'[i] = dq[n + i]
  BY <1>1, SubSeqProperties
<1>3. ASSUME NEW x \in InSeq(SubSeq(dq, 1, n))
      PROVE  \E j \in 1..n : x = dq[j]
  BY SubSeqProperties DEF InSeq
<1>4. Len(dq) \in Nat
  OBVIOUS
<1>5. ASSUME NEW i \in 1..Len(queue'), NEW j \in 1..Len(queue'),
             queue'[i] = queue'[j]
      PROVE  i = j
  <2>1. n + i \in 1..Len(dq) /\ n + j \in 1..Len(dq)
    BY <1>2, <1>4
  <2>2. dq[n + i] = dq[n + j]
    BY <1>2, <1>5
  <2>3. n + i = n + j
    BY <2>1, <2>2
  <2> QED BY <2>3
<1>6. ASSUME NEW i \in 1..Len(queue') PROVE queue'[i] \notin active'
  <2>1. n + i \in 1..Len(dq) /\ queue'[i] = dq[n + i]
    BY <1>2, <1>4
  <2>2. ASSUME NEW j \in 1..n, queue'[i] = dq[j] PROVE FALSE
    <3>1. j \in 1..Len(dq) /\ j # n + i
      BY <1>4
    <3> QED BY <2>1, <2>2, <3>1
  <2>3. queue'[i] \notin InSeq(SubSeq(dq, 1, n))
    BY <1>3, <2>2
  <2>4. queue'[i] \notin act
    BY <2>1
  <2> QED BY <1>1, <2>3, <2>4
<1> QED BY <1>5, <1>6 DEF NoneTwice

LEMMA NextIInv == IInv /\ [Next]_vars => IInv'
<1> SUFFICES ASSUME IInv, [Next]_vars PROVE IInv'
  OBVIOUS
<1> USE DEF IInv, TypeOK
<1>1. CASE UNCHANGED vars
  BY <1>1 DEF vars, Served, NoneTwice
<1>2. CASE Clear
  BY <1>2 DEF Clear, Served, NoneTwice
<1>3. ASSUME NEW t \in Tasks, Add(t) PROVE IInv'
  <2>1. InOrder(Append(queue, t), active)
    BY <1>3 DEF Add, New, InOrder, InSeq, NoneTwice
  <2> QED BY <1>3, <2>1, ScheduleServes, ScheduleMoves DEF Add, Served
<1>4. ASSUME NEW t \in Tasks, AddFront(t) PROVE IInv'
  <2> DEFINE s == <<t>> \o queue
  <2>1. /\ s \in Seq(Tasks) /\ Len(s) = Len(queue) + 1
        /\ s[1] = t /\ \A i \in 2..Len(s) : i - 1 \in 1..Len(queue) /\ s[i] = queue[i - 1]
    BY ConcatProperties
  <2>2. t \notin active /\ \A i \in 1..Len(queue) : queue[i] # t
    BY <1>4 DEF AddFront, New, InSeq
  <2>3. 1..Len(s) = {1} \cup 2..Len(s)
    BY <2>1
  <2> HIDE DEF s
  <2>4. \A i, j \in 1..Len(s) : s[i] = s[j] => i = j
    <3> SUFFICES ASSUME NEW i \in 1..Len(s), NEW j \in 1..Len(s), s[i] = s[j]
                 PROVE  i = j
      OBVIOUS
    <3>1. CASE i = 1 \/ j = 1
      BY <2>1, <2>2, <2>3, <3>1
    <3>2. CASE i # 1 /\ j # 1
      BY <2>1, <2>3, <3>2 DEF NoneTwice
    <3> QED BY <3>1, <3>2
  <2>5. \A i \in 1..Len(s) : s[i] \notin active
    BY <2>1, <2>2, <2>3 DEF NoneTwice
  <2>6. InOrder(s, active)
    BY <2>1, <2>4, <2>5 DEF InOrder
  <2> QED BY <1>4, <2>6, ScheduleServes, ScheduleMoves DEF AddFront, Served, s
<1>5. ASSUME NEW t \in Tasks, TaskExit(t) PROVE IInv'
  <2>1. /\ IsFiniteSet(active \ {t})
        /\ Cardinality(active \ {t}) = Cardinality(active) - 1
    BY <1>5, FS_RemoveElement DEF TaskExit
  <2>2. Cardinality(active) \in Nat
    BY FS_CardinalityType
  <2>3. InOrder(queue, active \ {t})
    BY <2>1 DEF InOrder, NoneTwice
  <2>4. Cardinality(active \ {t}) <= Limit
    BY <2>1, <2>2, TaskQueueAssumption DEF Served
  <2> QED BY <1>5, <2>3, <2>4, ScheduleServes, ScheduleMoves DEF TaskExit
<1> QED BY <1>1, <1>2, <1>3, <1>4, <1>5 DEF Next

LEMMA InitIInv == Init => IInv
BY FS_EmptySet, TaskQueueAssumption DEF Init, IInv, TypeOK, Served, NoneTwice

\* No call strands a task that could run, and no call starts one too many.
THEOREM AlwaysServed == Spec => []Served
<1>1. IInv => Served
  BY DEF IInv
<1> QED BY <1>1, InitIInv, NextIInv, PTL DEF Spec

\* No call starts a task twice, or keeps one queued that runs.
THEOREM NeverTwice == Spec => []NoneTwice
<1>1. IInv => NoneTwice
  BY DEF IInv
<1> QED BY <1>1, InitIInv, NextIInv, PTL DEF Spec

-----------------------------------------------------------------------------
(* iter_gather (IterGather), for any number of futures and any max_jobs.     *)

Control == {"wait", "wake", "wdone", "handle"}
Plain == Control \cup {"won", "cancel result", "cancel set"}
Entry == {<<k>> : k \in Plain} \cup ({"done", "exit"} \X Futures)
GatherTyped ==
  /\ total \in 0 .. MaxFutures /\ yielded \in 0 .. total
  /\ exhausted \in BOOLEAN /\ stopped \in BOOLEAN /\ ended \in BOOLEAN
  /\ fst \in [Futures -> {"new", "pending", "ok", "failed", "cancelled"}]
  /\ running \subseteq 1 .. yielded /\ futureMap \subseteq 1 .. yielded
  /\ waits \in [at : {"none", "start", "blocked", "woken", "over"}, on : SUBSET Futures, cancelled : BOOLEAN]
  /\ fset \in {"none", "pending", "done", "cancelled"}
  /\ result \in {"none", "pending", "set", "cancelled"}
  /\ gready \in Seq(Entry)

Slots    == 1 .. Len(gready)
Kind(i)  == gready[i][1]
Of(i)    == gready[i][2]
Ended(i) == Kind(i) \in {"done", "exit"}

\* The futures of running tasks that are done: each has one callback in the queue.
Finished == {f \in running : Over(f)}
Queued ==
  /\ \A i \in Slots : Ended(i) => Of(i) \in Finished
  /\ \A i, j \in Slots : Ended(i) /\ Ended(j) /\ Of(i) = Of(j) => i = j
  /\ \A f \in Finished : \E i \in Slots : Ended(i) /\ Of(i) = f

\* What is under way has a task.
Counted ==
  /\ Cardinality(running) <= MaxJobs
  /\ \A f \in Futures : /\ fst[f] = "pending" => f \in running
                        /\ fst[f] = "new" <=> f > yielded
                        /\ fst[f] = "cancelled" => stopped
  /\ exhausted => yielded = total

\* While the result is pending, the loop has one call in the queue, unless it waits for a
\* future.
Due ==
  CASE waits.at = "start" -> "wait"
    [] waits.at = "woken" -> "wake"
    [] waits.at = "over" -> IF fset = "pending" THEN "wdone" ELSE "handle"
    [] OTHER -> "none"
OneCall ==
  /\ \A i, j \in Slots : Kind(i) \in Control /\ Kind(j) \in Control => i = j
  /\ \A i \in Slots : Kind(i) \in Control => Kind(i) = Due

\* The tasks of futures that the wait has found done end before the map is looked at.
Before ==
  waits.at = "over" =>
    /\ \A f \in waits.on : Over(f)
    /\ \A p, i \in Slots :
         Kind(p) \in {"wdone", "handle"} /\ Ended(i) /\ Of(i) \in waits.on =>
           IF fset = "done" THEN Kind(i) = "exit" /\ i < p ELSE Kind(i) = "done" => i < p
AtWork ==
  /\ ~stopped /\ ~waits.cancelled
  /\ fset \in {"pending", "done"} /\ (waits.at # "over" => fset = "pending")
  /\ OneCall /\ Before
  /\ running \subseteq futureMap \cup (IF fset = "done" THEN waits.on ELSE {})
  /\ running = {} => exhausted

GatherInv ==
  /\ GatherTyped /\ Queued /\ Counted
  /\ result = "none" => gready = << >> /\ running = {} /\ ~stopped /\ ~exhausted /\ yielded = 0
                       /\ waits.at = "none"
  /\ result = "pending" => AtWork
  /\ result = "set" =>
       /\ exhausted /\ running = {} /\ \A f \in 1 .. total : fst[f] \in {"ok", "failed"}
       /\ waits.at \in {"none", "over"} /\ \A i \in Slots : Kind(i) \notin Control
  /\ \A i \in Slots : Kind(i) \in {"cancel result", "cancel set"} => result = "cancelled"

-----------------------------------------------------------------------------
(* The queue of callbacks.                                                  *)

\* The first d calls leave the queue and those of s join it.
Shifted(d, s) ==
  LET n == Len(gready) - d
  IN  /\ gready' \in Seq(Entry) /\ Len(gready') = n + Len(s) /\ n \in Nat /\ Len(s) \in Nat
      /\ \A i \in 1 .. n : gready'[i] = gready[i + d]
      /\ \A i \in 1 .. Len(s) : gready'[n + i] = s[i]

\* Whose call leaves.
Left(d) == IF d = 1 /\ Ended(1) THEN {Of(1)} ELSE {}

\* The calls of s are those of the futures in S, one of each, and no control.
Brings(s, S) ==
  /\ s \in Seq(Entry)
  /\ \A i \in 1 .. Len(s) : s[i][1] \in {"done", "exit"} => s[i][2] \in S
  /\ \A i, j \in 1 .. Len(s) :
       s[i][1] \in {"done", "exit"} /\ s[j][1] \in {"done", "exit"} /\ s[i][2] = s[j][2] => i = j
  /\ \A f \in S : \E i \in 1 .. Len(s) : s[i][1] \in {"done", "exit"} /\ s[i][2] = f

\* What the entries of the queue are.
LEMMA Entries ==
  /\ \A k \in Plain : <<k>> \in Entry /\ <<k>>[1] = k
  /\ \A k \in {"done", "exit"}, f \in Futures : <<k, f>> \in Entry /\ <<k, f>>[1] = k /\ <<k, f>>[2] = f
  /\ \A t \in Entry : t[1] \in {"done", "exit"} => t[2] \in Futures
<1>1. \A k \in Plain : <<k>> \in Entry /\ <<k>>[1] = k
  <2>1. \A k \in Plain : <<k>> \in Entry
    BY DEF Entry
  <2>2. \A k : <<k>>[1] = k
    OBVIOUS
  <2> QED BY <2>1, <2>2
<1>2. \A k \in {"done", "exit"}, f \in Futures : <<k, f>> \in Entry
  BY DEF Entry
<1>3. \A k, f : <<k, f>>[1] = k /\ <<k, f>>[2] = f
  OBVIOUS
<1>4. ASSUME NEW t \in Entry, t[1] \in {"done", "exit"} PROVE t[2] \in Futures
  <2>1. CASE t \in {<<k>> : k \in Plain}
    <3>1. t[1] \in Plain
      BY <1>1, <2>1
    <3> QED BY <1>4, <3>1 DEF Plain, Control
  <2>2. CASE t \in ({"done", "exit"} \X Futures)
    BY <2>2
  <2>3. \/ t \in {<<k>> : k \in Plain}
        \/ t \in ({"done", "exit"} \X Futures)
    BY DEF Entry
  <2> QED BY <2>1, <2>2, <2>3
<1> QED BY <1>1, <1>2, <1>3, <1>4

\* The step of a callback.
LEMMA CallShifts ==
  ASSUME gready \in Seq(Entry), gready # << >>, NEW s \in Seq(Entry), Calls(s)
  PROVE  Shifted(1, s) /\ 1 \in Slots /\ Head(gready) = gready[1]
<1>1. /\ Tail(gready) \in Seq(Entry) /\ Len(Tail(gready)) = Len(gready) - 1
      /\ \A i \in 1 .. Len(Tail(gready)) : Tail(gready)[i] = gready[i + 1]
  BY HeadTailProperties
<1>2. Len(gready) \in Nat /\ Len(gready) # 0 /\ Len(s) \in Nat
  OBVIOUS
<1> DEFINE t == Tail(gready)
<1> HIDE DEF t
<1>3. /\ t \o s \in Seq(Entry) /\ Len(t \o s) = Len(t) + Len(s)
      /\ \A i \in 1 .. Len(t) + Len(s) : (t \o s)[i] = IF i <= Len(t) THEN t[i] ELSE s[i - Len(t)]
  BY <1>1, ConcatProperties DEF t
<1>4. gready' = t \o s
  BY DEF Calls, t
<1>5. Len(t) = Len(gready) - 1 /\ Len(t) \in Nat /\ \A i \in 1 .. Len(t) : t[i] = gready[i + 1]
  BY <1>1, <1>2 DEF t
<1>6. \A i \in 1 .. Len(t) : gready'[i] = gready[i + 1]
  BY <1>2, <1>3, <1>4, <1>5
<1>7. \A i \in 1 .. Len(s) : gready'[Len(t) + i] = s[i]
  <2> SUFFICES ASSUME NEW i \in 1 .. Len(s) PROVE gready'[Len(t) + i] = s[i]
    OBVIOUS
  <2>1. Len(t) + i \in 1 .. Len(t) + Len(s) /\ ~(Len(t) + i <= Len(t)) /\ (Len(t) + i) - Len(t) = i
    BY <1>2, <1>5
  <2> QED BY <1>3, <1>4, <2>1
<1> QED BY <1>2, <1>3, <1>4, <1>5, <1>6, <1>7 DEF Shifted, Slots

\* Calls that join the queue.
LEMMA JoinShifts ==
  ASSUME gready \in Seq(Entry), NEW s \in Seq(Entry), gready' = gready \o s
  PROVE  Shifted(0, s)
<1>1. /\ gready' \in Seq(Entry) /\ Len(gready') = Len(gready) + Len(s)
      /\ \A i \in 1 .. Len(gready) + Len(s) :
           gready'[i] = IF i <= Len(gready) THEN gready[i] ELSE s[i - Len(gready)]
  BY ConcatProperties
<1>2. Len(gready) \in Nat /\ Len(s) \in Nat
  OBVIOUS
<1>3. \A i \in 1 .. Len(s) : gready'[Len(gready) + i] = s[i]
  <2> SUFFICES ASSUME NEW i \in 1 .. Len(s) PROVE gready'[Len(gready) + i] = s[i]
    OBVIOUS
  <2>1. /\ Len(gready) + i \in 1 .. Len(gready) + Len(s) /\ ~(Len(gready) + i <= Len(gready))
        /\ (Len(gready) + i) - Len(gready) = i
    BY <1>2
  <2> QED BY <1>1, <2>1
<1>4. \A i \in 1 .. Len(gready) : gready'[i] = gready[i]
  BY <1>1, <1>2
<1> QED BY <1>1, <1>2, <1>3, <1>4 DEF Shifted

\* Where the calls of the next queue come from.
LEMMA Origin ==
  ASSUME gready \in Seq(Entry), NEW d \in {0, 1}, NEW s \in Seq(Entry), Shifted(d, s)
  PROVE  /\ \A i \in Slots' : \/ i + d \in Slots /\ gready'[i] = gready[i + d]
                              \/ \E k \in 1 .. Len(s) : i = Len(gready) - d + k /\ gready'[i] = s[k]
         /\ \A i \in Slots : i # d => i - d \in Slots' /\ gready'[i - d] = gready[i]
         /\ \A k \in 1 .. Len(s) : Len(gready) - d + k \in Slots' /\ gready'[Len(gready) - d + k] = s[k]
         /\ Len(gready) \in Nat /\ Slots \subseteq Nat /\ Slots' \subseteq Nat
<1> DEFINE n == Len(gready) - d
<1>1. /\ Len(gready') = n + Len(s) /\ n \in Nat /\ Len(s) \in Nat /\ Len(gready) \in Nat
      /\ \A i \in 1 .. n : gready'[i] = gready[i + d]
      /\ \A i \in 1 .. Len(s) : gready'[n + i] = s[i]
  BY DEF Shifted
<1>2. ASSUME NEW i \in Slots'
      PROVE  \/ i + d \in Slots /\ gready'[i] = gready[i + d]
             \/ \E k \in 1 .. Len(s) : i = n + k /\ gready'[i] = s[k]
  <2>1. CASE i <= n
    BY <1>1, <1>2, <2>1 DEF Slots
  <2>2. CASE ~(i <= n)
    <3>1. i - n \in 1 .. Len(s) /\ i = n + (i - n)
      BY <1>1, <1>2, <2>2 DEF Slots
    <3> HIDE DEF n
    <3> QED BY <1>1, <3>1
  <2> QED BY <2>1, <2>2
<1>3. ASSUME NEW i \in Slots, i # d PROVE i - d \in Slots' /\ gready'[i - d] = gready[i]
  <2>1. i - d \in 1 .. n /\ (i - d) + d = i
    BY <1>1, <1>3 DEF Slots
  <2> QED BY <1>1, <2>1 DEF Slots
<1>4. \A k \in 1 .. Len(s) : n + k \in Slots' /\ gready'[n + k] = s[k]
  BY <1>1 DEF Slots
<1> QED BY <1>1, <1>2, <1>3, <1>4 DEF Slots

\* Each finished future has one call in the queue, if what joins it brings one of each
\* future that is new among them.
LEMMA QueueKept ==
  ASSUME gready \in Seq(Entry), Queued, NEW d \in {0, 1}, NEW s, NEW S, Shifted(d, s), Brings(s, S),
         d = 1 => 1 \in Slots,
         Finished' = (Finished \ Left(d)) \cup S, (Finished \ Left(d)) \cap S = {}
  PROVE  Queued'
<1> DEFINE left == Left(d)
<1> DEFINE n == Len(gready) - d
<1>0. s \in Seq(Entry)
  BY DEF Brings
<1>1. /\ \A i \in Slots' : \/ i + d \in Slots /\ gready'[i] = gready[i + d]
                           \/ \E k \in 1 .. Len(s) : i = n + k /\ gready'[i] = s[k]
      /\ \A i \in Slots : i # d => i - d \in Slots' /\ gready'[i - d] = gready[i]
      /\ \A k \in 1 .. Len(s) : n + k \in Slots' /\ gready'[n + k] = s[k]
      /\ Len(gready) \in Nat /\ Slots \subseteq Nat /\ Slots' \subseteq Nat
  BY <1>0, Origin
<1>2. ASSUME NEW i \in Slots, Ended(i), i # d PROVE Of(i) \in Finished \ left
  <2>1. Of(i) \in Finished
    BY <1>2 DEF Queued
  <2>2. Of(i) \notin left
    BY <1>2 DEF Queued, Left
  <2> QED BY <2>1, <2>2
<1> HIDE DEF n
<1> HIDE DEF left
<1>3. ASSUME NEW i \in Slots', Ended(i)'
      PROVE  \/ i + d \in Slots /\ i + d # d /\ Ended(i + d) /\ Of(i + d) = Of(i)' /\ Of(i)' \in Finished \ left
             \/ \E k \in 1 .. Len(s) : /\ i = n + k /\ s[k][1] \in {"done", "exit"} /\ s[k][2] = Of(i)'
                                       /\ Of(i)' \in S
  <2>1. CASE i + d \in Slots /\ gready'[i] = gready[i + d]
    <3>1. i + d # d
      BY <1>3, <1>1 DEF Slots
    <3>2. Ended(i + d) /\ Of(i + d) = Of(i)'
      BY <1>3, <2>1 DEF Ended, Kind, Of
    <3> QED BY <1>2, <2>1, <3>1, <3>2
  <2>2. ASSUME NEW k \in 1 .. Len(s), i = n + k, gready'[i] = s[k]
        PROVE  s[k][1] \in {"done", "exit"} /\ s[k][2] = Of(i)' /\ Of(i)' \in S
    BY <1>3, <2>2 DEF Ended, Kind, Of, Brings
  <2> QED BY <1>1, <2>1, <2>2
<1>4. ASSUME NEW i \in Slots', Ended(i)' PROVE Of(i)' \in Finished'
  BY <1>3, <1>4 DEF left
<1>5. ASSUME NEW i \in Slots', NEW j \in Slots', Ended(i)', Ended(j)', Of(i)' = Of(j)' PROVE i = j
  <2>1. CASE i + d \in Slots /\ j + d \in Slots /\ Ended(i + d) /\ Ended(j + d)
             /\ Of(i + d) = Of(i)' /\ Of(j + d) = Of(j)'
    <3>1. i + d = j + d
      BY <1>5, <2>1 DEF Queued
    <3> QED BY <1>1, <3>1
  <2>2. ASSUME NEW k \in 1 .. Len(s), NEW m \in 1 .. Len(s), i = n + k, j = n + m,
               s[k][1] \in {"done", "exit"}, s[k][2] = Of(i)', s[m][1] \in {"done", "exit"}, s[m][2] = Of(j)'
        PROVE  i = j
    BY <1>5, <2>2 DEF Brings
  <2>3. Of(i)' \in Finished \ left => Of(i)' \notin S
    BY DEF left
  <2> QED BY <1>3, <1>5, <2>1, <2>2, <2>3
<1>6. ASSUME NEW f \in Finished' PROVE \E i \in Slots' : Ended(i)' /\ Of(i)' = f
  <2>1. CASE f \in Finished \ left
    <3>1. PICK i \in Slots : Ended(i) /\ Of(i) = f
      BY <2>1 DEF Queued
    <3>2. i # d
      BY <2>1, <3>1, <1>1 DEF Slots, left, Left
    <3> QED BY <1>1, <3>1, <3>2 DEF Ended, Kind, Of
  <2>2. CASE f \in S
    <3>1. PICK k \in 1 .. Len(s) : s[k][1] \in {"done", "exit"} /\ s[k][2] = f
      BY <2>2 DEF Brings
    <3> QED BY <1>1, <3>1 DEF Ended, Kind, Of
  <2> QED BY <1>6, <2>1, <2>2 DEF left
<1> QED BY <1>4, <1>5, <1>6 DEF Queued

\* The callbacks of the futures of S.
LEMMA CallbacksBring ==
  ASSUME NEW S \in SUBSET Futures, IsFiniteSet(S), NEW q \in InTurn(S)
  PROVE  /\ Brings(Callbacks(q), S)
         /\ \A i \in 1 .. Len(Callbacks(q)) : Callbacks(q)[i][1] \in {"done", "won"}
         /\ S = {} => q = << >> /\ Callbacks(q) = << >>
<1> DEFINE n == Cardinality(S)
           a == [i \in 1 .. n |-> <<"done", q[i]>>]
           b == IF waits.at = "blocked" /\ \E i \in DOMAIN q : q[i] \in waits.on THEN <<<<"won">>>> ELSE << >>
<1>1. n \in Nat /\ IsFiniteSet(1 .. n) /\ Cardinality(1 .. n) = n
  <2>1. n \in Nat
    BY FS_CardinalityType
  <2> QED BY <2>1, FS_Interval
<1>2. q \in [1 .. n -> S] /\ \A f \in S : \E i \in 1 .. n : q[i] = f
  BY DEF InTurn
<1>3. q \in Surjection(1 .. n, S)
  BY <1>2 DEF Surjection
<1>4. \A i, j \in 1 .. n : q[i] = q[j] => i = j
  <2>1. Cardinality(1 .. n) = Cardinality(S)
    BY <1>1
  <2> HIDE DEF n
  <2>2. q \in Injection(1 .. n, S)
    BY <1>1, <1>3, <2>1, FS_SurjSameCardinalityImpliesInj
  <2> QED BY <2>2 DEF Injection, IsInjective
<1>5. Callbacks(q) = a \o b
  BY <1>2 DEF Callbacks
<1>6. a \in Seq(Entry) /\ Len(a) = n /\ \A i \in 1 .. n : a[i] = <<"done", q[i]>>
  <2>1. \A i \in 1 .. n : q[i] \in Futures
    BY <1>2
  <2> HIDE DEF n
  <2>2. \A i \in 1 .. n : <<"done", q[i]>> \in Entry
    BY <2>1, Entries
  <2>3. a \in [1 .. n -> Entry]
    BY <2>2
  <2>4. a \in Seq(Entry) /\ Len(a) = n
    BY <1>1, <2>3
  <2> QED BY <2>4
<1>7. b \in Seq(Entry) /\ Len(b) \in {0, 1} /\ \A i \in 1 .. Len(b) : b[i] = <<"won">>
  <2>1. <<"won">> \in Entry
    BY Entries DEF Plain
  <2> QED BY <2>1
<1> HIDE DEF a, b, n
<1>8. /\ a \o b \in Seq(Entry) /\ Len(a \o b) = n + Len(b)
      /\ \A i \in 1 .. n + Len(b) : (a \o b)[i] = IF i <= n THEN a[i] ELSE b[i - n]
  BY <1>6, <1>7, ConcatProperties
<1> DEFINE s == a \o b
<1> HIDE DEF s
<1>9. ASSUME NEW i \in 1 .. Len(s)
      PROVE  \/ i \in 1 .. n /\ s[i] = <<"done", q[i]>>
             \/ i \notin 1 .. n /\ s[i] = <<"won">>
  <2>1. CASE i <= n
    BY <1>1, <1>6, <1>7, <1>8, <1>9, <2>1 DEF s
  <2>2. CASE ~(i <= n)
    <3>1. i - n \in 1 .. Len(b)
      BY <1>1, <1>7, <1>8, <1>9, <2>2 DEF s
    <3> QED BY <1>1, <1>7, <1>8, <1>9, <2>2, <3>1 DEF s
  <2> QED BY <2>1, <2>2
<1>10. ASSUME NEW i \in 1 .. n PROVE i \in 1 .. Len(s) /\ s[i] = <<"done", q[i]>>
  BY <1>1, <1>6, <1>7, <1>8, <1>10 DEF s
<1>11. /\ \A i \in 1 .. Len(s) : s[i][1] \in {"done", "won"}
       /\ \A i \in 1 .. Len(s) : s[i][1] \in {"done", "exit"} => i \in 1 .. n /\ s[i][2] = q[i]
  BY <1>9
<1>12. s \in Seq(Entry) /\ Callbacks(q) = s
  BY <1>5, <1>8 DEF s
<1>13. \A f \in S : \E i \in 1 .. Len(s) : s[i][1] \in {"done", "exit"} /\ s[i][2] = f
  BY <1>2, <1>10
<1>14. Brings(s, S)
  BY <1>2, <1>4, <1>11, <1>12, <1>13 DEF Brings
<1>15. S = {} => q = << >> /\ s = << >>
  <2> SUFFICES ASSUME S = {} PROVE q = << >> /\ s = << >>
    OBVIOUS
  <2>1. n = 0
    BY FS_EmptySet DEF n
  <2>2. q = << >>
    BY <1>2, <2>1
  <2>3. b = << >>
    BY <2>2 DEF b
  <2>4. Len(s) = 0
    BY <1>8, <2>1, <2>3 DEF s
  <2> QED BY <1>12, <2>2, <2>4
<1> QED BY <1>11, <1>12, <1>14, <1>15

\* One more call that is nobody's.
LEMMA BringsMore ==
  ASSUME NEW s, NEW S, Brings(s, S), NEW e \in Entry, e[1] \notin {"done", "exit"}
  PROVE  Brings(Append(s, e), S)
<1> DEFINE a == Append(s, e)
<1>1. s \in Seq(Entry) /\ Len(s) \in Nat
  BY DEF Brings
<1>2. /\ a \in Seq(Entry) /\ Len(a) = Len(s) + 1 /\ a[Len(s) + 1] = e
      /\ \A i \in 1 .. Len(s) : a[i] = s[i]
  BY <1>1, AppendProperties
<1> HIDE DEF a
<1>3. \A i \in 1 .. Len(a) : i \in 1 .. Len(s) \/ (i = Len(s) + 1 /\ a[i] = e)
  BY <1>1, <1>2
<1>4. \A i \in 1 .. Len(s) : i \in 1 .. Len(a)
  BY <1>1, <1>2
<1>5. \A i \in 1 .. Len(a) : a[i][1] \in {"done", "exit"} => i \in 1 .. Len(s) /\ a[i] = s[i]
  BY <1>2, <1>3
<1>6. \A f \in S : \E i \in 1 .. Len(a) : a[i][1] \in {"done", "exit"} /\ a[i][2] = f
  <2> SUFFICES ASSUME NEW f \in S PROVE \E i \in 1 .. Len(a) : a[i][1] \in {"done", "exit"} /\ a[i][2] = f
    OBVIOUS
  <2>1. PICK i \in 1 .. Len(s) : s[i][1] \in {"done", "exit"} /\ s[i][2] = f
    BY DEF Brings
  <2> QED BY <1>2, <1>4, <2>1
<1>7. Brings(a, S)
  BY <1>2, <1>5, <1>6 DEF Brings
<1> QED BY <1>7 DEF a

\* Calls that are nobody's.
LEMMA BringsNothing ==
  ASSUME NEW s \in Seq(Entry), \A i \in 1 .. Len(s) : s[i][1] \notin {"done", "exit"}
  PROVE  Brings(s, {})
BY DEF Brings

\* The loop's one call, when those of s join the queue.
LEMMA CallKept ==
  ASSUME gready \in Seq(Entry), OneCall, NEW d \in {0, 1}, NEW s \in Seq(Entry), Shifted(d, s),
         \/ /\ \A k \in 1 .. Len(s) : s[k][1] \notin Control
            /\ Due' = Due \/ \A i \in Slots : i # d => Kind(i) \notin Control
         \/ /\ Len(s) = 1 /\ s[1][1] = Due'
            /\ \A i \in Slots : i # d => Kind(i) \notin Control
  PROVE  OneCall'
<1>1. /\ \A i \in Slots' : \/ i + d \in Slots /\ gready'[i] = gready[i + d]
                           \/ \E k \in 1 .. Len(s) : i = Len(gready) - d + k /\ gready'[i] = s[k]
      /\ Len(gready) \in Nat /\ Slots \subseteq Nat /\ Slots' \subseteq Nat
  BY Origin
<1>2. \A i \in Slots' : i + d # d
  BY DEF Slots
<1>3. CASE /\ \A k \in 1 .. Len(s) : s[k][1] \notin Control
           /\ Due' = Due \/ \A i \in Slots : i # d => Kind(i) \notin Control
  <2>1. ASSUME NEW i \in Slots', Kind(i)' \in Control
        PROVE  i + d \in Slots /\ Kind(i + d) = Kind(i)' /\ Kind(i)' = Due'
    <3>1. i + d \in Slots /\ gready'[i] = gready[i + d]
      BY <1>1, <1>3, <2>1 DEF Kind
    <3> QED BY <1>2, <1>3, <2>1, <3>1 DEF Kind, OneCall
  <2>2. ASSUME NEW i \in Slots', NEW j \in Slots', Kind(i)' \in Control, Kind(j)' \in Control PROVE i = j
    <3>1. i + d = j + d
      BY <2>1, <2>2 DEF OneCall
    <3> QED BY <1>1, <3>1
  <2> QED BY <2>1, <2>2 DEF OneCall
<1>4. CASE /\ Len(s) = 1 /\ s[1][1] = Due'
           /\ \A i \in Slots : i # d => Kind(i) \notin Control
  <2>1. ASSUME NEW i \in Slots', Kind(i)' \in Control
        PROVE  i = Len(gready) - d + 1 /\ Kind(i)' = Due'
    BY <1>1, <1>2, <1>4, <2>1 DEF Kind
  <2> QED BY <2>1 DEF OneCall
<1> QED BY <1>3, <1>4

\* The calls of the tasks that end before the map is looked at, when those of s join them.
LEMMA BeforeKept ==
  ASSUME gready \in Seq(Entry), Before, NEW d \in {0, 1}, NEW s \in Seq(Entry), Shifted(d, s),
         waits' = waits, fset' = fset, \A f \in waits.on : Over(f) => Over(f)',
         \A k \in 1 .. Len(s) :
           /\ s[k][1] \notin {"wdone", "handle"}
           /\ s[k][1] \in {"done", "exit"} /\ s[k][2] \in waits.on /\ waits.at = "over" =>
                /\ s[k][1] = "exit"
                /\ fset = "done" => d = 1 /\ 1 \in Slots /\ Kind(1) = "done" /\ Of(1) = s[k][2]
  PROVE  Before'
<1>1. /\ \A i \in Slots' : \/ i + d \in Slots /\ gready'[i] = gready[i + d]
                           \/ \E k \in 1 .. Len(s) : i = Len(gready) - d + k /\ gready'[i] = s[k]
      /\ Len(gready) \in Nat /\ Slots \subseteq Nat /\ Slots' \subseteq Nat
  BY Origin
<1> SUFFICES ASSUME waits.at = "over" PROVE Before'
  BY DEF Before
<1>2. \A f \in waits.on : Over(f)'
  BY DEF Before
<1>3. ASSUME NEW p \in Slots', NEW i \in Slots', Kind(p)' \in {"wdone", "handle"}, Ended(i)', Of(i)' \in waits.on
      PROVE  IF fset = "done" THEN Kind(i)' = "exit" /\ i < p ELSE Kind(i)' = "done" => i < p
  <2>1. p + d \in Slots /\ Kind(p + d) = Kind(p)'
    BY <1>1, <1>3 DEF Kind
  <2>2. CASE i + d \in Slots /\ gready'[i] = gready[i + d]
    <3>1. Ended(i + d) /\ Kind(i + d) = Kind(i)' /\ Of(i + d) \in waits.on
      BY <1>3, <2>2 DEF Ended, Kind, Of
    <3>2. i + d < p + d => i < p
      BY <1>1
    <3> QED BY <1>3, <2>1, <2>2, <3>1, <3>2 DEF Before
  <2>3. ASSUME NEW k \in 1 .. Len(s), gready'[i] = s[k]
        PROVE  IF fset = "done" THEN Kind(i)' = "exit" /\ i < p ELSE Kind(i)' = "done" => i < p
    <3>1. /\ s[k][1] \in {"done", "exit"} /\ s[k][2] \in waits.on /\ s[k][1] = "exit" /\ Kind(i)' = "exit"
          /\ fset = "done" => 1 \in Slots /\ Kind(1) = "done" /\ Of(1) \in waits.on
      BY <1>3, <2>3 DEF Ended, Kind, Of
    <3>2. fset # "done"
      BY <1>3, <2>1, <3>1 DEF Before, Ended
    <3> QED BY <3>1, <3>2
  <2> QED BY <1>1, <2>2, <2>3
<1> QED BY <1>2, <1>3 DEF Before

\* Only a cancellation queues the callbacks of one.
LEMMA CancelsKept ==
  ASSUME gready \in Seq(Entry), NEW d \in {0, 1}, NEW s \in Seq(Entry), Shifted(d, s),
         result = "cancelled" => result' = "cancelled",
         \A i \in Slots : Kind(i) \in {"cancel result", "cancel set"} => result = "cancelled",
         \A k \in 1 .. Len(s) : s[k][1] \in {"cancel result", "cancel set"} => result' = "cancelled"
  PROVE  \A i \in Slots' : Kind(i)' \in {"cancel result", "cancel set"} => result' = "cancelled"
<1> SUFFICES ASSUME NEW i \in Slots', Kind(i)' \in {"cancel result", "cancel set"} PROVE result' = "cancelled"
  OBVIOUS
<1>1. \/ i + d \in Slots /\ gready'[i] = gready[i + d]
      \/ \E k \in 1 .. Len(s) : i = Len(gready) - d + k /\ gready'[i] = s[k]
  BY Origin
<1> QED BY <1>1 DEF Kind

\* _schedule_tasks with the tasks run.
LEMMA Schedules ==
  ASSUME GatherTyped, Counted, NEW run \in SUBSET running, \A f \in running \ run : Over(f),
         NEW new, NEW done, Scheduled(run, new, done)
  PROVE  /\ new \in SUBSET Futures /\ done \subseteq new /\ IsFiniteSet(done)
         /\ total' = total /\ stopped' = stopped /\ yielded' \in yielded .. total
         /\ exhausted' \in BOOLEAN /\ ended' \in BOOLEAN
         /\ \A f \in Futures : f \in new <=> yielded < f /\ f <= yielded'
         /\ running' = run \cup new /\ running' \subseteq 1 .. yielded'
         /\ fst' \in [Futures -> {"new", "pending", "ok", "failed", "cancelled"}]
         /\ \A f \in Futures : fst'[f] = IF f \in done THEN "ok" ELSE IF f \in new THEN "pending" ELSE fst[f]
         /\ Finished' = {f \in run : Over(f)} \cup done /\ Finished \cap new = {}
         /\ Counted'
         /\ stopped => new = {}
         /\ running' = {} /\ ~stopped => exhausted'
<1>1. PICK last \in BOOLEAN : ScheduleTasks(run, new, done, last)
  BY DEF Scheduled
<1> DEFINE n == Cardinality(run)
           m == Cardinality(new)
<1>2. new \in SUBSET Futures /\ done \subseteq new
  BY DEF Scheduled
<1>3. /\ MaxFutures \in Nat /\ MaxJobs \in Nat /\ MaxJobs >= 1 /\ total \in Nat /\ yielded \in Nat
      /\ total <= MaxFutures /\ yielded <= total /\ running \subseteq 1 .. yielded
  BY GatherAssumption DEF GatherTyped
<1>4. IsFiniteSet(Futures) /\ IsFiniteSet(running)
  <2>1. IsFiniteSet(1 .. MaxFutures) /\ IsFiniteSet(1 .. yielded)
    BY <1>3, FS_Interval
  <2>2. IsFiniteSet(running)
    BY <1>3, <2>1, FS_Subset
  <2> QED BY <2>1, <2>2 DEF Futures
<1>5. IsFiniteSet(new) /\ IsFiniteSet(done) /\ IsFiniteSet(run) /\ m \in Nat /\ n \in Nat /\ n <= MaxJobs
  <2>1. IsFiniteSet(new) /\ IsFiniteSet(run) /\ n <= Cardinality(running)
    BY <1>2, <1>4, FS_Subset
  <2>2. IsFiniteSet(done)
    BY <1>2, <2>1, FS_Subset
  <2>3. m \in Nat /\ n \in Nat /\ Cardinality(running) \in Nat
    BY <1>4, <2>1, FS_CardinalityType
  <2> QED BY <1>3, <2>1, <2>2, <2>3 DEF Counted
<1>6. /\ (m = 0 <=> new = {}) /\ (n = 0 <=> run = {})
      /\ Cardinality(run \cup new) = n + m - Cardinality(run \cap new)
  BY <1>5, FS_EmptySet, FS_Union
<1>7. /\ new = (yielded + 1) .. (yielded + m) /\ yielded + m <= total
      /\ yielded' = yielded + m /\ exhausted' = last /\ running' = run \cup new
      /\ fst' = [f \in Futures |-> IF f \in done THEN "ok" ELSE IF f \in new THEN "pending" ELSE fst[f]]
      /\ ended' = (ended \/ (running' = {} /\ (last \/ stopped)))
      /\ total' = total /\ stopped' = stopped
  BY <1>1 DEF ScheduleTasks
<1>8. IF stopped \/ exhausted
      THEN m = 0 /\ last = exhausted
      ELSE /\ m > 0 => n + m <= MaxJobs
           /\ last => yielded + m = total
           /\ ~last => n + m >= MaxJobs \/ (MaxJobs > 1 /\ n + m >= 1)
  BY <1>1 DEF ScheduleTasks, MayRefuse
<1> HIDE DEF n, m
<1>9. \A f \in Futures : f \in new <=> yielded < f /\ f <= yielded'
  BY <1>3, <1>5, <1>7 DEF Futures
<1>10. running' \subseteq 1 .. yielded' /\ yielded' \in yielded .. total
  BY <1>3, <1>5, <1>7
<1>11. fst' \in [Futures -> {"new", "pending", "ok", "failed", "cancelled"}]
  BY <1>7 DEF GatherTyped
<1>12. \A f \in Futures : fst'[f] = IF f \in done THEN "ok" ELSE IF f \in new THEN "pending" ELSE fst[f]
  BY <1>7
<1>13. running \subseteq Futures /\ running \cap new = {}
  <2>1. running \subseteq Futures
    BY <1>3 DEF Futures
  <2>2. ASSUME NEW f \in running PROVE f \notin new
    <3>1. f \in Nat /\ f <= yielded
      BY <1>3, <2>2
    <3> QED BY <1>3, <1>9, <2>1, <3>1
  <2> QED BY <2>1, <2>2
<1>14. Finished' = {f \in run : Over(f)} \cup done
  BY <1>2, <1>7, <1>12, <1>13 DEF Finished, Over
<1>15. Counted'
  <2>1. Cardinality(running') <= MaxJobs
    <3>1. CASE m = 0
      <4>1. run \cup new = run
        BY <1>6, <3>1
      <4> QED BY <1>5, <1>7, <4>1 DEF n
    <3>2. CASE m # 0
      <4>1. n + m <= MaxJobs
        BY <1>5, <1>8, <3>2
      <4>2. IsFiniteSet(run \cap new) /\ Cardinality(run \cap new) \in Nat
        BY <1>5, FS_Subset, FS_CardinalityType
      <4> QED BY <1>3, <1>5, <1>6, <1>7, <4>1, <4>2
    <3> QED BY <3>1, <3>2
  <2>2. exhausted' => yielded' = total
    <3>1. CASE exhausted
      <4>1. m = 0 /\ yielded = total
        BY <1>8, <3>1 DEF Counted
      <4> QED BY <1>3, <1>7, <4>1
    <3>2. CASE ~exhausted
      BY <1>7, <1>8, <3>2
    <3> QED BY <3>1, <3>2
  <2>3. ASSUME NEW f \in Futures
        PROVE  /\ fst'[f] = "pending" => f \in running'
               /\ fst'[f] = "new" <=> f > yielded'
               /\ fst'[f] = "cancelled" => stopped'
    <3>1. f \in Nat /\ yielded' \in Nat /\ yielded <= yielded'
      BY <1>3, <1>5, <1>7 DEF Futures
    <3>2. CASE f \in new
      BY <1>7, <1>9, <1>12, <3>1, <3>2
    <3>3. CASE f \notin new
      <4>1. fst'[f] = fst[f]
        BY <1>2, <1>12, <3>3
      <4>2. f > yielded <=> f > yielded'
        BY <1>3, <1>9, <3>1, <3>3
      <4>3. fst[f] = "pending" => f \in running'
        BY <1>7 DEF Counted, Over
      <4> QED BY <1>7, <4>1, <4>2, <4>3 DEF Counted
    <3> QED BY <3>2, <3>3
  <2> QED BY <1>7, <2>1, <2>2, <2>3 DEF Counted
<1>16. stopped => new = {}
  BY <1>6, <1>8
<1>17. running' = {} /\ ~stopped => exhausted'
  <2> SUFFICES ASSUME running' = {}, ~stopped PROVE last
    BY <1>7
  <2>1. n = 0 /\ m = 0
    BY <1>6, <1>7
  <2> QED BY <1>3, <1>8, <2>1
<1> QED BY <1>2, <1>5, <1>7, <1>9, <1>10, <1>11, <1>12, <1>13, <1>14, <1>15, <1>16, <1>17
   DEF Finished

\* The parts of the state that a callback of the loop leaves alone.
LEMMA SameTasks ==
  ASSUME GatherTyped, Queued, Counted, UNCHANGED <<schedVars, fst>>,
         gready # << >>, NEW s \in Seq(Entry), Calls(s), Head(gready)[1] \notin {"done", "exit"},
         \A i \in 1 .. Len(s) : s[i][1] \notin {"done", "exit"}
  PROVE  Queued' /\ Counted' /\ Shifted(1, s) /\ UNCHANGED <<total, yielded, exhausted, running, stopped, ended>>
<1>1. Shifted(1, s) /\ 1 \in Slots /\ Head(gready) = gready[1]
  BY CallShifts DEF GatherTyped
<1>2. UNCHANGED <<total, yielded, exhausted, running, stopped, ended>>
  BY DEF schedVars
<1>3. Finished' = Finished
  BY <1>2 DEF Finished, Over
<1>4. Queued'
  <2>1. Left(1) = {}
    BY <1>1 DEF Left, Ended, Kind
  <2>2. Brings(s, {}) /\ gready \in Seq(Entry)
    BY BringsNothing DEF GatherTyped
  <2> QED BY <1>1, <1>3, <2>1, <2>2, QueueKept
<1>5. Counted'
  BY <1>2 DEF Counted
<1> QED BY <1>1, <1>2, <1>4, <1>5

\* AsyncTaskFuture's callback has its exit listener called.
LEMMA TaskDoneKeeps ==
  ASSUME GatherInv, TaskDone
  PROVE  GatherInv'
<1>1. GatherTyped /\ Queued /\ Counted
  BY DEF GatherInv
<1> DEFINE f == Head(gready)[2]
           s == <<<<"exit", f>>>>
<1>2. gready # << >> /\ Head(gready)[1] = "done" /\ Calls(s)
      /\ UNCHANGED <<total, yielded, exhausted, running, stopped, ended, fst, futureMap, waits, fset, result>>
  BY DEF TaskDone, Does, schedVars
<1>3. gready[1] = Head(gready) /\ gready \in Seq(Entry) /\ 1 \in Slots
  BY <1>1, <1>2 DEF GatherTyped, Slots
<1>4. Ended(1) /\ Kind(1) = "done" /\ f = Of(1) /\ f \in Finished /\ f \in Futures
  <2>1. Ended(1) /\ Kind(1) = "done" /\ f = Of(1) /\ f \in Finished
    BY <1>1, <1>2, <1>3 DEF Ended, Kind, Of, Queued
  <2>2. f \in Futures
    BY <1>3, <2>1, Entries DEF Ended, Kind, Of, Slots
  <2> QED BY <2>1, <2>2
<1>5. s \in Seq(Entry) /\ Len(s) = 1 /\ s[1][1] = "exit" /\ s[1][2] = f
  BY <1>4, Entries
<1> HIDE DEF f, s
<1>6. Shifted(1, s)
  BY <1>2, <1>3, <1>5, CallShifts
<1>7. Brings(s, {f})
  BY <1>5 DEF Brings
<1>8. Finished' = (Finished \ {f}) \cup {f}
  BY <1>2, <1>4 DEF Finished, Over
<1>9. Queued'
  <2>1. Left(1) = {f}
    BY <1>4 DEF Left
  <2> QED BY <1>1, <1>3, <1>6, <1>7, <1>8, <2>1, QueueKept
<1>10. GatherTyped' /\ Counted'
  BY <1>1, <1>2, <1>6 DEF GatherTyped, Shifted, Counted
<1>11. result = "pending" => AtWork'
  <2> SUFFICES ASSUME result = "pending" PROVE AtWork'
    OBVIOUS
  <2>1. AtWork
    BY DEF GatherInv
  <2>2. OneCall'
    BY <1>2, <1>3, <1>5, <1>6, <2>1, CallKept DEF AtWork, Due, Control
  <2>3. \A g \in waits.on : Over(g) => Over(g)'
    BY <1>2 DEF Over
  <2>4. Before'
    BY <1>2, <1>3, <1>4, <1>5, <1>6, <2>1, <2>3, BeforeKept DEF AtWork
  <2> QED BY <1>2, <2>1, <2>2, <2>4 DEF AtWork
<1>12. result # "none" /\ result # "set"
  BY <1>2, <1>4 DEF GatherInv, Finished
<1>13. \A i \in Slots' : Kind(i)' \in {"cancel result", "cancel set"} => result' = "cancelled"
  <2>1. \A k \in 1 .. Len(s) : s[k][1] \notin {"cancel result", "cancel set"}
    <3> SUFFICES ASSUME NEW k \in 1 .. Len(s) PROVE s[k][1] \notin {"cancel result", "cancel set"}
      OBVIOUS
    <3>1. k = 1
      BY <1>5
    <3>2. s[k][1] = "exit"
      BY <1>5, <3>1
    <3> QED BY <3>2
  <2>2. \A i \in Slots : Kind(i) \in {"cancel result", "cancel set"} => result = "cancelled"
    BY DEF GatherInv
  <2> QED BY <1>2, <1>3, <1>5, <1>6, <2>1, <2>2, CancelsKept
<1> QED BY <1>2, <1>9, <1>10, <1>11, <1>12, <1>13 DEF GatherInv

\* The exit of a task lets the scheduler start others.
LEMMA GatherExitKeeps ==
  ASSUME GatherInv, GatherExit
  PROVE  GatherInv'
<1>1. GatherTyped /\ Queued /\ Counted
  BY DEF GatherInv
<1> DEFINE f == Head(gready)[2]
<1>2. PICK new \in SUBSET Futures, done \in SUBSET Futures :
        /\ Scheduled(running \ {f}, new, done)
        /\ \E q \in InTurn(done) : Calls(Callbacks(q))
        /\ futureMap' = futureMap \cup new
  BY DEF GatherExit
<1>3. PICK q \in InTurn(done) : Calls(Callbacks(q))
  BY <1>2
<1> DEFINE s == Callbacks(q)
<1>4. gready # << >> /\ Head(gready)[1] = "exit" /\ UNCHANGED <<waits, fset, result>>
  BY DEF GatherExit, Does
<1>5. gready[1] = Head(gready) /\ gready \in Seq(Entry) /\ 1 \in Slots
  BY <1>1, <1>4 DEF GatherTyped, Slots
<1>6. Ended(1) /\ f = Of(1) /\ f \in running /\ Over(f) /\ f \in Finished
  BY <1>1, <1>4, <1>5 DEF Ended, Kind, Of, Queued, Finished
<1>7. /\ new \in SUBSET Futures /\ done \subseteq new /\ IsFiniteSet(done)
      /\ total' = total /\ stopped' = stopped /\ yielded' \in yielded .. total
      /\ exhausted' \in BOOLEAN /\ ended' \in BOOLEAN
      /\ \A g \in Futures : g \in new <=> yielded < g /\ g <= yielded'
      /\ running' = (running \ {f}) \cup new /\ running' \subseteq 1 .. yielded'
      /\ fst' \in [Futures -> {"new", "pending", "ok", "failed", "cancelled"}]
      /\ \A g \in Futures : fst'[g] = IF g \in done THEN "ok" ELSE IF g \in new THEN "pending" ELSE fst[g]
      /\ Finished' = {g \in running \ {f} : Over(g)} \cup done /\ Finished \cap new = {}
      /\ Counted'
      /\ stopped => new = {}
      /\ running' = {} /\ ~stopped => exhausted'
  BY <1>1, <1>2, <1>6, Schedules
<1>8. Brings(s, done) /\ \A i \in 1 .. Len(s) : s[i][1] \in {"done", "won"}
  BY <1>3, <1>7, CallbacksBring
<1> HIDE DEF f, s
<1>9. s \in Seq(Entry) /\ Shifted(1, s)
  BY <1>3, <1>4, <1>5, <1>8, CallShifts DEF Brings, s
<1>10. Queued'
  <2>1. {g \in running \ {f} : Over(g)} = Finished \ {f}
    BY DEF Finished
  <2>2. Left(1) = {f}
    BY <1>6 DEF Left
  <2>3. (Finished \ {f}) \cap done = {} /\ Finished' = (Finished \ {f}) \cup done
    BY <1>7, <2>1
  <2> QED BY <1>1, <1>5, <1>8, <1>9, <2>2, <2>3, QueueKept
<1>11. GatherTyped'
  <2>1. futureMap' \subseteq 1 .. yielded' /\ yielded' \in 0 .. total'
    BY <1>1, <1>2, <1>7 DEF GatherTyped, Futures
  <2> QED BY <1>1, <1>4, <1>7, <1>9, <2>1 DEF GatherTyped, Shifted
<1>12. result = "pending" => AtWork'
  <2> SUFFICES ASSUME result = "pending" PROVE AtWork'
    OBVIOUS
  <2>1. AtWork
    BY DEF GatherInv
  <2>2. OneCall'
    BY <1>4, <1>5, <1>8, <1>9, <2>1, CallKept DEF AtWork, Due, Control
  <2>3. \A g \in waits.on : Over(g) => g \notin new /\ Over(g)'
    <3>1. waits.on \subseteq Futures /\ yielded \in Nat
      BY <1>1 DEF GatherTyped
    <3>2. \A g \in new : fst[g] = "new"
      BY <1>1, <1>7 DEF Counted, Futures, GatherTyped
    <3> QED BY <1>7, <3>1, <3>2 DEF Over
  <2>4. \A k \in 1 .. Len(s) :
          /\ s[k][1] \notin {"wdone", "handle"}
          /\ waits.at = "over" => ~(s[k][1] \in {"done", "exit"} /\ s[k][2] \in waits.on)
    BY <1>7, <1>8, <2>1, <2>3 DEF AtWork, Before, Brings
  <2>5. Before'
    BY <1>4, <1>5, <1>9, <2>1, <2>3, <2>4, BeforeKept DEF AtWork
  <2> QED BY <1>2, <1>4, <1>7, <2>1, <2>2, <2>5 DEF AtWork
<1>13. result # "none" /\ result # "set"
  BY <1>6 DEF GatherInv
<1>14. \A i \in Slots' : Kind(i)' \in {"cancel result", "cancel set"} => result' = "cancelled"
  BY <1>4, <1>5, <1>8, <1>9, CancelsKept DEF GatherInv
<1> QED BY <1>4, <1>7, <1>10, <1>11, <1>12, <1>13, <1>14 DEF GatherInv

\* iter_gather itself.
LEMMA GatherStartKeeps ==
  ASSUME GatherInv, GatherStart
  PROVE  GatherInv'
<1>1. GatherTyped /\ Queued /\ Counted /\ result = "none"
  BY DEF GatherInv, GatherStart
<1>2. gready = << >> /\ running = {} /\ ~stopped /\ ~exhausted /\ yielded = 0
  BY <1>1 DEF GatherInv
<1>3. PICK new \in SUBSET Futures, done \in SUBSET Futures :
        /\ Scheduled({}, new, done) /\ futureMap' = new
        /\ IF new = {}
           THEN result' = "set" /\ gready' = << >> /\ UNCHANGED <<waits, fset>>
           ELSE NextWait(new) /\ \E q \in InTurn(done) : gready' = Append(Callbacks(q), <<"wait">>)
  BY DEF GatherStart
<1>4. /\ new \in SUBSET Futures /\ done \subseteq new /\ IsFiniteSet(done)
      /\ total' = total /\ stopped' = stopped /\ yielded' \in yielded .. total
      /\ exhausted' \in BOOLEAN /\ ended' \in BOOLEAN
      /\ \A g \in Futures : g \in new <=> yielded < g /\ g <= yielded'
      /\ running' = new /\ running' \subseteq 1 .. yielded'
      /\ fst' \in [Futures -> {"new", "pending", "ok", "failed", "cancelled"}]
      /\ Finished' = done /\ Counted'
      /\ running' = {} /\ ~stopped => exhausted'
  <2>1. {} \in SUBSET running /\ \A g \in running \ {} : Over(g)
    BY <1>2
  <2>2. /\ running' = {} \cup new
        /\ Finished' = {g \in {} : Over(g)} \cup done
    BY <1>1, <1>3, <2>1, Schedules
  <2> QED BY <1>1, <1>3, <2>1, <2>2, Schedules
<1>5. CASE new = {}
  <2>1. result' = "set" /\ gready' = << >> /\ UNCHANGED <<waits, fset>> /\ running' = {} /\ done = {}
    BY <1>3, <1>4, <1>5
  <2>2. exhausted' /\ yielded' = total
    BY <1>2, <1>4, <1>5 DEF Counted
  <2>3. total = 0
    BY <1>1, <1>2, <1>4, <1>5, <2>2, GatherAssumption DEF GatherTyped, Futures
  <2>4. Slots' = {} /\ Queued'
    BY <1>4, <2>1 DEF Slots, Queued
  <2>5. GatherTyped'
    BY <1>1, <1>3, <1>4, <1>5, <2>1 DEF GatherTyped
  <2>6. waits.at \in {"none", "over"}
    BY <1>1 DEF GatherInv
  <2>7. 1 .. total' = {}
    BY <1>4, <2>3
  <2> QED BY <1>4, <2>1, <2>2, <2>4, <2>5, <2>6, <2>7 DEF GatherInv
<1>6. CASE new # {}
  <2>1. PICK q \in InTurn(done) : gready' = Append(Callbacks(q), <<"wait">>)
    BY <1>3, <1>6
  <2>2. result' = "pending" /\ fset' = "pending" /\ waits' = [at |-> "start", on |-> new, cancelled |-> FALSE]
    BY <1>3, <1>6 DEF NextWait
  <2> DEFINE c == Callbacks(q)
             s == Append(c, <<"wait">>)
  <2>3. Brings(c, done) /\ \A i \in 1 .. Len(c) : c[i][1] \in {"done", "won"}
    BY <1>4, CallbacksBring
  <2>4. <<"wait">> \in Entry /\ <<"wait">>[1] = "wait"
    BY Entries DEF Plain, Control
  <2> HIDE DEF c
  <2>5. Brings(s, done) /\ s \in Seq(Entry) /\ Len(s) = Len(c) + 1 /\ Len(c) \in Nat
        /\ s[Len(c) + 1] = <<"wait">> /\ \A i \in 1 .. Len(c) : s[i] = c[i]
    <3>1. c \in Seq(Entry)
      BY <2>3 DEF Brings
    <3> QED BY <2>3, <2>4, <3>1, AppendProperties, BringsMore
  <2>6. gready' = s
    BY <2>1 DEF c
  <2> HIDE DEF s
  <2>7. Queued'
    BY <1>4, <2>5, <2>6 DEF Queued, Brings, Slots, Ended, Kind, Of
  <2>8. GatherTyped'
    BY <1>1, <1>3, <1>4, <2>2, <2>5, <2>6 DEF GatherTyped
  <2>9. \A i \in Slots' : (i = Len(c) + 1 /\ Kind(i)' = "wait") \/ (i \in 1 .. Len(c) /\ Kind(i)' \in {"done", "won"})
    <3> SUFFICES ASSUME NEW i \in Slots'
                 PROVE  (i = Len(c) + 1 /\ Kind(i)' = "wait") \/ (i \in 1 .. Len(c) /\ Kind(i)' \in {"done", "won"})
      OBVIOUS
    <3>1. i \in 1 .. Len(s) /\ Kind(i)' = s[i][1]
      BY <2>6 DEF Slots, Kind
    <3>2. (i = Len(c) + 1 /\ s[i][1] = "wait") \/ (i \in 1 .. Len(c) /\ s[i][1] \in {"done", "won"})
      <4>1. CASE i = Len(c) + 1
        <5>1. s[i] = <<"wait">>
          BY <2>5, <4>1
        <5> DEFINE w == <<"wait">>
        <5>2. w[1] = "wait" /\ s[i] = w
          BY <2>4, <5>1
        <5> HIDE DEF w
        <5>3. s[i][1] = "wait"
          BY <5>2
        <5> QED BY <4>1, <5>3
      <4>2. CASE i # Len(c) + 1
        <5>1. i \in 1 .. Len(c)
          BY <2>5, <3>1, <4>2
        <5> QED BY <2>3, <2>5, <4>2, <5>1
      <4> QED BY <3>1, <4>1, <4>2
    <3> QED BY <3>1, <3>2
  <2>10. OneCall'
    BY <2>2, <2>9 DEF OneCall, Due, Control
  <2>11. Before'
    BY <2>2 DEF Before
  <2>12. AtWork'
    BY <1>2, <1>3, <1>4, <2>2, <2>10, <2>11 DEF AtWork
  <2> QED BY <1>4, <2>2, <2>7, <2>8, <2>9, <2>12 DEF GatherInv
<1> QED BY <1>5, <1>6


\* A queue that one call joins.
LEMMA OneJoins ==
  ASSUME NEW k \in Plain
  PROVE  <<<<k>>>> \in Seq(Entry) /\ Len(<<<<k>>>>) = 1 /\ \A i \in 1 .. Len(<<<<k>>>>) : i = 1 /\ <<<<k>>>>[i][1] = k
<1> DEFINE e == <<k>>
           s == <<e>>
<1>1. e \in Entry /\ e[1] = k
  BY Entries
<1> HIDE DEF e
<1>2. s \in Seq(Entry) /\ Len(s) = 1 /\ s[1] = e
  BY <1>1
<1> HIDE DEF s
<1>3. \A i \in 1 .. Len(s) : i = 1 /\ s[i][1] = k
  BY <1>1, <1>2
<1> QED BY <1>2, <1>3 DEF s, e

\* Calls of a kind that is neither in the queue nor joins it.
LEMMA NoneKept ==
  ASSUME gready \in Seq(Entry), NEW d \in {0, 1}, NEW s \in Seq(Entry), Shifted(d, s), NEW K,
         \A i \in Slots : i # d => Kind(i) \notin K, \A k \in 1 .. Len(s) : s[k][1] \notin K
  PROVE  \A i \in Slots' : Kind(i)' \notin K
<1> SUFFICES ASSUME NEW i \in Slots' PROVE Kind(i)' \notin K
  OBVIOUS
<1>1. /\ \/ i + d \in Slots /\ gready'[i] = gready[i + d]
         \/ \E k \in 1 .. Len(s) : i = Len(gready) - d + k /\ gready'[i] = s[k]
      /\ Slots' \subseteq Nat
  BY Origin
<1>2. i + d # d
  BY <1>1 DEF Slots
<1> QED BY <1>1, <1>2 DEF Kind

\* A cancelled gathering has nothing but its tasks.
LEMMA CancelledKeeps ==
  ASSUME result' = "cancelled", GatherTyped', Queued', Counted'
  PROVE  GatherInv'
BY DEF GatherInv

\* A future ends.
LEMMA FutureEndsKeeps ==
  ASSUME GatherInv, NEW f \in Futures, FutureEnds(f)
  PROVE  GatherInv'
<1>1. GatherTyped /\ Queued /\ Counted
  BY DEF GatherInv
<1>2. /\ fst[f] = "pending" /\ f \in running /\ ~Over(f)
      /\ gready' = gready \o Callbacks(<<f>>)
      /\ UNCHANGED <<total, yielded, exhausted, running, stopped, ended, futureMap, waits, fset, result>>
  BY <1>1 DEF FutureEnds, schedVars, Counted, Over
<1>3. PICK e \in {"ok", "failed"} \cup (IF stopped THEN {"cancelled"} ELSE {}) : fst' = [fst EXCEPT ![f] = e]
  BY DEF FutureEnds
<1>4. /\ fst' \in [Futures -> {"new", "pending", "ok", "failed", "cancelled"}]
      /\ fst'[f] = e /\ \A g \in Futures : g # f => fst'[g] = fst[g]
  BY <1>1, <1>3 DEF GatherTyped
<1>5. <<f>> \in InTurn({f}) /\ IsFiniteSet({f}) /\ {f} \in SUBSET Futures
  <2>1. IsFiniteSet({f}) /\ Cardinality({f}) = 1
    BY FS_Singleton
  <2>2. <<f>> \in [1 .. 1 -> {f}] /\ DOMAIN <<f>> = 1 .. 1 /\ <<f>>[1] = f
    OBVIOUS
  <2> QED BY <2>1, <2>2 DEF InTurn
<1> DEFINE s == Callbacks(<<f>>)
<1>6. Brings(s, {f}) /\ \A i \in 1 .. Len(s) : s[i][1] \in {"done", "won"}
  BY <1>5, CallbacksBring
<1> HIDE DEF s
<1>7. s \in Seq(Entry) /\ gready \in Seq(Entry)
  BY <1>1, <1>6 DEF Brings, GatherTyped
<1>8. Shifted(0, s)
  BY <1>2, <1>7, JoinShifts DEF s
<1>9. \A g \in Futures : Over(g) => Over(g)'
  BY <1>2, <1>4 DEF Over
<1>10. Queued'
  <2>1. running \subseteq Futures
    BY <1>1, GatherAssumption DEF GatherTyped, Futures
  <2>2. Over(f)' /\ \A g \in Futures : g # f => (Over(g)' <=> Over(g))
    BY <1>3, <1>4 DEF Over
  <2>3. Finished' = Finished \cup {f} /\ f \notin Finished
    BY <1>2, <2>1, <2>2 DEF Finished
  <2>4. Left(0) = {}
    BY DEF Left
  <2> QED BY <1>1, <1>6, <1>7, <1>8, <2>3, <2>4, QueueKept
<1>11. Counted'
  <2>1. ASSUME NEW g \in Futures
        PROVE  /\ fst'[g] = "pending" => g \in running'
               /\ fst'[g] = "new" <=> g > yielded'
               /\ fst'[g] = "cancelled" => stopped'
    BY <1>1, <1>2, <1>3, <1>4 DEF Counted
  <2> QED BY <1>1, <1>2, <2>1 DEF Counted
<1>12. GatherTyped'
  BY <1>1, <1>2, <1>4, <1>8 DEF GatherTyped, Shifted
<1>13. result = "pending" => AtWork'
  <2> SUFFICES ASSUME result = "pending" PROVE AtWork'
    OBVIOUS
  <2>1. AtWork
    BY DEF GatherInv
  <2>2. OneCall'
    BY <1>2, <1>6, <1>7, <1>8, <2>1, CallKept DEF AtWork, Due, Control
  <2>3. waits.on \subseteq Futures
    BY <1>1 DEF GatherTyped
  <2>4. \A k \in 1 .. Len(s) :
          /\ s[k][1] \notin {"wdone", "handle"}
          /\ waits.at = "over" => ~(s[k][1] \in {"done", "exit"} /\ s[k][2] \in waits.on)
    BY <1>2, <1>6, <2>1 DEF AtWork, Before, Brings
  <2>5. Before'
    BY <1>2, <1>7, <1>8, <1>9, <2>1, <2>3, <2>4, BeforeKept DEF AtWork
  <2> QED BY <1>2, <2>1, <2>2, <2>5 DEF AtWork
<1>14. result # "none" /\ result # "set"
  BY <1>2 DEF GatherInv
<1>15. \A i \in Slots' : Kind(i)' \in {"cancel result", "cancel set"} => result' = "cancelled"
  <2>1. \A i \in Slots : Kind(i) \in {"cancel result", "cancel set"} => result = "cancelled"
    BY DEF GatherInv
  <2>2. \A k \in 1 .. Len(s) : s[k][1] \notin {"cancel result", "cancel set"}
    BY <1>6
  <2> QED BY <1>2, <1>7, <1>8, <2>1, <2>2, CancelsKept
<1> QED BY <1>2, <1>10, <1>11, <1>12, <1>13, <1>14, <1>15 DEF GatherInv

\* scheduler.cancel() ends futures of running tasks.
LEMMA CancelsTasks ==
  ASSUME GatherTyped, Counted, NEW S \in SUBSET Futures, Cancels(S)
  PROVE  /\ IsFiniteSet(S) /\ S \subseteq running /\ Finished' = Finished \cup S /\ Finished \cap S = {}
         /\ Counted' /\ stopped' = TRUE
         /\ fst' \in [Futures -> {"new", "pending", "ok", "failed", "cancelled"}]
         /\ UNCHANGED <<total, yielded, exhausted, running, ended>>
<1>1. /\ S \in {{}, {f \in running : ~Over(f)}} /\ stopped' = TRUE
      /\ fst' = [f \in Futures |-> IF f \in S THEN "cancelled" ELSE fst[f]]
      /\ UNCHANGED <<total, yielded, exhausted, running, ended>>
  BY DEF Cancels
<1>2. running \subseteq Futures /\ yielded \in Nat /\ running \subseteq 1 .. yielded
  BY GatherAssumption DEF GatherTyped, Futures
<1>3. IsFiniteSet(S) /\ S \subseteq running
  <2>1. IsFiniteSet(Futures)
    BY GatherAssumption, FS_Interval DEF Futures
  <2> QED BY <1>1, <2>1, FS_Subset
<1>4. \A f \in Futures : fst'[f] = IF f \in S THEN "cancelled" ELSE fst[f]
  BY <1>1
<1>5. fst' \in [Futures -> {"new", "pending", "ok", "failed", "cancelled"}]
  BY <1>1 DEF GatherTyped
<1>6. Finished' = Finished \cup S /\ Finished \cap S = {}
  BY <1>1, <1>2, <1>3, <1>4 DEF Finished, Over
<1>7. Counted'
  <2>1. ASSUME NEW f \in Futures
        PROVE  /\ fst'[f] = "pending" => f \in running'
               /\ fst'[f] = "new" <=> f > yielded'
               /\ fst'[f] = "cancelled" => stopped'
    <3>1. CASE f \in S
      BY <1>1, <1>2, <1>3, <1>4, <3>1
    <3>2. CASE f \notin S
      BY <1>1, <1>4, <3>2 DEF Counted
    <3> QED BY <3>1, <3>2
  <2> QED BY <1>1, <2>1 DEF Counted
<1> QED BY <1>1, <1>3, <1>5, <1>6, <1>7

\* The generator is closed after a cancellation.
LEMMA GeneratorCollectedKeeps ==
  ASSUME GatherInv, GeneratorCollected
  PROVE  GatherInv'
<1>1. GatherTyped /\ Queued /\ Counted /\ gready \in Seq(Entry)
  BY DEF GatherInv, GatherTyped
<1>2. PICK S \in SUBSET Futures : Cancels(S) /\ \E q \in InTurn(S) : gready' = gready \o Callbacks(q)
  BY DEF GeneratorCollected
<1>3. PICK q \in InTurn(S) : gready' = gready \o Callbacks(q)
  BY <1>2
<1>4. result' = "cancelled" /\ UNCHANGED <<futureMap, waits, fset, result>>
  BY DEF GeneratorCollected
<1>5. /\ IsFiniteSet(S) /\ Finished' = Finished \cup S /\ Finished \cap S = {} /\ Counted' /\ stopped' = TRUE
      /\ fst' \in [Futures -> {"new", "pending", "ok", "failed", "cancelled"}]
      /\ UNCHANGED <<total, yielded, exhausted, running, ended>>
  BY <1>1, <1>2, CancelsTasks
<1> DEFINE s == Callbacks(q)
<1>6. Brings(s, S)
  BY <1>3, <1>5, CallbacksBring
<1> HIDE DEF s
<1>7. s \in Seq(Entry) /\ Shifted(0, s)
  BY <1>1, <1>3, <1>6, JoinShifts DEF Brings, s
<1>8. Queued'
  <2>1. Left(0) = {}
    BY DEF Left
  <2> QED BY <1>1, <1>5, <1>6, <1>7, <2>1, QueueKept
<1>9. GatherTyped'
  BY <1>1, <1>4, <1>5, <1>7 DEF GatherTyped, Shifted
<1> QED BY <1>4, <1>5, <1>8, <1>9, CancelledKeeps

\* The caller cancels the result.
LEMMA CancelResultKeeps ==
  ASSUME GatherInv, CancelResult
  PROVE  GatherInv'
<1>1. GatherTyped /\ Queued /\ Counted /\ gready \in Seq(Entry)
  BY DEF GatherInv, GatherTyped
<1> DEFINE e == <<"cancel result">>
           s == <<e>>
<1>2. /\ result' = "cancelled" /\ gready' = Append(gready, e)
      /\ UNCHANGED <<total, yielded, exhausted, running, stopped, ended, fst, futureMap, waits, fset>>
  BY DEF CancelResult, schedVars
<1>3. e \in Entry /\ e[1] = "cancel result"
  <2>1. "cancel result" \in Plain
    BY DEF Plain
  <2> QED BY <2>1, Entries
<1> HIDE DEF e
<1>4. s \in Seq(Entry) /\ Len(s) = 1 /\ s[1] = e /\ gready' = gready \o s
  <2>1. s \in Seq(Entry) /\ Len(s) = 1 /\ s[1] = e
    <3>1. e \in Entry
      BY <1>3
    <3> QED BY <3>1
  <2>2. Append(gready, e) = gready \o s
    BY <1>1, <1>3, AppendIsConcat
  <2> QED BY <1>2, <2>1, <2>2
<1> HIDE DEF s
<1>5. Shifted(0, s)
  BY <1>1, <1>4, JoinShifts
<1>6. Brings(s, {})
  <2>1. \A i \in 1 .. Len(s) : i = 1
    BY <1>4
  <2>2. \A i \in 1 .. Len(s) : s[i][1] \notin {"done", "exit"}
    BY <1>3, <1>4, <2>1
  <2> QED BY <1>4, <2>2, BringsNothing
<1>7. Queued'
  <2>1. Left(0) = {}
    BY DEF Left
  <2>2. Finished' = Finished
    BY <1>2 DEF Finished, Over
  <2> QED BY <1>1, <1>5, <1>6, <2>1, <2>2, QueueKept
<1>8. GatherTyped'
  BY <1>1, <1>2, <1>5 DEF GatherTyped, Shifted
<1>9. Counted'
  BY <1>1, <1>2 DEF Counted
<1> QED BY <1>2, <1>7, <1>8, <1>9, CancelledKeeps

\* The call at the head of the queue.
LEMMA AtHead ==
  ASSUME GatherInv, gready # << >>
  PROVE  /\ 1 \in Slots /\ gready[1] = Head(gready) /\ Kind(1) = Head(gready)[1]
         /\ result # "none"
         /\ Kind(1) \in {"cancel result", "cancel set"} => result = "cancelled"
         /\ Kind(1) \in Control => result # "set"
         /\ result = "pending" /\ Kind(1) \in Control =>
              Kind(1) = Due /\ \A i \in Slots : i # 1 => Kind(i) \notin Control
<1>1. gready \in Seq(Entry)
  BY DEF GatherInv, GatherTyped
<1>2. 1 \in Slots /\ gready[1] = Head(gready) /\ Kind(1) = Head(gready)[1]
  BY <1>1 DEF Slots, Kind
<1> QED BY <1>2 DEF GatherInv, AtWork, OneCall

\* A call of the loop that queues nothing of a task, while the result is pending.
LEMMA LoopKeeps ==
  ASSUME GatherInv, NEW s \in Seq(Entry), gready # << >>, Calls(s), Kind(1) \notin {"done", "exit"},
         UNCHANGED <<schedVars, fst>>,
         waits' \in [at : {"none", "start", "blocked", "woken", "over"}, on : SUBSET Futures, cancelled : BOOLEAN],
         fset' \in {"none", "pending", "done", "cancelled"}, result' \in {"pending", "cancelled", "set"},
         futureMap' \subseteq 1 .. yielded,
         \A k \in 1 .. Len(s) : s[k][1] \notin {"done", "exit"},
         \A k \in 1 .. Len(s) : s[k][1] \in {"cancel result", "cancel set"} => result = "cancelled",
         result' = result, result = "pending" => AtWork',
         result = "set" => waits'.at = waits.at /\ \A k \in 1 .. Len(s) : s[k][1] \notin Control
  PROVE  GatherInv'
<1>1. GatherTyped /\ Queued /\ Counted /\ gready \in Seq(Entry)
  BY DEF GatherInv, GatherTyped
<1>2. /\ Queued' /\ Counted' /\ Shifted(1, s)
      /\ UNCHANGED <<total, yielded, exhausted, running, stopped, ended, fst>>
  <2>1. Head(gready)[1] \notin {"done", "exit"}
    BY AtHead
  <2> QED BY <1>1, <2>1, SameTasks
<1>3. GatherTyped'
  BY <1>1, <1>2 DEF GatherTyped, Shifted
<1>4. \A i \in Slots' : Kind(i)' \in {"cancel result", "cancel set"} => result' = "cancelled"
  <2>1. \A i \in Slots : Kind(i) \in {"cancel result", "cancel set"} => result = "cancelled"
    BY DEF GatherInv
  <2> QED BY <1>1, <1>2, <2>1, CancelsKept
<1>5. result = "set" =>
        /\ exhausted' /\ running' = {} /\ \A f \in 1 .. total' : fst'[f] \in {"ok", "failed"}
        /\ waits'.at \in {"none", "over"} /\ \A i \in Slots' : Kind(i)' \notin Control
  <2> SUFFICES ASSUME result = "set"
               PROVE  /\ exhausted' /\ running' = {} /\ \A f \in 1 .. total' : fst'[f] \in {"ok", "failed"}
                      /\ waits'.at \in {"none", "over"} /\ \A i \in Slots' : Kind(i)' \notin Control
    OBVIOUS
  <2>1. /\ exhausted /\ running = {} /\ \A f \in 1 .. total : fst[f] \in {"ok", "failed"}
        /\ waits.at \in {"none", "over"} /\ \A i \in Slots : Kind(i) \notin Control
    BY DEF GatherInv
  <2>2. \A i \in Slots' : Kind(i)' \notin Control
    BY <1>1, <1>2, <2>1, NoneKept
  <2> QED BY <1>2, <2>1, <2>2
<1> QED BY <1>2, <1>3, <1>4, <1>5 DEF GatherInv

\* A queue that none joins.
LEMMA NoneJoins == << >> \in Seq(Entry) /\ Len(<< >>) = 0
OBVIOUS

\* wait_result starts.
LEMMA WaitStartsKeeps ==
  ASSUME GatherInv, WaitStarts
  PROVE  GatherInv'
<1> DEFINE n == Cardinality({f \in waits.on : Over(f)})
           s == [i \in 1 .. n |-> <<"won">>]
<1>1. /\ gready # << >> /\ Head(gready)[1] = "wait" /\ ~waits.cancelled /\ Calls(s)
      /\ waits' = [waits EXCEPT !.at = "blocked"]
      /\ UNCHANGED <<schedVars, fst, futureMap, fset, result>>
  BY DEF WaitStarts, Does
<1>2. GatherTyped /\ gready \in Seq(Entry)
  BY DEF GatherInv, GatherTyped
<1>3. /\ 1 \in Slots /\ Kind(1) = "wait" /\ result # "none" /\ result # "set"
      /\ result = "pending" => Due = "wait" /\ \A i \in Slots : i # 1 => Kind(i) \notin Control
  BY <1>1, AtHead DEF Control
<1>4. n \in Nat
  <2>1. IsFiniteSet(Futures) /\ {f \in waits.on : Over(f)} \subseteq Futures
    BY <1>2, GatherAssumption, FS_Interval DEF Futures, GatherTyped
  <2> QED BY <2>1, FS_Subset, FS_CardinalityType
<1> HIDE DEF n
<1>5. s \in Seq(Entry) /\ Len(s) = n /\ \A k \in 1 .. Len(s) : s[k][1] = "won"
  <2> DEFINE e == <<"won">>
  <2>1. e \in Entry /\ e[1] = "won"
    BY Entries DEF Plain
  <2> HIDE DEF e
  <2>2. s = [i \in 1 .. n |-> e]
    BY DEF e
  <2>3. s \in Seq(Entry) /\ Len(s) = n /\ \A k \in 1 .. n : s[k] = e
    BY <1>4, <2>1, <2>2
  <2> HIDE DEF s
  <2> QED BY <2>1, <2>3
<1> HIDE DEF s
<1>6. /\ waits' \in [at : {"none", "start", "blocked", "woken", "over"}, on : SUBSET Futures, cancelled : BOOLEAN]
      /\ waits'.at = "blocked" /\ waits'.cancelled = waits.cancelled
  BY <1>1, <1>2 DEF GatherTyped
<1>7. result = "pending" => AtWork'
  <2> SUFFICES ASSUME result = "pending" PROVE AtWork'
    OBVIOUS
  <2>1. AtWork /\ fset = "pending"
    BY <1>3 DEF GatherInv, AtWork, Due
  <2>2. Shifted(1, s)
    BY <1>1, <1>2, <1>5, CallShifts
  <2>3. OneCall'
    BY <1>2, <1>3, <1>5, <2>1, <2>2, CallKept DEF AtWork, Control
  <2>4. Before'
    BY <1>6 DEF Before
  <2> QED BY <1>1, <1>6, <2>1, <2>3, <2>4 DEF AtWork, schedVars
<1>8. /\ fset' \in {"none", "pending", "done", "cancelled"} /\ result' = result
      /\ result' \in {"pending", "cancelled", "set"} /\ futureMap' \subseteq 1 .. yielded
  BY <1>1, <1>2, <1>3 DEF GatherTyped
<1>9. \A k \in 1 .. Len(s) : s[k][1] \notin {"done", "exit", "cancel result", "cancel set"}
  BY <1>5
<1> QED BY <1>1, <1>3, <1>5, <1>6, <1>7, <1>8, <1>9, LoopKeeps

\* The first future of the wait that ends wakes it.
LEMMA WonKeeps ==
  ASSUME GatherInv, Won
  PROVE  GatherInv'
<1>1. /\ gready # << >> /\ Head(gready)[1] = "won"
      /\ UNCHANGED <<schedVars, fst, futureMap, fset, result>>
  BY DEF Won, Does
<1>2. GatherTyped /\ gready \in Seq(Entry)
  BY DEF GatherInv, GatherTyped
<1>3. 1 \in Slots /\ Kind(1) = "won" /\ result # "none"
  BY <1>1, AtHead
<1>4. /\ fset' \in {"none", "pending", "done", "cancelled"} /\ result' = result
      /\ result' \in {"pending", "cancelled", "set"} /\ futureMap' \subseteq 1 .. yielded
  BY <1>1, <1>2, <1>3 DEF GatherTyped
<1>5. CASE waits.at = "blocked" /\ ~waits.cancelled
  <2> DEFINE s == <<<<"wake">>>>
  <2>1. Calls(s) /\ waits' = [waits EXCEPT !.at = "woken"]
    BY <1>5 DEF Won
  <2>2. s \in Seq(Entry) /\ Len(s) = 1 /\ \A k \in 1 .. Len(s) : k = 1 /\ s[k][1] = "wake"
    BY OneJoins DEF Plain, Control
  <2> HIDE DEF s
  <2>3. /\ waits' \in [at : {"none", "start", "blocked", "woken", "over"}, on : SUBSET Futures, cancelled : BOOLEAN]
        /\ waits'.at = "woken" /\ waits'.cancelled = waits.cancelled
    BY <1>2, <2>1 DEF GatherTyped
  <2>4. result # "set"
    BY <1>5 DEF GatherInv
  <2>5. result = "pending" => AtWork'
    <3> SUFFICES ASSUME result = "pending" PROVE AtWork'
      OBVIOUS
    <3>1. AtWork /\ fset = "pending"
      BY <1>5 DEF GatherInv, AtWork
    <3>2. Shifted(1, s)
      BY <1>1, <1>2, <2>1, <2>2, CallShifts
    <3>3. \A i \in Slots : Kind(i) \notin Control
      BY <1>5, <3>1 DEF AtWork, OneCall, Due, Control
    <3>4. Due' = "wake" /\ s[1][1] = "wake"
      BY <2>2, <2>3 DEF Due
    <3>5. OneCall'
      BY <1>2, <2>2, <3>1, <3>2, <3>3, <3>4, CallKept DEF AtWork
    <3>6. Before'
      BY <2>3 DEF Before
    <3> QED BY <1>1, <2>3, <3>1, <3>5, <3>6 DEF AtWork, schedVars
  <2>6. \A k \in 1 .. Len(s) : s[k][1] \notin {"done", "exit", "cancel result", "cancel set"}
    BY <2>2
  <2> QED BY <1>1, <1>3, <1>4, <2>1, <2>2, <2>3, <2>4, <2>5, <2>6, LoopKeeps
<1>6. CASE ~(waits.at = "blocked" /\ ~waits.cancelled)
  <2> DEFINE s == << >>
  <2>1. Calls(s) /\ waits' = waits
    BY <1>6 DEF Won
  <2>2. s \in Seq(Entry) /\ Len(s) = 0 /\ \A k : k \notin 1 .. Len(s)
    BY NoneJoins
  <2> HIDE DEF s
  <2>3. result = "pending" => AtWork'
    <3> SUFFICES ASSUME result = "pending" PROVE AtWork'
      OBVIOUS
    <3>1. AtWork
      BY DEF GatherInv
    <3>2. Shifted(1, s)
      BY <1>1, <1>2, <2>1, <2>2, CallShifts
    <3>3. Due' = Due
      BY <1>1, <2>1 DEF Due
    <3>4. OneCall'
      BY <1>2, <2>2, <3>1, <3>2, <3>3, CallKept DEF AtWork
    <3>5. \A f \in waits.on : Over(f) => Over(f)'
      BY <1>1 DEF Over
    <3>6. Before'
      BY <1>1, <1>2, <2>1, <2>2, <3>1, <3>2, <3>5, BeforeKept DEF AtWork
    <3> QED BY <1>1, <2>1, <3>1, <3>4, <3>6 DEF AtWork, schedVars
  <2>4. waits' \in [at : {"none", "start", "blocked", "woken", "over"}, on : SUBSET Futures, cancelled : BOOLEAN]
    BY <1>2, <2>1 DEF GatherTyped
  <2> QED BY <1>1, <1>3, <1>4, <2>1, <2>2, <2>3, <2>4, LoopKeeps
<1> QED BY <1>5, <1>6

\* wait_result ends.
LEMMA WaitEndsKeeps ==
  ASSUME GatherInv, WaitEnds
  PROVE  GatherInv'
<1> DEFINE s == <<<<"wdone">>>>
           on == {f \in waits.on : Over(f)}
<1>1. /\ gready # << >> /\ Calls(s) /\ waits' = [waits EXCEPT !.at = "over", !.on = on]
      /\ Head(gready)[1] = "wake" \/ (Head(gready)[1] = "wait" /\ waits.cancelled)
      /\ UNCHANGED <<schedVars, fst, futureMap, fset, result>>
  BY DEF WaitEnds, Does
<1>2. GatherTyped /\ gready \in Seq(Entry)
  BY DEF GatherInv, GatherTyped
<1>3. /\ 1 \in Slots /\ Kind(1) \in {"wake", "wait"} /\ result # "none" /\ result # "set"
      /\ Kind(1) = "wait" => waits.cancelled
      /\ result = "pending" => Kind(1) = Due /\ \A i \in Slots : i # 1 => Kind(i) \notin Control
  BY <1>1, AtHead DEF Control
<1>4. s \in Seq(Entry) /\ Len(s) = 1 /\ \A k \in 1 .. Len(s) : k = 1 /\ s[k][1] = "wdone"
  BY OneJoins DEF Plain, Control
<1> HIDE DEF s
<1>5. /\ fset' \in {"none", "pending", "done", "cancelled"} /\ result' = result
      /\ result' \in {"pending", "cancelled", "set"} /\ futureMap' \subseteq 1 .. yielded
  BY <1>1, <1>2, <1>3 DEF GatherTyped
<1>6. /\ waits' \in [at : {"none", "start", "blocked", "woken", "over"}, on : SUBSET Futures, cancelled : BOOLEAN]
      /\ waits'.at = "over" /\ waits'.on = on /\ waits'.cancelled = waits.cancelled
  <2>1. on \in SUBSET Futures
    BY <1>2 DEF GatherTyped
  <2> HIDE DEF on
  <2> QED BY <1>1, <1>2, <2>1 DEF GatherTyped
<1>7. result = "pending" => AtWork'
  <2> SUFFICES ASSUME result = "pending" PROVE AtWork'
    OBVIOUS
  <2>1. AtWork /\ fset = "pending"
    <3>1. AtWork
      BY DEF GatherInv
    <3>2. Due = "wake"
      BY <1>3, <3>1 DEF AtWork
    <3>3. waits.at = "woken"
      BY <1>2, <3>2 DEF Due, GatherTyped
    <3> QED BY <3>1, <3>3 DEF AtWork
  <2>2. Shifted(1, s)
    BY <1>1, <1>2, <1>4, CallShifts
  <2>3. OneCall'
    <3>1. Due' = "wdone" /\ s[1][1] = "wdone"
      <4>1. fset' = "pending"
        BY <1>1, <2>1
      <4>2. 1 \in 1 .. Len(s)
        BY <1>4
      <4> QED BY <1>4, <1>6, <4>1, <4>2 DEF Due
    <3> QED BY <1>2, <1>3, <1>4, <2>1, <2>2, <3>1, CallKept DEF AtWork
  <2>4. Before'
    <3>1. \A f \in on : Over(f)'
      BY <1>1 DEF Over
    <3>2. ASSUME NEW p \in Slots', NEW i \in Slots', Kind(p)' \in {"wdone", "handle"}, Kind(i)' = "done"
          PROVE  i < p
      <4>1. /\ \A k \in Slots' : \/ k + 1 \in Slots /\ gready'[k] = gready[k + 1]
                                 \/ \E m \in 1 .. Len(s) : k = Len(gready) - 1 + m /\ gready'[k] = s[m]
            /\ Len(gready) \in Nat /\ Slots \subseteq Nat /\ Slots' \subseteq Nat
        BY <1>2, <1>4, <2>2, Origin
      <4>2. ~(p + 1 \in Slots /\ gready'[p] = gready[p + 1])
        <5>1. p \in Slots' /\ p + 1 # 1
          BY <4>1 DEF Slots
        <5> QED BY <1>3, <3>2, <5>1 DEF Kind, Control
      <4>3. p = Len(gready)
        BY <1>4, <4>1, <4>2
      <4>4. i + 1 \in Slots
        BY <1>4, <3>2, <4>1 DEF Kind
      <4> QED BY <4>1, <4>3, <4>4 DEF Slots
    <3> QED BY <1>1, <1>6, <2>1, <3>1, <3>2 DEF Before
  <2> QED BY <1>1, <1>6, <2>1, <2>3, <2>4 DEF AtWork, schedVars
<1>8. \A k \in 1 .. Len(s) : s[k][1] \notin {"done", "exit", "cancel result", "cancel set"}
  BY <1>4
<1> QED BY <1>1, <1>3, <1>4, <1>5, <1>6, <1>7, <1>8, LoopKeeps

\* done_callback.
LEMMA DoneCallbackKeeps ==
  ASSUME GatherInv, DoneCallback
  PROVE  GatherInv'
<1>1. /\ gready # << >> /\ Head(gready)[1] = "wdone"
      /\ UNCHANGED <<schedVars, fst, waits, result>>
  BY DEF DoneCallback, Does
<1>2. GatherTyped /\ gready \in Seq(Entry)
  BY DEF GatherInv, GatherTyped
<1>3. /\ 1 \in Slots /\ Kind(1) = "wdone" /\ result # "none" /\ result # "set"
      /\ result = "pending" => Kind(1) = Due /\ \A i \in Slots : i # 1 => Kind(i) \notin Control
  BY <1>1, AtHead DEF Control
<1>4. /\ waits' \in [at : {"none", "start", "blocked", "woken", "over"}, on : SUBSET Futures, cancelled : BOOLEAN]
      /\ result' = result /\ result' \in {"pending", "cancelled", "set"}
  BY <1>1, <1>2, <1>3 DEF GatherTyped
<1>5. CASE fset = "cancelled"
  <2> DEFINE s == << >>
  <2>1. Calls(s) /\ UNCHANGED <<futureMap, fset>>
    BY <1>5 DEF DoneCallback
  <2>2. s \in Seq(Entry) /\ Len(s) = 0 /\ \A k : k \notin 1 .. Len(s)
    BY NoneJoins
  <2> HIDE DEF s
  <2>3. result # "pending"
    BY <1>5 DEF GatherInv, AtWork
  <2>4. fset' \in {"none", "pending", "done", "cancelled"} /\ futureMap' \subseteq 1 .. yielded
    BY <1>2, <2>1 DEF GatherTyped
  <2> QED BY <1>1, <1>3, <1>4, <2>1, <2>2, <2>3, <2>4, LoopKeeps
<1>6. CASE fset # "cancelled"
  <2> DEFINE s == <<<<"handle">>>>
  <2>1. Calls(s) /\ futureMap' = futureMap \ waits.on /\ fset' = "done"
    BY <1>6 DEF DoneCallback
  <2>2. s \in Seq(Entry) /\ Len(s) = 1 /\ \A k \in 1 .. Len(s) : k = 1 /\ s[k][1] = "handle"
    BY OneJoins DEF Plain, Control
  <2> HIDE DEF s
  <2>3. result = "pending" => AtWork'
    <3> SUFFICES ASSUME result = "pending" PROVE AtWork'
      OBVIOUS
    <3>1. AtWork /\ waits.at = "over" /\ fset = "pending"
      <4>1. AtWork
        BY DEF GatherInv
      <4>2. Due = "wdone"
        BY <1>3
      <4> QED BY <1>2, <4>1, <4>2 DEF Due, GatherTyped
    <3>2. Shifted(1, s)
      BY <1>1, <1>2, <2>1, <2>2, CallShifts
    <3>3. OneCall'
      <4>1. Due' = "handle" /\ s[1][1] = "handle"
        BY <1>1, <2>1, <2>2, <3>1 DEF Due
      <4> QED BY <1>2, <1>3, <2>2, <3>1, <3>2, <4>1, CallKept DEF AtWork
    <3>4. Before'
      <4>1. \A f \in waits.on : Over(f)'
        BY <1>1, <3>1 DEF AtWork, Before, Over
      <4>2. ASSUME NEW p \in Slots', NEW i \in Slots', Kind(p)' \in {"wdone", "handle"}, Ended(i)',
                   Of(i)' \in waits.on
            PROVE  Kind(i)' = "exit" /\ i < p
        <5>1. /\ \A k \in Slots' : \/ k + 1 \in Slots /\ gready'[k] = gready[k + 1]
                                   \/ \E m \in 1 .. Len(s) : k = Len(gready) - 1 + m /\ gready'[k] = s[m]
              /\ Len(gready) \in Nat /\ Slots \subseteq Nat /\ Slots' \subseteq Nat
          BY <1>2, <2>2, <3>2, Origin
        <5>2. ~(p + 1 \in Slots /\ gready'[p] = gready[p + 1])
          <6>1. p \in Slots' /\ p + 1 # 1
            BY <5>1 DEF Slots
          <6> QED BY <1>3, <4>2, <6>1 DEF Kind, Control
        <5>3. p = Len(gready)
          BY <2>2, <5>1, <5>2
        <5>4. i + 1 \in Slots /\ gready'[i] = gready[i + 1]
          BY <2>2, <4>2, <5>1 DEF Ended, Kind
        <5>5. Ended(i + 1) /\ Of(i + 1) \in waits.on /\ Kind(i)' = Kind(i + 1)
          BY <4>2, <5>4 DEF Ended, Kind, Of
        <5>6. ~(i + 1 < 1)
          BY <5>1
        <5>7. Kind(i + 1) # "done"
          BY <1>3, <3>1, <5>4, <5>5, <5>6 DEF AtWork, Before
        <5> QED BY <5>1, <5>3, <5>4, <5>5, <5>7 DEF Slots, Ended
      <4> QED BY <1>1, <2>1, <4>1, <4>2 DEF Before
    <3>5. running \subseteq futureMap' \cup waits.on
      BY <2>1, <3>1 DEF AtWork
    <3> QED BY <1>1, <2>1, <3>1, <3>3, <3>4, <3>5 DEF AtWork, schedVars
  <2>4. /\ fset' \in {"none", "pending", "done", "cancelled"} /\ futureMap' \subseteq 1 .. yielded
        /\ \A k \in 1 .. Len(s) : s[k][1] \notin {"done", "exit", "cancel result", "cancel set"}
    BY <1>2, <2>1, <2>2 DEF GatherTyped
  <2> QED BY <1>1, <1>3, <1>4, <2>1, <2>2, <2>3, <2>4, LoopKeeps
<1> QED BY <1>5, <1>6

\* A queue that two calls join.
LEMMA TwoJoin ==
  ASSUME NEW a \in Entry, NEW b \in Entry
  PROVE  <<a, b>> \in Seq(Entry) /\ \A k \in 1 .. Len(<<a, b>>) : <<a, b>>[k] = a \/ <<a, b>>[k] = b
<1>1. <<a, b>> \in Seq(Entry) /\ Len(<<a, b>>) = 2
  OBVIOUS
<1>2. \A k \in 1 .. Len(<<a, b>>) : k = 1 \/ k = 2
  BY <1>1
<1>3. <<a, b>>[1] = a /\ <<a, b>>[2] = b
  OBVIOUS
<1> QED BY <1>1, <1>2, <1>3

\* cancel_callback of iter_gather, once the result is cancelled.
LEMMA ResultCancelledKeeps ==
  ASSUME GatherInv, ResultCancelled
  PROVE  GatherInv'
<1>1. /\ gready # << >> /\ Head(gready)[1] = "cancel result"
      /\ UNCHANGED <<schedVars, fst, futureMap, waits, result>>
  BY DEF ResultCancelled, Does
<1>2. GatherTyped /\ gready \in Seq(Entry) /\ Kind(1) = "cancel result" /\ result = "cancelled"
  BY <1>1, AtHead DEF GatherInv, GatherTyped
<1>3. PICK s \in {<<<<"cancel set">>, <<"handle">>>>, << >>} : Calls(s) /\ fset' \in {"cancelled", fset}
  BY DEF ResultCancelled
<1>4. s \in Seq(Entry) /\ \A k \in 1 .. Len(s) : s[k][1] \notin {"done", "exit"}
  <2>1. CASE s = << >>
    BY <2>1
  <2>2. CASE s = <<<<"cancel set">>, <<"handle">>>>
    <3> DEFINE a == <<"cancel set">>
               b == <<"handle">>
    <3>1. a \in Entry /\ a[1] \notin {"done", "exit"}
      BY Entries DEF Plain, Control
    <3>2. b \in Entry /\ b[1] \notin {"done", "exit"}
      BY Entries DEF Plain, Control
    <3>3. s = <<a, b>>
      BY <2>2
    <3> HIDE DEF a, b
    <3> DEFINE t == <<a, b>>
    <3>4. t \in Seq(Entry) /\ \A k \in 1 .. Len(t) : t[k] = a \/ t[k] = b
      BY <3>1, <3>2, TwoJoin
    <3>5. s = t
      BY <3>3
    <3> HIDE DEF t
    <3>6. t \in Seq(Entry) /\ \A k \in 1 .. Len(t) : t[k][1] \notin {"done", "exit"}
      BY <3>1, <3>2, <3>4
    <3> QED BY <3>5, <3>6
  <2> QED BY <1>3, <2>1, <2>2
<1>5. /\ waits' \in [at : {"none", "start", "blocked", "woken", "over"}, on : SUBSET Futures, cancelled : BOOLEAN]
      /\ result' = result /\ result' \in {"pending", "cancelled", "set"}
      /\ fset' \in {"none", "pending", "done", "cancelled"} /\ futureMap' \subseteq 1 .. yielded
  BY <1>1, <1>2, <1>3 DEF GatherTyped
<1> QED BY <1>1, <1>2, <1>3, <1>4, <1>5, LoopKeeps

\* done_callback's future has been cancelled: so is the wait.
LEMMA SetCancelledKeeps ==
  ASSUME GatherInv, SetCancelled
  PROVE  GatherInv'
<1>1. /\ gready # << >> /\ Head(gready)[1] = "cancel set"
      /\ UNCHANGED <<schedVars, fst, futureMap, fset, result>>
  BY DEF SetCancelled, Does
<1>2. GatherTyped /\ gready \in Seq(Entry) /\ Kind(1) = "cancel set" /\ result = "cancelled"
  BY <1>1, AtHead DEF GatherInv, GatherTyped
<1>3. /\ waits' \in {waits, [waits EXCEPT !.cancelled = TRUE]}
      /\ \E s \in {<<<<"wake">>>>, << >>} : Calls(s)
  BY DEF SetCancelled
<1>4. PICK s \in {<<<<"wake">>>>, << >>} : Calls(s)
  BY <1>3
<1>5. s \in Seq(Entry) /\ \A k \in 1 .. Len(s) : s[k][1] \notin {"done", "exit"}
  <2>1. CASE s = << >>
    BY <2>1
  <2>2. CASE s = <<<<"wake">>>>
    <3>1. "wake" \in Plain
      BY DEF Plain, Control
    <3>2. s \in Seq(Entry) /\ \A k \in 1 .. Len(s) : s[k][1] = "wake"
      BY <2>2, <3>1, OneJoins
    <3> QED BY <3>2
  <2> QED BY <1>4, <2>1, <2>2
<1>6. /\ waits' \in [at : {"none", "start", "blocked", "woken", "over"}, on : SUBSET Futures, cancelled : BOOLEAN]
      /\ result' = result /\ result' \in {"pending", "cancelled", "set"}
      /\ fset' \in {"none", "pending", "done", "cancelled"} /\ futureMap' \subseteq 1 .. yielded
  BY <1>1, <1>2, <1>3 DEF GatherTyped
<1> QED BY <1>1, <1>2, <1>4, <1>5, <1>6, LoopKeeps

\* When the map is looked at, the futures that have left it have no task any more.
LEMMA NoneBehind ==
  ASSUME GatherInv, gready # << >>, Head(gready)[1] = "handle", result = "pending"
  PROVE  /\ AtWork /\ waits.at = "over" /\ fset = "done" /\ running \subseteq futureMap
         /\ \A i \in Slots : i # 1 => Kind(i) \notin Control
<1>1. /\ 1 \in Slots /\ Kind(1) = "handle" /\ Kind(1) = Due
      /\ \A i \in Slots : i # 1 => Kind(i) \notin Control
  BY AtHead DEF Control
<1>2. GatherTyped /\ Queued /\ AtWork
  BY DEF GatherInv
<1>3. waits.at = "over" /\ fset = "done"
  <2>1. waits.at = "over" /\ fset # "pending"
    BY <1>1, <1>2 DEF Due, GatherTyped
  <2> QED BY <1>2, <2>1 DEF AtWork
<1>4. ASSUME NEW f \in running, f \in waits.on PROVE FALSE
  <2>1. Over(f)
    BY <1>2, <1>3, <1>4 DEF AtWork, Before
  <2>2. PICK i \in Slots : Ended(i) /\ Of(i) = f
    BY <1>2, <2>1 DEF Queued, Finished
  <2>3. i < 1
    BY <1>1, <1>2, <1>3, <1>4, <2>2 DEF AtWork, Before
  <2> QED BY <1>2, <2>2, <2>3 DEF Slots
<1>5. running \subseteq futureMap
  BY <1>2, <1>3, <1>4 DEF AtWork
<1> QED BY <1>1, <1>2, <1>3, <1>5

\* handle_result.
LEMMA HandleResultKeeps ==
  ASSUME GatherInv, HandleResult
  PROVE  GatherInv'
<1>1. gready # << >> /\ Head(gready)[1] = "handle" /\ futureMap' = futureMap
  BY DEF HandleResult, Does
<1>2. GatherTyped /\ gready \in Seq(Entry) /\ Queued /\ Counted
  BY DEF GatherInv, GatherTyped
<1>3. 1 \in Slots /\ Kind(1) = "handle" /\ result \in {"pending", "cancelled"}
  BY <1>1, <1>2, AtHead DEF Control, GatherTyped
<1>4. CASE result = "cancelled"
  <2> DEFINE s == << >>
  <2>1. Calls(s) /\ UNCHANGED <<schedVars, fst, waits, fset, result>>
    BY <1>4 DEF HandleResult
  <2>2. s \in Seq(Entry) /\ Len(s) = 0 /\ \A k : k \notin 1 .. Len(s)
    BY NoneJoins
  <2> HIDE DEF s
  <2>3. /\ waits' \in [at : {"none", "start", "blocked", "woken", "over"}, on : SUBSET Futures, cancelled : BOOLEAN]
        /\ result' = result /\ result' \in {"pending", "cancelled", "set"}
        /\ fset' \in {"none", "pending", "done", "cancelled"} /\ futureMap' \subseteq 1 .. yielded
    BY <1>1, <1>2, <1>4, <2>1 DEF GatherTyped
  <2> QED BY <1>1, <1>3, <1>4, <2>1, <2>2, <2>3, LoopKeeps
<1>5. CASE result = "pending" /\ futureMap # {}
  <2> DEFINE s == <<<<"wait">>>>
  <2>1. /\ AtWork /\ waits.at = "over" /\ fset = "done" /\ running \subseteq futureMap
        /\ \A i \in Slots : i # 1 => Kind(i) \notin Control
    BY <1>1, <1>5, NoneBehind
  <2>2. /\ waits' = [at |-> "start", on |-> futureMap, cancelled |-> FALSE]
        /\ fset' = "pending" /\ result' = "pending" /\ Calls(s) /\ UNCHANGED <<schedVars, fst>>
    BY <1>5 DEF HandleResult, NextWait
  <2>3. s \in Seq(Entry) /\ Len(s) = 1 /\ \A k \in 1 .. Len(s) : k = 1 /\ s[k][1] = "wait"
    BY OneJoins DEF Plain, Control
  <2> HIDE DEF s
  <2>4. waits' \in [at : {"none", "start", "blocked", "woken", "over"}, on : SUBSET Futures, cancelled : BOOLEAN]
    <3>1. futureMap \in SUBSET Futures
      BY <1>2, GatherAssumption DEF GatherTyped, Futures
    <3> QED BY <2>2, <3>1
  <2>5. waits'.at = "start" /\ waits'.cancelled = FALSE
    BY <2>2
  <2>6. AtWork'
    <3>1. Shifted(1, s)
      BY <1>1, <1>2, <2>2, <2>3, CallShifts
    <3>2. OneCall'
      <4>1. Due' = "wait" /\ s[1][1] = "wait"
        BY <2>3, <2>5 DEF Due
      <4> QED BY <1>2, <2>1, <2>3, <3>1, <4>1, CallKept DEF AtWork
    <3>3. Before'
      BY <2>5 DEF Before
    <3> QED BY <1>1, <2>1, <2>2, <2>5, <3>2, <3>3 DEF AtWork, schedVars
  <2>7. /\ \A k \in 1 .. Len(s) : s[k][1] \notin {"done", "exit", "cancel result", "cancel set"}
        /\ futureMap' \subseteq 1 .. yielded
    BY <1>1, <1>2, <2>3 DEF GatherTyped
  <2> QED BY <1>1, <1>3, <1>5, <2>2, <2>3, <2>4, <2>6, <2>7, LoopKeeps
<1>6. CASE result = "pending" /\ futureMap = {}
  <2>1. /\ AtWork /\ waits.at = "over" /\ running = {}
        /\ \A i \in Slots : i # 1 => Kind(i) \notin Control
    BY <1>1, <1>6, NoneBehind
  <2>2. exhausted /\ ~stopped /\ yielded = total
    BY <1>2, <2>1 DEF AtWork, Counted
  <2>3. PICK S \in SUBSET Futures : Cancels(S) /\ \E q \in InTurn(S) : Calls(Callbacks(q))
    BY <1>6 DEF HandleResult
  <2>4. PICK q \in InTurn(S) : Calls(Callbacks(q))
    BY <2>3
  <2>5. result' = "set" /\ UNCHANGED <<waits, fset>>
    BY <1>6 DEF HandleResult
  <2>6. /\ IsFiniteSet(S) /\ S \subseteq running /\ Finished' = Finished \cup S /\ Counted' /\ stopped' = TRUE
        /\ fst' \in [Futures -> {"new", "pending", "ok", "failed", "cancelled"}]
        /\ UNCHANGED <<total, yielded, exhausted, running, ended>>
    BY <1>2, <2>3, CancelsTasks
  <2>7. S = {} /\ Callbacks(q) = << >> /\ Finished' = Finished
    <3>1. S = {}
      BY <2>1, <2>6
    <3> QED BY <2>4, <2>6, <3>1, CallbacksBring
  <2>8. fst' = fst
    BY <1>2, <2>3, <2>7 DEF Cancels, GatherTyped
  <2> DEFINE s == << >>
  <2>9. Calls(s)
    BY <2>4, <2>7
  <2>10. s \in Seq(Entry) /\ Len(s) = 0 /\ \A k : k \notin 1 .. Len(s)
    BY NoneJoins
  <2> HIDE DEF s
  <2>11. Shifted(1, s)
    BY <1>1, <1>2, <2>9, <2>10, CallShifts
  <2>12. Queued'
    <3>1. Left(1) = {}
      BY <1>3 DEF Left, Ended
    <3>2. Brings(s, {})
      BY <2>10, BringsNothing
    <3> QED BY <1>2, <1>3, <2>7, <2>11, <3>1, <3>2, QueueKept
  <2>13. GatherTyped'
    BY <1>1, <1>2, <2>5, <2>6, <2>11 DEF GatherTyped, Shifted
  <2>14. \A i \in Slots' : Kind(i)' \notin Control
    BY <1>2, <2>1, <2>10, <2>11, NoneKept
  <2>15. \A i \in Slots' : Kind(i)' \notin {"cancel result", "cancel set"}
    <3>1. \A i \in Slots : Kind(i) \notin {"cancel result", "cancel set"}
      BY <1>6 DEF GatherInv
    <3> QED BY <1>2, <2>10, <2>11, <3>1, NoneKept
  <2>16. \A f \in 1 .. total : fst[f] \in {"ok", "failed"}
    <3> SUFFICES ASSUME NEW f \in 1 .. total PROVE fst[f] \in {"ok", "failed"}
      OBVIOUS
    <3>1. f \in Futures /\ ~(f > yielded)
      BY <1>2, <2>2, GatherAssumption DEF GatherTyped, Futures
    <3>2. fst[f] \in {"new", "pending", "ok", "failed", "cancelled"}
      BY <1>2, <3>1 DEF GatherTyped
    <3> QED BY <1>2, <2>1, <2>2, <3>1, <3>2 DEF Counted
  <2> QED BY <2>1, <2>2, <2>5, <2>6, <2>8, <2>12, <2>13, <2>14, <2>15, <2>16 DEF GatherInv
<1> QED BY <1>3, <1>4, <1>5, <1>6

\* The invariant holds at first, and every step keeps it.
LEMMA GatherInvInvariant ==
  /\ GatherInit => GatherInv
  /\ GatherInv /\ [GatherNext]_gatherVars => GatherInv'
<1>1. ASSUME GatherInit PROVE GatherInv
  <2>1. /\ total \in 0 .. MaxFutures /\ yielded = 0 /\ exhausted = FALSE /\ running = {} /\ stopped = FALSE
        /\ ended = FALSE /\ fst = [f \in Futures |-> "new"] /\ futureMap = {} /\ waits = NoWait
        /\ fset = "none" /\ result = "none" /\ gready = << >>
    BY <1>1 DEF GatherInit
  <2>2. GatherTyped /\ waits.at = "none"
    <3>1. total \in 0 .. MaxFutures /\ yielded \in 0 .. total /\ running \subseteq 1 .. yielded
      BY <2>1, GatherAssumption
    <3>2. fst \in [Futures -> {"new", "pending", "ok", "failed", "cancelled"}]
      BY <2>1
    <3>3. gready \in Seq(Entry)
      BY <2>1, NoneJoins
    <3>4. waits.at = "none" /\ waits \in
            [at : {"none", "start", "blocked", "woken", "over"}, on : SUBSET Futures, cancelled : BOOLEAN]
      BY <2>1 DEF NoWait
    <3> QED BY <2>1, <3>1, <3>2, <3>3, <3>4 DEF GatherTyped
  <2>3. Slots = {} /\ Finished = {}
    BY <2>1 DEF Slots, Finished
  <2>4. Counted
    <3>1. Cardinality(running) = 0
      BY <2>1, FS_EmptySet
    <3> QED BY <2>1, <3>1, GatherAssumption DEF Counted, Futures
  <2>5. Queued
    BY <2>3 DEF Queued
  <2>6. result # "pending" /\ result # "set" /\ \A i \in Slots : FALSE
    BY <2>1, <2>3
  <2>7. gready = << >> /\ running = {} /\ ~stopped /\ ~exhausted /\ yielded = 0
    BY <2>1
  <2> QED BY <2>2, <2>4, <2>5, <2>6, <2>7 DEF GatherInv
<1>2. ASSUME GatherInv, [GatherNext]_gatherVars PROVE GatherInv'
  <2>1. CASE UNCHANGED gatherVars
    <3>1. /\ UNCHANGED <<total, yielded, exhausted, running, stopped, ended>>
          /\ UNCHANGED <<fst, futureMap, waits, fset, result, gready>>
      BY <2>1 DEF gatherVars, schedVars
    <3>2. GatherTyped' = GatherTyped
      BY <3>1 DEF GatherTyped
    <3>3. /\ Slots' = Slots /\ Finished' = Finished /\ Due' = Due
          /\ \A i : Kind(i)' = Kind(i) /\ Of(i)' = Of(i) /\ (Ended(i)' <=> Ended(i))
          /\ \A f : Over(f)' <=> Over(f)
      BY <3>1 DEF Slots, Finished, Due, Kind, Of, Ended, Over
    <3>4. (Queued' <=> Queued) /\ (Counted' <=> Counted)
      BY <3>1, <3>3 DEF Queued, Counted
    <3>5. (OneCall' <=> OneCall) /\ (Before' <=> Before)
      BY <3>1, <3>3 DEF OneCall, Before
    <3>6. AtWork' <=> AtWork
      BY <3>1, <3>5 DEF AtWork
    <3> QED BY <1>2, <3>1, <3>2, <3>3, <3>4, <3>6 DEF GatherInv
  <2>2. CASE GatherStart
    BY <1>2, <2>2, GatherStartKeeps
  <2>3. CASE GatherCallback
    BY <1>2, <2>3, TaskDoneKeeps, GatherExitKeeps, WaitStartsKeeps, WonKeeps, WaitEndsKeeps,
       DoneCallbackKeeps,
       HandleResultKeeps, ResultCancelledKeeps, SetCancelledKeeps DEF GatherCallback
  <2>4. CASE CancelResult
    BY <1>2, <2>4, CancelResultKeeps
  <2>5. CASE GeneratorCollected
    BY <1>2, <2>5, GeneratorCollectedKeeps
  <2>6. CASE \E f \in Futures : FutureEnds(f)
    BY <1>2, <2>6, FutureEndsKeeps
  <2> QED BY <1>2, <2>1, <2>2, <2>3, <2>4, <2>5, <2>6 DEF GatherNext
<1> QED BY <1>1, <1>2

\* What the invariant says of the result.
LEMMA GatherInvWhole == GatherInv => GatherWhole
<1> SUFFICES ASSUME GatherInv PROVE GatherWhole
  OBVIOUS
<1>1. GatherTyped /\ Counted
  BY DEF GatherInv
<1>2. result = "set" => exhausted /\ yielded = total /\ \A f \in 1 .. total : fst[f] \in {"ok", "failed"}
  BY <1>1 DEF GatherInv, Counted
<1> DEFINE P == {f \in Futures : fst[f] = "pending"}
<1>3. P \subseteq running
  BY <1>1 DEF Counted
<1>4. IsFiniteSet(running)
  <2>1. yielded \in Nat /\ running \subseteq 1 .. yielded
    BY <1>1, GatherAssumption DEF GatherTyped
  <2>2. IsFiniteSet(1 .. yielded)
    BY <2>1, FS_Interval
  <2> QED BY <2>1, <2>2, FS_Subset
<1> HIDE DEF P
<1>5. Cardinality(P) <= Cardinality(running) /\ Cardinality(P) \in Nat /\ Cardinality(running) \in Nat
  BY <1>3, <1>4, FS_Subset, FS_CardinalityType
<1>6. Cardinality(P) <= MaxJobs
  BY <1>1, <1>5, GatherAssumption DEF Counted
<1> QED BY <1>2, <1>6 DEF GatherWhole, P

\* When iter_gather returns its result, the generator has been read to its end and every
\* future has come to an end of its own, and there are never more than max_jobs under way:
\* for any number of futures, any max_jobs and every order of the loop's callbacks.
THEOREM GathersWhole == GatherSpec => []GatherWhole
<1>1. GatherInit => GatherInv
  BY GatherInvInvariant
<1>2. GatherInv /\ [GatherNext]_gatherVars => GatherInv'
  BY GatherInvInvariant
<1>3. GatherInv => GatherWhole
  BY GatherInvWhole
<1> QED BY <1>1, <1>2, <1>3, PTL DEF GatherSpec
=============================================================================
