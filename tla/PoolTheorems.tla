---------------------------- MODULE PoolTheorems ----------------------------
(***************************************************************************)
(* The FIFO and the priority pool, for every set of tasks, contexts,       *)
(* priorities, executor counts and stop() callers: they keep the pool      *)
(* invariant and implement DrainPool, and they admit callbacks in the      *)
(* order of their discipline.                                              *)
(***************************************************************************)
EXTENDS PoolProofs

(***************************************************************************)
(* The queues of the two disciplines                                       *)
(***************************************************************************)

\* addTask() puts the task behind the queued ones, once.
LEMMA PushedQueue ==
    ASSUME PoolInv, NEW t \in Tasks, Accept(t, Append(queue, t))
    PROVE  /\ Append(queue, t) \in Seq(Tasks) /\ IsInjective(Append(queue, t))
           /\ Range(Append(queue, t)) = Range(queue) \cup {t}
<1>1. t \notin Range(queue)
  BY InvFacts DEF Accept
<1> QED  BY <1>1, InvFacts, AppendOnce

\* The size of an interval from 1.
LEMMA CountTo ==
    ASSUME NEW n \in Nat
    PROVE  IsFiniteSet(1..n) /\ Cardinality(1..n) = n
<1>1. IsFiniteSet(1..n) /\ Cardinality(1..n) = IF 1 > n THEN 0 ELSE n - 1 + 1
  BY FS_Interval
<1>2. (IF 1 > n THEN 0 ELSE n - 1 + 1) = n
  OBVIOUS
<1> QED  BY <1>1, <1>2

\* q with t inserted at position k.
With(q, k, t) == SubSeq(q, 1, k - 1) \o <<t>> \o SubSeq(q, k, Len(q))

\* An insertion into a duplicate-free sequence adds exactly the new element.
LEMMA InsertOnce ==
    ASSUME NEW S, NEW q \in Seq(S), IsInjective(q), NEW t \in S, t \notin Range(q),
           NEW k \in 1..Len(q) + 1
    PROVE  /\ With(q, k, t) \in Seq(S) /\ IsInjective(With(q, k, t))
           /\ Range(With(q, k, t)) = Range(q) \cup {t}
           /\ Len(With(q, k, t)) = Len(q) + 1 /\ With(q, k, t)[k] = t
           /\ \A i \in 1..Len(q) + 1 : i # k =>
                /\ (IF i < k THEN i ELSE i - 1) \in 1..Len(q)
                /\ With(q, k, t)[i] = q[IF i < k THEN i ELSE i - 1]
<1> DEFINE r == With(q, k, t)
           at(i) == IF i < k THEN i ELSE i - 1
<1>1. Len(q) \in Nat /\ DOMAIN q = 1..Len(q) /\ \A i \in 1..Len(q) : q[i] \in S
  OBVIOUS
<1> DEFINE left == SubSeq(q, 1, k - 1)
           right == SubSeq(q, k, Len(q))
<1>2. /\ left \in Seq(S) /\ Len(left) = k - 1
      /\ \A i \in 1..k - 1 : left[i] = q[i]
  BY <1>1
<1>3. /\ right \in Seq(S) /\ Len(right) = Len(q) - k + 1
      /\ \A i \in 1..(Len(q) - k + 1) : right[i] = q[k + i - 1]
  BY <1>1
<1>4a. r = (left \o <<t>>) \o right
  BY DEF With
<1> HIDE DEF left, right, r
<1>4b. /\ left \o <<t>> \in Seq(S) /\ Len(left \o <<t>>) = k
      /\ \A i \in 1..k : (left \o <<t>>)[i] = IF i < k THEN q[i] ELSE t
  BY <1>1, <1>2
<1> DEFINE mid == left \o <<t>>
<1> HIDE DEF mid
<1>4c. /\ mid \in Seq(S) /\ Len(mid) = k /\ r = mid \o right
      /\ \A i \in 1..k : mid[i] = IF i < k THEN q[i] ELSE t
  BY <1>4b, <1>4a DEF mid
<1>4e. r \in Seq(S) /\ Len(r) = Len(mid) + Len(right)
  <2>1. mid \o right \in Seq(S) /\ Len(mid \o right) = Len(mid) + Len(right)
    <3>1. mid \in Seq(S) /\ right \in Seq(S)
      BY <1>3, <1>4c
    <3> QED  BY ONLY <3>1
  <2> QED  BY Zenon, <1>4c, <2>1
<1>4f. Len(r) = Len(q) + 1
  BY <1>1, <1>3, <1>4c, <1>4e
<1>4. /\ r \in Seq(S) /\ Len(r) = Len(q) + 1 /\ DOMAIN r = 1..Len(q) + 1
  BY <1>4e, <1>4f
<1>4d. \A i \in 1..Len(q) + 1 : r[i] = IF i <= k THEN mid[i] ELSE right[i - k]
  BY <1>1, <1>3, <1>4c
<1>5. r[k] = t
  BY <1>1, <1>4d, <1>4c
<1>6. \A i \in 1..Len(q) + 1 : i # k => at(i) \in 1..Len(q) /\ r[i] = q[at(i)]
  <2> SUFFICES ASSUME NEW i \in 1..Len(q) + 1, i # k
               PROVE  at(i) \in 1..Len(q) /\ r[i] = q[at(i)]
    OBVIOUS
  <2>1. CASE i < k
    BY <1>1, <1>4d, <1>4c, <2>1
  <2>2. CASE ~(i < k)
    <3>1. i - k \in 1..(Len(q) - k + 1) /\ k + (i - k) - 1 = i - 1
      BY <1>1, <2>2
    <3>2. r[i] = right[i - k] /\ right[i - k] = q[i - 1]
      BY <1>1, <1>3, <1>4d, <2>2, <3>1
    <3> QED  BY <1>1, <2>2, <3>2
  <2> QED  BY <2>1, <2>2
<1>7. \A i \in 1..Len(q) + 1 : i # k => r[i] # t
  BY <1>1, <1>6 DEF Range
<1>8. IsInjective(r)
  <2>1. ASSUME NEW i \in 1..Len(q) + 1, NEW j \in 1..Len(q) + 1, r[i] = r[j] PROVE i = j
    <3>1. CASE i = k \/ j = k
      BY <1>5, <1>7, <2>1, <3>1
    <3>2. CASE i # k /\ j # k
      <4>1. q[at(i)] = q[at(j)] /\ at(i) \in DOMAIN q /\ at(j) \in DOMAIN q
        BY <1>1, <1>6, <2>1, <3>2
      <4>2. at(i) = at(j)
        BY <4>1 DEF IsInjective
      <4> QED  BY <1>1, <3>2, <4>2
    <3> QED  BY <3>1, <3>2
  <2> QED  BY <1>4, <2>1 DEF IsInjective
<1>9. Range(r) = Range(q) \cup {t}
  <2>1. ASSUME NEW x \in Range(r) PROVE x \in Range(q) \cup {t}
    <3>1. PICK i \in 1..Len(q) + 1 : x = r[i]
      BY <1>4, <2>1 DEF Range
    <3> QED  BY <1>1, <1>5, <1>6, <3>1 DEF Range
  <2>2. ASSUME NEW x \in Range(q) PROVE x \in Range(r)
    <3>1. PICK j \in 1..Len(q) : x = q[j]
      BY <1>1, <2>2 DEF Range
    <3>2. PICK i \in 1..Len(q) + 1 : i # k /\ at(i) = j
      <4>1. CASE j < k
        BY <1>1, <4>1
      <4>2. CASE ~(j < k)
        <5>1. j + 1 \in 1..Len(q) + 1 /\ j + 1 # k /\ at(j + 1) = j
          BY <1>1, <4>2
        <5> QED  BY <5>1
      <4> QED  BY <4>1, <4>2
    <3>3. i \in DOMAIN r /\ x = r[i]
      BY <1>4, <1>6, <3>1, <3>2
    <3> QED  BY <3>3 DEF Range
  <2>3. t \in Range(r)
    BY <1>1, <1>4, <1>5 DEF Range
  <2> QED  BY <2>1, <2>2, <2>3
<1> QED  BY <1>4, <1>5, <1>6, <1>8, <1>9 DEF r

\* The tasks that stay ahead of an inserted one.
Ahead(t) == {i \in 1..Len(queue) : CtxOf[queue[i]] \in aborted \/ Prio[queue[i]] <= Prio[t]}

\* addTask() puts the task at its place in the pop order, once.
LEMMA InsertedQueue ==
    ASSUME PoolInv, NEW t \in Tasks, Accept(t, Inserted(t))
    PROVE  /\ Inserted(t) \in Seq(Tasks) /\ IsInjective(Inserted(t))
           /\ Range(Inserted(t)) = Range(queue) \cup {t}
           /\ InsertPosition(t) \in 1..Len(queue) + 1 /\ InsertPosition(t) = 1 + Cardinality(Ahead(t))
           /\ Len(Inserted(t)) = Len(queue) + 1 /\ Inserted(t)[InsertPosition(t)] = t
           /\ \A i \in 1..Len(queue) + 1 : i # InsertPosition(t) =>
                /\ (IF i < InsertPosition(t) THEN i ELSE i - 1) \in 1..Len(queue)
                /\ Inserted(t)[i] = queue[IF i < InsertPosition(t) THEN i ELSE i - 1]
<1>1. t \notin Range(queue) /\ queue \in Seq(Tasks) /\ IsInjective(queue)
  BY InvFacts DEF Accept
<1>2. Len(queue) \in Nat
  BY <1>1
<1>3. IsFiniteSet(1..Len(queue)) /\ Cardinality(1..Len(queue)) = Len(queue)
  BY <1>2, CountTo
<1>4. Cardinality(Ahead(t)) \in Nat /\ Cardinality(Ahead(t)) <= Len(queue)
  BY <1>3, FS_Subset, FS_CardinalityType DEF Ahead
<1>5. InsertPosition(t) = 1 + Cardinality(Ahead(t))
  BY DEF InsertPosition, Ahead
<1>6. InsertPosition(t) \in 1..Len(queue) + 1
  BY <1>2, <1>4, <1>5
<1> DEFINE k == InsertPosition(t)
<1>7. Inserted(t) = SubSeq(queue, 1, k - 1) \o <<t>> \o SubSeq(queue, k, Len(queue))
  BY DEF Inserted
<1>8. k \in 1..Len(queue) + 1
  BY <1>6
<1> HIDE DEF k
<1>9. /\ Inserted(t) \in Seq(Tasks) /\ IsInjective(Inserted(t))
      /\ Range(Inserted(t)) = Range(queue) \cup {t}
      /\ Len(Inserted(t)) = Len(queue) + 1 /\ Inserted(t)[k] = t
      /\ \A i \in 1..Len(queue) + 1 : i # k =>
           /\ (IF i < k THEN i ELSE i - 1) \in 1..Len(queue)
           /\ Inserted(t)[i] = queue[IF i < k THEN i ELSE i - 1]
  <2>1. Inserted(t) = With(queue, k, t)
    BY <1>7 DEF With
  <2> QED  BY <1>1, <1>8, <2>1, InsertOnce
<1> QED  BY <1>5, <1>6, <1>9 DEF k

\* What the disciplines hand to pump(): the queue with one task more, or
\* rearranged.
PoolSteps ==
    \/ CoreNext
    \/ \E t \in Tasks, q \in Seq(Tasks) :
         Accept(t, q) /\ IsInjective(q) /\ Range(q) = Range(queue) \cup {t}
    \/ \E c \in Contexts, q \in Seq(Tasks) :
         /\ Fire(c, q) /\ IsInjective(q) /\ Range(q) = Range(queue)
         /\ queue = <<>> => q = <<>>
    \/ UNCHANGED vars

\* Whatever addTask() and an abort of either pool do to the queue, they keep
\* every task in it exactly once.
LEMMA StepsOfPools ==
    ASSUME PoolInv, [PoolNext]_poolVars
    PROVE  PoolSteps
<1>1. ASSUME NEW c \in Contexts, NEW p \in Bijection(1..Len(queue), 1..Len(queue)),
             Fire(c, [i \in 1..Len(queue) |-> queue[p[i]]])
      PROVE  PoolSteps
  <2> DEFINE q == [i \in 1..Len(queue) |-> queue[p[i]]]
  <2>1. /\ q \in Seq(Tasks) /\ IsInjective(q) /\ Range(q) = Range(queue)
        /\ queue = <<>> => q = <<>>
    BY InvFacts, PermutedQueue
  <2>2. Fire(c, q)
    BY <1>1
  <2> HIDE DEF q
  <2> QED  BY Zenon, <2>1, <2>2 DEF PoolSteps
<1>2. CASE FifoNext
  <2>1. ASSUME NEW t \in Tasks, FifoAddTask(t) PROVE PoolSteps
    BY Zenon, <2>1, PushedQueue DEF PoolSteps, FifoAddTask
  <2>2. ASSUME NEW c \in Contexts, FifoAbort(c) PROVE PoolSteps
    BY Zenon, <2>2, <1>1 DEF FifoAbort
  <2> QED  BY Zenon, <1>2, <2>1, <2>2 DEF FifoNext, PoolSteps
<1>3. CASE PriorityNext
  <2>1. ASSUME NEW t \in Tasks, PriorityAddTask(t) PROVE PoolSteps
    BY Zenon, <2>1, InsertedQueue DEF PoolSteps, PriorityAddTask
  <2>2. ASSUME NEW c \in Contexts, PriorityAbort(c) PROVE PoolSteps
    BY Zenon, <2>2, <1>1 DEF PriorityAbort
  <2> QED  BY Zenon, <1>3, <2>1, <2>2 DEF PriorityNext, PoolSteps
<1>4. CASE UNCHANGED vars
  BY <1>4 DEF PoolSteps
<1> QED  BY Zenon, <1>2, <1>3, <1>4 DEF PoolNext, poolVars

\* Every step keeps the invariant and is one of DrainPool.
LEMMA PoolsStep ==
    ASSUME PoolInv, [PoolNext]_poolVars
    PROVE  PoolInv' /\ Refines
<1>0. PoolSteps
  BY StepsOfPools
<1>1. PoolInv'
  BY Zenon, <1>0, CorePreserves, AcceptPreserves, FirePreserves, StutterPreserves DEF PoolSteps
<1>2. ASSUME UNCHANGED vars PROVE Refines
  BY <1>2, InvisibleRefines DEF vars, taskVars, Admitted
<1>3. Refines
  BY Zenon, <1>0, <1>1, <1>2, CoreRefines, AcceptRefines, FireRefines DEF PoolSteps
<1> QED  BY <1>1, <1>3

-----------------------------------------------------------------------------

\* The pool invariant holds in every reachable state of both pools.
THEOREM Invariance == PoolSpec => []PoolInv
<1>1. PoolInit => PoolInv
  BY InitEstablishes DEF PoolInit
<1>2. PoolInv /\ [PoolNext]_poolVars => PoolInv'
  BY PoolsStep
<1> QED  BY <1>1, <1>2, PTL DEF PoolSpec

\* Type correctness of both pools.
THEOREM TypeCorrect == PoolSpec => []TypeOK
<1>1. PoolInv => TypeOK
  BY DEF PoolInv
<1> QED  BY <1>1, Invariance, PTL

\* No interleaving of addTask, cancellation, resize and stop loses a callback
\* or runs it twice, and #active is exact.
THEOREM NothingLost == PoolSpec => []TasksAccounted
<1>1. PoolInv => TasksAccounted
  BY DEF PoolInv
<1> QED  BY <1>1, Invariance, PTL

\* stop() returns normally only when every accepted callback has settled.
THEOREM DrainIsComplete == PoolSpec => []DrainedMeansDone
BY InvImpliesDrainedMeansDone, Invariance, PTL

\* pump() loses no wake-up: queued work and an idle executor never coexist.
THEOREM NoLostWakeup == PoolSpec => []NoIdleExecutor
<1>1. PoolInv => NoIdleExecutor
  BY DEF PoolInv
<1> QED  BY <1>1, Invariance, PTL

\* No step admits callbacks beyond executorsCount, also across resize().
THEOREM LimitRespected == PoolSpec => AdmissionWithinLimit
<1>1. PoolInv /\ [PoolNext]_poolVars
        => [Admitted' \ Admitted # {} => active' <= executorsCount']_vars
  BY PoolsStep DEF Refines
<1> QED  BY <1>1, Invariance, PTL DEF PoolSpec, AdmissionWithinLimit

\* Both pools implement the promise of DrainPool.
THEOREM Refinement == PoolSpec => ImplementsDrainPool
<1>1. PoolInit => Promise!Init
  BY InitRefines DEF PoolInit
<1>2. PoolInv /\ [PoolNext]_poolVars => [Promise!Next]_(Promise!vars)
  BY PoolsStep DEF Refines
<1> QED  BY <1>1, <1>2, Invariance, PTL DEF PoolSpec, ImplementsDrainPool, Promise!Spec

-----------------------------------------------------------------------------

(***************************************************************************)
(* The order in which the disciplines admit                                *)
(***************************************************************************)

\* Every task of q is related to those behind it.
Ordered(q, R) == \A i, j \in 1..Len(q) : i < j => <<q[i], q[j]>> \in R

\* The two orders, when the contexts in aborted have been aborted.
FifoOrder ==
    {p \in Tasks \X Tasks :
        \/ CtxOf[p[1]] \in aborted
        \/ CtxOf[p[2]] \notin aborted /\ AcceptedBefore(p[1], p[2])}
PriorityOrder == {p \in Tasks \X Tasks : PopsBefore(aborted, p[1], p[2])}

\* The queue of each discipline is in its order.
OrderInv ==
    /\ discipline = "fifo" => Ordered(queue, FifoOrder)
    /\ discipline = "priority" => Ordered(queue, PriorityOrder)

\* What a step does to the order R: the queue has it afterwards, and so have
\* the admitted tasks and those they leave queued.
KeepsOrder(R) ==
    /\ Ordered(queue', R)
    /\ \A t \in Admitted' \ Admitted, u \in Range(queue') : <<t, u>> \in R

\* pump() admits from the front of an ordered queue.
LEMMA PumpInOrder ==
    ASSUME PoolInv, NEW R, NEW st \in States, NEW q \in Seq(Tasks), NEW a \in Nat,
           NEW limit \in Nat \ {0},
           pump(st, q, a, limit), Ordered(q, R), executing' \subseteq executing
    PROVE  KeepsOrder(R)
<1> DEFINE n == Room(st, q, a, limit)
           rest == SubSeq(q, n + 1, Len(q))
           head == SubSeq(q, 1, n)
<1>0. Len(q) \in Nat
  OBVIOUS
<1>1. n \in 0..Len(q)
  BY <1>0 DEF Room
<1>2. queue' = rest /\ ready' = ready \o head
  BY Zenon DEF pump
<1> HIDE DEF n
<1>3. rest \in Seq(Tasks) /\ Len(rest) = Len(q) - n /\ \A i \in 1..Len(rest) : rest[i] = q[i + n]
  BY <1>0, <1>1
<1>4. head \in Seq(Tasks) /\ Len(head) = n /\ \A i \in 1..n : head[i] = q[i]
  BY <1>0, <1>1
<1> HIDE DEF rest, head
<1>5. Ordered(rest, R)
  <2> SUFFICES ASSUME NEW i \in 1..Len(rest), NEW j \in 1..Len(rest), i < j
               PROVE  <<rest[i], rest[j]>> \in R
    BY DEF Ordered
  <2>1. i + n \in 1..Len(q) /\ j + n \in 1..Len(q) /\ i + n < j + n
    BY <1>0, <1>1, <1>3
  <2>2. <<q[i + n], q[j + n]>> \in R
    BY <2>1 DEF Ordered
  <2> QED  BY <1>3, <2>2
<1>6. Range(ready') \subseteq Range(ready) \cup Range(head)
  <2>1. ready \in Seq(Tasks)
    BY InvFacts
  <2>2. \A i \in 1..Len(ready \o head) :
          (ready \o head)[i] \in Range(ready) \/ (ready \o head)[i] \in Range(head)
    <3> SUFFICES ASSUME NEW i \in 1..Len(ready \o head)
                 PROVE  (ready \o head)[i] \in Range(ready) \/ (ready \o head)[i] \in Range(head)
      OBVIOUS
    <3>1. CASE i <= Len(ready)
      <4>1. i \in 1..Len(ready) /\ (ready \o head)[i] = ready[i]
        BY <1>4, <2>1, <3>1
      <4> QED  BY <2>1, <4>1 DEF Range
    <3>2. CASE ~(i <= Len(ready))
      <4>1. i - Len(ready) \in 1..Len(head) /\ (ready \o head)[i] = head[i - Len(ready)]
        BY <1>4, <2>1, <3>2
      <4> QED  BY <1>4, <4>1 DEF Range
    <3> QED  BY <3>1, <3>2
  <2> QED  BY <1>2, <1>4, <2>1, <2>2 DEF Range
<1>7. ASSUME NEW t \in Admitted' \ Admitted, NEW u \in Range(rest)
      PROVE  <<t, u>> \in R
  <2>1. t \in Range(head)
    BY Zenon, <1>6 DEF Admitted
  <2>2. PICK i \in 1..n : t = q[i]
    BY <1>4, <2>1 DEF Range
  <2>3. PICK j \in 1..Len(rest) : u = q[j + n]
    BY <1>3 DEF Range
  <2>4. i \in 1..Len(q) /\ j + n \in 1..Len(q) /\ i < j + n
    BY <1>0, <1>1, <1>3
  <2>5. <<q[i], q[j + n]>> \in R
    BY <2>4 DEF Ordered
  <2> QED  BY Zenon, <2>2, <2>3, <2>5
<1> QED  BY Zenon, <1>2, <1>5, <1>7 DEF KeepsOrder

\* A step that starts nothing and leaves the queue.
LEMMA NoneInOrder ==
    ASSUME NEW R, Ordered(queue, R), queue' = queue, Admitted' \subseteq Admitted
    PROVE  KeepsOrder(R)
BY Zenon DEF KeepsOrder

\* The steps both disciplines share keep any order, and change neither what
\* was accepted nor what was aborted.
LEMMA CoreInOrder ==
    ASSUME PoolInv, PoolInv', CoreNext \/ UNCHANGED vars, NEW R, Ordered(queue, R)
    PROVE  KeepsOrder(R) /\ accepted' = accepted /\ aborted' = aborted
<1>t. /\ state \in States /\ active \in Nat /\ executorsCount \in Nat \ {0}
      /\ queue \in Seq(Tasks) /\ executorsCount' \in Nat \ {0}
      /\ {"running", "stopping"} \subseteq States
  BY InvFacts DEF PoolInv, TypeOK, States
<1>1. CASE Start
  BY Zenon, <1>t, <1>1, PumpInOrder DEF Start
<1>2. ASSUME NEW n \in Counts, Resize(n)
      PROVE  KeepsOrder(R) /\ accepted' = accepted /\ aborted' = aborted
  BY Zenon, <1>t, <1>2, PumpInOrder DEF Resize
<1>3. ASSUME NEW t \in Tasks, Reject(t)
      PROVE  KeepsOrder(R) /\ accepted' = accepted /\ aborted' = aborted
  BY Zenon, <1>3, NoneInOrder DEF Reject, Admitted
<1>4. CASE Run
  <2>1. ready \in Seq(Tasks) /\ IsInjective(ready) /\ ready # <<>>
    BY <1>4, InvFacts DEF Run
  <2>2. Range(ready) = Range(Tail(ready)) \cup {Head(ready)}
    BY <2>1, TakeHead
  <2> QED  BY Zenon, <1>4, <2>2, NoneInOrder DEF Run, Admitted
<1>5. ASSUME NEW t \in Tasks, Finish(t)
      PROVE  KeepsOrder(R) /\ accepted' = accepted /\ aborted' = aborted
  <2>1. executing' \subseteq executing /\ accepted' = accepted /\ aborted' = aborted
    BY Zenon, <1>5 DEF Finish
  <2>2. active - 1 \in Nat
    <3>1. executing' \in SUBSET Tasks /\ IsFiniteSet(executing) /\ t \in executing
      BY <1>5, InvFacts, PoolAssumption, FS_Subset DEF Finish
    <3>2. Cardinality(executing) \in Nat /\ Cardinality(executing) # 0 /\ Len(ready) \in Nat
      BY <3>1, InvFacts, FS_CardinalityType, FS_EmptySet
    <3> QED  BY <3>2, InvFacts
  <2>3. pump(state, queue, active - 1, executorsCount)
    BY Zenon, <1>5 DEF Finish
  <2>4. KeepsOrder(R)
    BY Zenon, <1>t, <2>1, <2>2, <2>3, PumpInOrder
  <2> QED  BY Zenon, <2>1, <2>4
<1>6. ASSUME NEW c \in Contexts, Expire(c)
      PROVE  KeepsOrder(R) /\ accepted' = accepted /\ aborted' = aborted
  BY Zenon, <1>6, NoneInOrder DEF Expire, taskVars, Admitted
<1>7. ASSUME NEW s \in Stoppers, Stop(s)
      PROVE  KeepsOrder(R) /\ accepted' = accepted /\ aborted' = aborted
  <2>1. executing' \subseteq executing /\ accepted' = accepted /\ aborted' = aborted
    BY Zenon, <1>7 DEF Stop
  <2>2. CASE state \in {"created", "running"}
    <3>1. pump("stopping", queue, active, executorsCount)
      BY Zenon, <1>7, <2>2 DEF Stop
    <3>2. KeepsOrder(R)
      BY Zenon, <1>t, <2>1, <3>1, PumpInOrder
    <3> QED  BY Zenon, <2>1, <3>2
  <2>3. CASE ~(state \in {"created", "running"})
    BY Zenon, <1>7, <2>1, <2>3, NoneInOrder DEF Stop, Admitted
  <2> QED  BY <2>2, <2>3
<1>8. ASSUME NEW s \in Stoppers, StopReturns(s) \/ StopTimesOut(s)
      PROVE  KeepsOrder(R) /\ accepted' = accepted /\ aborted' = aborted
  BY Zenon, <1>8, NoneInOrder DEF StopReturns, StopTimesOut, taskVars, Admitted
<1>9. CASE UNCHANGED vars
  BY Zenon, <1>9, NoneInOrder DEF vars, taskVars, Admitted
<1> QED  BY Zenon, <1>1, <1>2, <1>3, <1>4, <1>5, <1>6, <1>7, <1>8, <1>9 DEF CoreNext

\* A larger list of accepted tasks keeps their order.
LEMMA BeforeGrows ==
    ASSUME PoolInv, NEW t \in Tasks, accepted' = Append(accepted, t)
    PROVE  /\ \A x, y : AcceptedBefore(x, y) => AcceptedBefore(x, y)'
           /\ \A x \in Range(accepted) : AcceptedBefore(x, t)'
<1>1. /\ accepted \in Seq(Tasks) /\ Len(accepted) \in Nat /\ DOMAIN accepted = 1..Len(accepted)
      /\ Len(accepted') = Len(accepted) + 1 /\ accepted'[Len(accepted) + 1] = t
      /\ \A i \in 1..Len(accepted) : accepted'[i] = accepted[i]
  BY InvFacts
<1>2. ASSUME NEW x, NEW y, AcceptedBefore(x, y) PROVE AcceptedBefore(x, y)'
  <2>1. PICK i, j \in 1..Len(accepted) : i < j /\ accepted[i] = x /\ accepted[j] = y
    BY Zenon, <1>2 DEF AcceptedBefore
  <2>2. /\ i \in 1..Len(accepted') /\ j \in 1..Len(accepted')
        /\ accepted'[i] = x /\ accepted'[j] = y
    BY <1>1, <2>1
  <2> QED  BY Zenon, <2>1, <2>2 DEF AcceptedBefore
<1>3. ASSUME NEW x \in Range(accepted) PROVE AcceptedBefore(x, t)'
  <2>1. PICK i \in 1..Len(accepted) : accepted[i] = x
    BY <1>1 DEF Range
  <2>2. /\ i \in 1..Len(accepted') /\ Len(accepted) + 1 \in 1..Len(accepted')
        /\ i < Len(accepted) + 1 /\ accepted'[i] = x
    BY <1>1, <2>1
  <2> QED  BY Zenon, <1>1, <2>2 DEF AcceptedBefore
<1> QED  BY Zenon, <1>2, <1>3

\* Submission order is one way only: no task is accepted twice.
LEMMA BeforeOnce ==
    PoolInv => \A x, y : ~(AcceptedBefore(x, y) /\ AcceptedBefore(y, x))
<1> SUFFICES ASSUME PoolInv, NEW x, NEW y, AcceptedBefore(x, y), AcceptedBefore(y, x)
             PROVE  FALSE
  OBVIOUS
<1>1. PICK i, j \in 1..Len(accepted) : i < j /\ accepted[i] = x /\ accepted[j] = y
  BY Zenon DEF AcceptedBefore
<1>2. PICK k, l \in 1..Len(accepted) : k < l /\ accepted[k] = y /\ accepted[l] = x
  BY Zenon DEF AcceptedBefore
<1>3. DOMAIN accepted = 1..Len(accepted) /\ IsInjective(accepted)
  BY InvFacts
<1>4. i = l /\ j = k
  BY Zenon, <1>1, <1>2, <1>3 DEF IsInjective
<1>5. Len(accepted) \in Nat
  BY InvFacts
<1> QED  BY <1>1, <1>2, <1>4, <1>5

\* addTask() of the FIFO pool: the new task is behind the others.
LEMMA PushInOrder ==
    ASSUME PoolInv, NEW t \in Tasks, Accept(t, Append(queue, t)), Ordered(queue, FifoOrder)
    PROVE  Ordered(Append(queue, t), FifoOrder')
<1> DEFINE q == Append(queue, t)
<1>1. /\ queue \in Seq(Tasks) /\ Len(queue) \in Nat /\ DOMAIN queue = 1..Len(queue)
      /\ Range(queue) \subseteq Range(accepted)
  BY InvFacts
<1>2. /\ Len(q) = Len(queue) + 1 /\ q[Len(queue) + 1] = t
      /\ \A i \in 1..Len(queue) : q[i] = queue[i] /\ queue[i] \in Tasks
  BY <1>1
<1> HIDE DEF q
<1>3. aborted' = aborted /\ CtxOf[t] \notin aborted /\ accepted' = Append(accepted, t)
  BY Zenon DEF Accept, Cancelled
<1> SUFFICES ASSUME NEW i \in 1..Len(q), NEW j \in 1..Len(q), i < j,
                    NEW x, x = q[i], NEW y, y = q[j]
             PROVE  <<x, y>> \in FifoOrder'
  BY DEF q, Ordered
<1>4. i \in 1..Len(queue)
  BY <1>1, <1>2
<1>5. CASE j = Len(queue) + 1
  <2>3. x = queue[i] /\ y = t /\ x \in Tasks
    BY <1>2, <1>4, <1>5
  <2>1. x \in Range(accepted)
    BY <1>1, <1>4, <2>3 DEF Range
  <2>2. AcceptedBefore(x, t)'
    BY Zenon, <1>3, <2>1, BeforeGrows
  <2> QED  BY <1>3, <2>2, <2>3 DEF FifoOrder
<1>6. CASE j # Len(queue) + 1
  <2>1. j \in 1..Len(queue)
    BY <1>1, <1>2, <1>6
  <2>2. <<x, y>> \in FifoOrder
    BY <1>2, <1>4, <2>1 DEF Ordered
  <2>3. AcceptedBefore(x, y) => AcceptedBefore(x, y)'
    BY Zenon, <1>3, BeforeGrows
  <2> QED  BY <1>3, <2>2, <2>3 DEF FifoOrder
<1> QED  BY <1>5, <1>6

\* A signal of the FIFO pool: its tasks move ahead of all others.
LEMMA MoveInOrder ==
    ASSUME PoolInv, NEW c \in Contexts, Ordered(queue, FifoOrder),
           NEW p \in Bijection(1..Len(queue), 1..Len(queue)),
           \A i, j \in 1..Len(queue) : i < j => MovedBefore(c, p[i], p[j]),
           Fire(c, [i \in 1..Len(queue) |-> queue[p[i]]])
    PROVE  Ordered([i \in 1..Len(queue) |-> queue[p[i]]], FifoOrder')
<1> DEFINE q == [i \in 1..Len(queue) |-> queue[p[i]]]
<1>1. /\ queue \in Seq(Tasks) /\ Len(queue) \in Nat
      /\ \A i \in 1..Len(queue) : queue[i] \in Tasks /\ p[i] \in 1..Len(queue)
  BY InvFacts DEF Bijection, Injection
<1>2. Len(q) = Len(queue)
  BY <1>1
<1>3. aborted' = aborted \cup {c} /\ accepted' = accepted
  BY Zenon DEF Fire
<1> SUFFICES ASSUME NEW i \in 1..Len(queue), NEW j \in 1..Len(queue), i < j,
                    NEW x, x = queue[p[i]], NEW y, y = queue[p[j]]
             PROVE  <<x, y>> \in FifoOrder'
  BY <1>2 DEF Ordered
<1>4. p[i] \in 1..Len(queue) /\ p[j] \in 1..Len(queue) /\ x \in Tasks /\ y \in Tasks
  BY <1>1
<1>5. CASE CtxOf[x] = c
  BY <1>3, <1>4, <1>5 DEF FifoOrder
<1>6. CASE CtxOf[x] # c
  <2>1. CtxOf[y] # c /\ p[i] < p[j]
    BY Zenon, <1>6 DEF MovedBefore
  <2>2. <<x, y>> \in FifoOrder
    BY <1>4, <2>1 DEF Ordered
  <2>3. AcceptedBefore(x, y)' <=> AcceptedBefore(x, y)
    BY Zenon, <1>3 DEF AcceptedBefore
  <2> QED  BY <1>3, <1>4, <2>1, <2>2, <2>3 DEF FifoOrder
<1> QED  BY <1>5, <1>6

\* A set of positions that holds every smaller one is an interval.
LEMMA InitialPositions ==
    ASSUME NEW n \in Nat, NEW S \in SUBSET (1..n),
           \A i, j \in 1..n : i < j /\ j \in S => i \in S
    PROVE  \A i \in 1..n : i \in S <=> i < 1 + Cardinality(S)
<1>1. IsFiniteSet(S) /\ Cardinality(S) \in Nat
  BY CountTo, FS_Subset, FS_CardinalityType
<1> SUFFICES ASSUME NEW i \in 1..n PROVE i \in S <=> i < 1 + Cardinality(S)
  OBVIOUS
<1>2. CASE i \in S
  <2>1. 1..i \subseteq S /\ i \in Nat
    BY <1>2
  <2>2. Cardinality(1..i) <= Cardinality(S)
    BY <1>1, <2>1, FS_Subset
  <2>3. Cardinality(1..i) = i
    BY <2>1, CountTo
  <2> QED  BY <1>1, <1>2, <2>2, <2>3
<1>3. CASE i \notin S
  <2>1. i - 1 \in Nat /\ S \subseteq 1..(i - 1)
    BY <1>3
  <2>2. IsFiniteSet(1..(i - 1)) /\ Cardinality(1..(i - 1)) = i - 1
    BY <2>1, CountTo
  <2>3. Cardinality(S) <= Cardinality(1..(i - 1))
    BY <2>1, <2>2, FS_Subset
  <2> QED  BY <1>1, <1>3, <2>2, <2>3
<1> QED  BY <1>2, <1>3

\* addTask() of the priority pool: the new task is at its place.
LEMMA InsertInOrder ==
    ASSUME PoolInv, NEW t \in Tasks, Accept(t, Inserted(t)), Ordered(queue, PriorityOrder)
    PROVE  Ordered(Inserted(t), PriorityOrder')
<1> DEFINE q == Inserted(t)
           k == InsertPosition(t)
           at(i) == IF i < k THEN i ELSE i - 1
<1>1. /\ queue \in Seq(Tasks) /\ Len(queue) \in Nat /\ DOMAIN queue = 1..Len(queue)
      /\ Range(queue) \subseteq Range(accepted)
      /\ \A i \in 1..Len(queue) : queue[i] \in Tasks
  BY InvFacts
<1>2. /\ Len(q) = Len(queue) + 1 /\ q[k] = t /\ k \in 1..Len(queue) + 1
      /\ \A i \in 1..Len(queue) + 1 : i # k => at(i) \in 1..Len(queue) /\ q[i] = queue[at(i)]
  BY InsertedQueue
<1>3. k = 1 + Cardinality(Ahead(t))
  BY InsertedQueue
<1>4. aborted' = aborted /\ CtxOf[t] \notin aborted /\ accepted' = Append(accepted, t)
  BY Zenon DEF Accept, Cancelled
<1> HIDE DEF q, k
<1>p. \A u \in Tasks : Prio[u] \in Int
  BY PrioAssumption
<1>5. ASSUME NEW i \in 1..Len(queue), NEW j \in 1..Len(queue), i < j
      PROVE  PopsBefore(aborted, queue[i], queue[j])
  BY <1>5 DEF Ordered, PriorityOrder
<1>6. \A i \in 1..Len(queue) : i \in Ahead(t) <=> i < k
  <2>1. ASSUME NEW i \in 1..Len(queue), NEW j \in 1..Len(queue), i < j, j \in Ahead(t)
        PROVE  i \in Ahead(t)
    <3>1. PopsBefore(aborted, queue[i], queue[j])
      BY <1>5, <2>1
    <3>2. CtxOf[queue[i]] \in aborted \/ Prio[queue[i]] <= Prio[t]
      BY <1>1, <1>p, <2>1, <3>1 DEF PopsBefore, Ahead
    <3> QED  BY <3>2 DEF Ahead
  <2>2. Ahead(t) \in SUBSET (1..Len(queue))
    BY DEF Ahead
  <2> QED  BY <1>1, <1>3, <2>1, <2>2, InitialPositions
<1> SUFFICES ASSUME NEW i \in 1..Len(queue) + 1, NEW j \in 1..Len(queue) + 1, i < j,
                    NEW x, x = q[i], NEW y, y = q[j]
             PROVE  <<x, y>> \in PriorityOrder'
  BY <1>2 DEF Ordered, q
<1>7. CASE i = k
  <2>1. j - 1 \in 1..Len(queue) /\ y = queue[j - 1] /\ j - 1 \notin Ahead(t) /\ x = t
    BY <1>1, <1>2, <1>6, <1>7
  <2>2. CtxOf[y] \notin aborted /\ ~(Prio[y] <= Prio[t])
    BY <2>1 DEF Ahead
  <2>3. Prio[t] < Prio[y] /\ y \in Tasks
    BY <1>1, <1>p, <2>1, <2>2
  <2>4. PopsBefore(aborted, t, y)'
    BY <1>4, <2>2, <2>3 DEF PopsBefore
  <2> QED  BY <2>1, <2>3, <2>4 DEF PriorityOrder
<1>8. CASE j = k
  <2>1. i \in 1..Len(queue) /\ x = queue[i] /\ i \in Ahead(t) /\ y = t
    BY <1>1, <1>2, <1>6, <1>8
  <2>2. x \in Tasks /\ x \in Range(accepted)
    BY <1>1, <2>1 DEF Range
  <2>3. AcceptedBefore(x, t)'
    BY Zenon, <1>4, <2>2, BeforeGrows
  <2>4. CtxOf[x] \in aborted \/ Prio[x] < Prio[t] \/ Prio[x] = Prio[t]
    BY <1>p, <2>1, <2>2 DEF Ahead
  <2>5. PopsBefore(aborted, x, t)'
    BY <1>4, <2>3, <2>4 DEF PopsBefore
  <2> QED  BY <2>1, <2>2, <2>5 DEF PriorityOrder
<1>9. CASE i # k /\ j # k
  <2>1. at(i) \in 1..Len(queue) /\ at(j) \in 1..Len(queue) /\ at(i) < at(j)
    BY <1>2, <1>9
  <2>2. x = queue[at(i)] /\ y = queue[at(j)]
    BY <1>2, <1>9
  <2>3. PopsBefore(aborted, x, y) /\ x \in Tasks /\ y \in Tasks
    BY <1>1, <1>5, <2>1, <2>2
  <2>4. AcceptedBefore(x, y) => AcceptedBefore(x, y)'
    BY Zenon, <1>4, BeforeGrows
  <2>5. PopsBefore(aborted, x, y)'
    BY Zenon, <1>4, <2>3, <2>4 DEF PopsBefore
  <2> QED  BY <2>3, <2>5 DEF PriorityOrder
<1> QED  BY <1>7, <1>8, <1>9

\* A signal frees no executor: it starts no task.
LEMMA FireAdmitsNone ==
    ASSUME PoolInv, NEW c \in Contexts, NEW q \in Seq(Tasks), Fire(c, q),
           queue = <<>> => q = <<>>
    PROVE  Admitted' = Admitted
<1>1. /\ state \in States /\ active \in Nat /\ executorsCount \in Nat \ {0}
      /\ ready \in Seq(Tasks) /\ state = "stopped" => queue = <<>>
  BY InvFacts
<1>2. state \in {"running", "stopping"} /\ queue # <<>> => active >= executorsCount
  BY DEF PoolInv, NoIdleExecutor
<1>3. Room(state, q, active, executorsCount) = 0
  <2>1. CASE queue = <<>>
    <3>1. Len(q) = 0
      BY <2>1
    <3> QED  BY <1>1, <3>1 DEF Room
  <2>2. CASE queue # <<>>
    BY <1>1, <1>2, <2>2 DEF Room, States
  <2> QED  BY <2>1, <2>2
<1>4. ready' = ready \o SubSeq(q, 1, Room(state, q, active, executorsCount))
  BY Zenon DEF Fire, pump
<1>a. SubSeq(q, 1, 0) = <<>>
  OBVIOUS
<1>b. ready \o <<>> = ready
  BY <1>1
<1>5. ready' = ready
  BY Zenon, <1>3, <1>4, <1>a, <1>b
<1>6. executing' = executing
  BY Zenon DEF Fire
<1> QED  BY Zenon, <1>5, <1>6 DEF Admitted

\* The FIFO pool keeps its order.
LEMMA FifoInOrder ==
    ASSUME PoolInv, PoolInv', FifoNext, Ordered(queue, FifoOrder)
    PROVE  /\ KeepsOrder(FifoOrder')
           /\ aborted' = aborted \/ Admitted' = Admitted
<1>t. state \in States /\ active \in Nat /\ executorsCount \in Nat \ {0}
  BY InvFacts
<1>1. CASE CoreNext
  <2>2. accepted' = accepted /\ aborted' = aborted /\ KeepsOrder(FifoOrder)
    BY Zenon, <1>1, CoreInOrder
  <2>3. FifoOrder' = FifoOrder
    BY Zenon, <2>2 DEF FifoOrder, AcceptedBefore
  <2> QED  BY Zenon, <2>2, <2>3
<1>2. ASSUME NEW t \in Tasks, FifoAddTask(t)
      PROVE  KeepsOrder(FifoOrder') /\ aborted' = aborted
  <2>1. Accept(t, Append(queue, t))
    BY Zenon, <1>2 DEF FifoAddTask
  <2>2. Ordered(Append(queue, t), FifoOrder') /\ Append(queue, t) \in Seq(Tasks)
    BY Zenon, <2>1, PushInOrder, PushedQueue
  <2>3. /\ pump(state, Append(queue, t), active, executorsCount)
        /\ executing' \subseteq executing /\ aborted' = aborted
    BY Zenon, <2>1 DEF Accept
  <2> QED  BY Zenon, <1>t, <2>2, <2>3, PumpInOrder
<1>3. ASSUME NEW c \in Contexts, FifoAbort(c)
      PROVE  KeepsOrder(FifoOrder') /\ Admitted' = Admitted
  <2>1. PICK p \in Bijection(1..Len(queue), 1..Len(queue)) :
          /\ \A i, j \in 1..Len(queue) : i < j => MovedBefore(c, p[i], p[j])
          /\ Fire(c, [i \in 1..Len(queue) |-> queue[p[i]]])
    BY Zenon, <1>3 DEF FifoAbort
  <2> DEFINE q == [i \in 1..Len(queue) |-> queue[p[i]]]
  <2>2. Ordered(q, FifoOrder')
    BY Zenon, <2>1, MoveInOrder
  <2>3. /\ q \in Seq(Tasks) /\ IsInjective(q) /\ Range(q) = Range(queue)
        /\ queue = <<>> => q = <<>>
    BY InvFacts, PermutedQueue
  <2>4. Fire(c, q)
    BY <2>1
  <2> HIDE DEF q
  <2>5. pump(state, q, active, executorsCount) /\ executing' \subseteq executing
    BY Zenon, <2>4 DEF Fire
  <2> QED  BY Zenon, <1>t, <2>2, <2>3, <2>4, <2>5, PumpInOrder, FireAdmitsNone
<1> QED  BY Zenon, <1>1, <1>2, <1>3 DEF FifoNext

\* The priority pool keeps its order.
LEMMA PriorityInOrder ==
    ASSUME PoolInv, PoolInv', PriorityNext, Ordered(queue, PriorityOrder)
    PROVE  KeepsOrder(PriorityOrder')
<1>t. state \in States /\ active \in Nat /\ executorsCount \in Nat \ {0}
  BY InvFacts
<1>1. CASE CoreNext
  <2>2. accepted' = accepted /\ aborted' = aborted /\ KeepsOrder(PriorityOrder)
    BY Zenon, <1>1, CoreInOrder
  <2>3. PriorityOrder' = PriorityOrder
    BY Zenon, <2>2 DEF PriorityOrder, PopsBefore, AcceptedBefore
  <2> QED  BY Zenon, <2>2, <2>3
<1>2. ASSUME NEW t \in Tasks, PriorityAddTask(t) PROVE KeepsOrder(PriorityOrder')
  <2>1. Accept(t, Inserted(t))
    BY Zenon, <1>2 DEF PriorityAddTask
  <2>2. Ordered(Inserted(t), PriorityOrder') /\ Inserted(t) \in Seq(Tasks)
    BY Zenon, <2>1, InsertInOrder, InsertedQueue
  <2>3. pump(state, Inserted(t), active, executorsCount) /\ executing' \subseteq executing
    BY Zenon, <2>1 DEF Accept
  <2> QED  BY Zenon, <1>t, <2>2, <2>3, PumpInOrder
<1>3. ASSUME NEW c \in Contexts, PriorityAbort(c) PROVE KeepsOrder(PriorityOrder')
  <2>1. PICK p \in Bijection(1..Len(queue), 1..Len(queue)) :
          /\ \A i, j \in 1..Len(queue) :
               i < j => PopsBefore(aborted \cup {c}, queue[p[i]], queue[p[j]])
          /\ Fire(c, [i \in 1..Len(queue) |-> queue[p[i]]])
    BY Zenon, <1>3 DEF PriorityAbort
  <2> DEFINE q == [i \in 1..Len(queue) |-> queue[p[i]]]
  <2>2. /\ q \in Seq(Tasks) /\ IsInjective(q) /\ Range(q) = Range(queue)
        /\ queue = <<>> => q = <<>>
    BY InvFacts, PermutedQueue
  <2>3. Fire(c, q)
    BY <2>1
  <2>4. Ordered(q, PriorityOrder')
    <3>1. aborted' = aborted \cup {c} /\ accepted' = accepted
      BY Zenon, <2>3 DEF Fire
    <3>2. Len(q) = Len(queue) /\ \A i \in 1..Len(queue) : queue[p[i]] \in Tasks
      BY InvFacts DEF Bijection, Injection
    <3> SUFFICES ASSUME NEW i \in 1..Len(queue), NEW j \in 1..Len(queue), i < j,
                        NEW x, x = queue[p[i]], NEW y, y = queue[p[j]]
                 PROVE  <<x, y>> \in PriorityOrder'
      BY <3>2 DEF Ordered
    <3>3. PopsBefore(aborted \cup {c}, x, y)
      BY Zenon, <2>1
    <3>4. PopsBefore(aborted, x, y)'
      BY Zenon, <3>1, <3>3 DEF PopsBefore, AcceptedBefore
    <3> QED  BY <3>2, <3>4 DEF PriorityOrder
  <2> HIDE DEF q
  <2>5. pump(state, q, active, executorsCount) /\ executing' \subseteq executing
    BY Zenon, <2>3 DEF Fire
  <2> QED  BY Zenon, <1>t, <2>2, <2>4, <2>5, PumpInOrder
<1> QED  BY Zenon, <1>1, <1>2, <1>3 DEF PriorityNext

\* Every step keeps the order of its discipline.
LEMMA PoolsInOrder ==
    ASSUME PoolInv, PoolInv', OrderInv, [PoolNext]_poolVars
    PROVE  /\ OrderInv'
           /\ discipline = "fifo" =>
                \/ UNCHANGED vars
                \/ KeepsOrder(FifoOrder') /\ (aborted' = aborted \/ Admitted' = Admitted)
           /\ discipline = "priority" => UNCHANGED vars \/ KeepsOrder(PriorityOrder')
<1>1. CASE discipline = "fifo" /\ FifoNext /\ discipline' = discipline
  <2>1. KeepsOrder(FifoOrder') /\ (aborted' = aborted \/ Admitted' = Admitted)
    BY Zenon, <1>1, FifoInOrder DEF OrderInv
  <2>2. discipline' = "fifo" /\ "fifo" # "priority"
    BY <1>1
  <2> QED  BY Zenon, <1>1, <2>1, <2>2 DEF OrderInv, KeepsOrder
<1>2. CASE discipline # "fifo" /\ PriorityNext /\ discipline' = discipline
  <2>1. discipline = "priority" => KeepsOrder(PriorityOrder')
    BY Zenon, <1>2, PriorityInOrder DEF OrderInv
  <2> QED  BY Zenon, <1>2, <2>1 DEF OrderInv, KeepsOrder
<1>3. CASE UNCHANGED <<discipline, vars>>
  <2>1. queue' = queue /\ FifoOrder' = FifoOrder /\ PriorityOrder' = PriorityOrder
    BY Zenon, <1>3 DEF vars, taskVars, FifoOrder, PriorityOrder, PopsBefore, AcceptedBefore
  <2> QED  BY Zenon, <1>3, <2>1 DEF OrderInv, Ordered
<1> QED  BY Zenon, <1>1, <1>2, <1>3 DEF PoolNext, poolVars

\* FIFO: a callback overtakes an earlier accepted one only when its own context
\* was aborted.  Priority: no task is admitted while one that pops before it
\* stays queued.  Whatever the interleaving of addTask, cancellation, resize,
\* completion and stop.
THEOREM AdmissionOrder == PoolSpec => AdmissionInOrder
<1>1. PoolInit => OrderInv
  BY DEF PoolInit, CoreInit, OrderInv, Ordered
<1>2. PoolInv /\ PoolInv' /\ OrderInv /\ [PoolNext]_poolVars => OrderInv'
  BY PoolsInOrder
<1>3. PoolSpec => []OrderInv
  BY <1>1, <1>2, Invariance, PTL DEF PoolSpec
<1>4. ASSUME PoolInv, PoolInv', OrderInv, [PoolNext]_poolVars, ~UNCHANGED vars
      PROVE  /\ discipline = "fifo" =>
                   OvertakesOnlyWhenAborted /\ FifoBehindPromoted'
             /\ discipline = "priority" => MinimumPriorityFirst
  <2>1. ASSUME discipline = "fifo" PROVE OvertakesOnlyWhenAborted /\ FifoBehindPromoted'
    <3>1. KeepsOrder(FifoOrder') /\ (aborted' = aborted \/ Admitted' = Admitted)
      BY Zenon, <1>4, <2>1, PoolsInOrder
    <3>2. ASSUME NEW t \in Admitted' \ Admitted, NEW u \in Range(queue'),
                 AcceptedBefore(u, t)'
          PROVE  CtxOf[t] \in aborted
      <4>1. <<t, u>> \in FifoOrder' /\ aborted' = aborted
        BY Zenon, <3>1, <3>2 DEF KeepsOrder
      <4>2. CtxOf[t] \in aborted' \/ AcceptedBefore(t, u)'
        BY <4>1 DEF FifoOrder
      <4>3. ~(AcceptedBefore(t, u)' /\ AcceptedBefore(u, t)')
        <5>1. (PoolInv => \A x, y : ~(AcceptedBefore(x, y) /\ AcceptedBefore(y, x)))'
          BY BeforeOnce, PTL
        <5> QED  BY Zenon, <1>4, <5>1
      <4> QED  BY Zenon, <3>2, <4>1, <4>2, <4>3
    <3>4. OvertakesOnlyWhenAborted
      BY Zenon, <3>2 DEF OvertakesOnlyWhenAborted
    <3>5. Ordered(queue', FifoOrder')
      BY Zenon, <3>1 DEF KeepsOrder
    <3>6. ASSUME NEW i \in 1..Len(queue'), NEW j \in 1..Len(queue'), i < j
          PROVE  \/ CtxOf[queue'[i]] \in aborted'
                 \/ /\ CtxOf[queue'[j]] \notin aborted'
                    /\ \E k, l \in 1..Len(accepted') :
                         k < l /\ accepted'[k] = queue'[i] /\ accepted'[l] = queue'[j]
      <4>1. PICK x, y : x = queue'[i] /\ y = queue'[j]
        OBVIOUS
      <4>2. <<x, y>> \in FifoOrder'
        BY Zenon, <3>5, <3>6, <4>1 DEF Ordered
      <4>3. CtxOf[x] \in aborted' \/ (CtxOf[y] \notin aborted' /\ AcceptedBefore(x, y)')
        BY <4>2 DEF FifoOrder
      <4> QED  BY Zenon, <4>1, <4>3 DEF AcceptedBefore
    <3>7. FifoBehindPromoted'
      BY Zenon, <3>6 DEF FifoBehindPromoted, AcceptedBefore
    <3> QED  BY <3>4, <3>7
  <2>2. ASSUME discipline = "priority" PROVE MinimumPriorityFirst
    <3>1. KeepsOrder(PriorityOrder')
      BY Zenon, <1>4, <2>2, PoolsInOrder
    <3>2. ASSUME NEW t \in Admitted' \ Admitted, NEW u \in Range(queue')
          PROVE  PopsBefore(aborted, t, u)'
      <4>1. <<t, u>> \in PriorityOrder'
        BY Zenon, <3>1, <3>2 DEF KeepsOrder
      <4> QED  BY <4>1 DEF PriorityOrder
    <3> QED  BY Zenon, <3>2 DEF MinimumPriorityFirst
  <2> QED  BY <2>1, <2>2
<1>5. PoolInv /\ PoolInv' /\ OrderInv /\ [PoolNext]_poolVars
        => [/\ discipline = "fifo" =>
                 OvertakesOnlyWhenAborted /\ FifoBehindPromoted'
            /\ discipline = "priority" => MinimumPriorityFirst]_vars
  BY Zenon, <1>4
<1> QED  BY <1>3, <1>5, Invariance, PTL DEF PoolSpec, AdmissionInOrder
=============================================================================
