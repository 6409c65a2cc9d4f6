---------------------------- MODULE QueueProofs -----------------------------
(***************************************************************************)
(* The queued sources for every set of requests, stream IDs, results and   *)
(* every concurrency, and the rotating map for every set of keys, values   *)
(* and shards: the slots are counted and no wake-up is lost, a request     *)
(* that waits can be found, and the generations of the map are one map.    *)
(***************************************************************************)
EXTENDS MCQueuedSources, Sequences, TLAPS, FiniteSetTheorems

(***************************************************************************)
(* The slots                                                               *)
(***************************************************************************)

Stages == {"new", "acquire", "queued", "begin", "refuse", "consume", "wait", "retire",
           "retired", "end", "done"}
Idle == {"new", "acquire", "queued", "done"}   \* without a slot

Members(q) == {q[i] : i \in 1..Len(q)}
Once(q) == \A i, j \in 1..Len(q) : q[i] = q[j] => i = j

Holders == {r \in Requests : stage[r] \notin Idle}
Woken == {r \in Requests : stage[r] = "acquire"}

\* A wake-up function is queued once, for a request that waits for a slot or,
\* with Kafka, that was revoked while it did; who waits is queued, unless the
\* source has stopped or has no limit.
QueueInv ==
    /\ stage \in [Requests -> Stages] /\ cancelled \in [Requests -> BOOLEAN]
    /\ waiters \in Seq(Requests) /\ Once(waiters)
    /\ \A w \in Members(waiters) :
        stage[w] = "queued" \/ (scene = "kafka" /\ stage[w] = "acquire" /\ cancelled[w])
    /\ \A r \in Requests : stage[r] = "queued" => r \in Members(waiters)
    /\ stopped \/ concurrency = 0 => waiters = <<>>
    /\ tasksAborted => stopped

\* #active counts the holders within the limit, and while someone is queued
\* there is a woken request for every free slot.
SlotInv ==
    /\ concurrency \in Nat
    /\ active = Cardinality(Holders)
    /\ concurrency > 0 => active <= concurrency
    /\ (\A r \in Requests : ~cancelled[r]) /\ waiters # <<>> =>
           concurrency <= active + Cardinality(Woken)

(***************************************************************************)
(* The results                                                             *)
(***************************************************************************)

InUse == {"consume", "wait", "retire", "retired"}

\* A stream ID leads to its request, from its admission until it has retired;
\* one that retires takes no result, and no callback outlives it.  Without a
\* result stream nothing is pending.
PendingInv ==
    /\ pending \in [StreamIds -> Requests \cup {None}]
    /\ retiring \in [Requests -> BOOLEAN]
    /\ callbackOf \in [Deliveries -> Requests \cup {None}]
    /\ \A r \in Requests :
        /\ hasResult /\ stage[r] \in InUse => pending[StreamId[r]] = r
        /\ stage[r] \in {"retire", "retired"} => retiring[r]
    /\ \A s \in StreamIds : pending[s] # None =>
        hasResult /\ stage[pending[s]] \in InUse /\ StreamId[pending[s]] = s
    /\ \A d \in Deliveries : callbackOf[d] # None =>
        hasResult /\ stage[callbackOf[d]] \in {"consume", "wait", "retire"}

\* The custom source drains before it has stopped.
CustomStopped == ~started => \A r \in Requests : stage[r] \in {"new", "done"}

QueuesInv ==
    /\ scene \in {"custom", "kafka", "map"}
    /\ QueueInv /\ SlotInv /\ PendingInv
    /\ scene # "kafka" => CustomStopped

-----------------------------------------------------------------------------

(***************************************************************************)
(* Queues and counts                                                       *)
(***************************************************************************)

\* Members and emptiness.
LEMMA MembersOf ==
    ASSUME NEW q \in Seq(Requests)
    PROVE  Members(q) \subseteq Requests /\ (Members(q) = {} <=> q = <<>>)
<1>1. Len(q) \in Nat /\ (Len(q) = 0 <=> q = <<>>) /\ \A i \in 1..Len(q) : q[i] \in Requests
  OBVIOUS
<1>2. Len(q) # 0 => 1 \in 1..Len(q)
  BY <1>1
<1>3. Members(q) \subseteq Requests
  BY <1>1 DEF Members
<1>4. q # <<>> => q[1] \in Members(q)
  BY <1>1, <1>2 DEF Members
<1>5. q = <<>> => Members(q) = {}
  <2>1. Len(q) = 0 => 1..Len(q) = {}
    BY <1>1
  <2> QED  BY <1>1, <2>1 DEF Members
<1> QED  BY ZenonT(60), <1>3, <1>4, <1>5

\* #waiters.push()
LEMMA Pushed ==
    ASSUME NEW q \in Seq(Requests), Once(q), NEW r \in Requests, r \notin Members(q)
    PROVE  /\ Append(q, r) \in Seq(Requests) /\ Once(Append(q, r))
           /\ Members(Append(q, r)) = Members(q) \cup {r}
<1> DEFINE n == Len(q)
           a == Append(q, r)
<1>1. n \in Nat /\ a \in Seq(Requests) /\ Len(a) = n + 1 /\ a[n + 1] = r
      /\ \A i \in 1..n : a[i] = q[i]
  OBVIOUS
<1> HIDE DEF n, a
<1>2. \A i \in 1..n + 1 : i \in 1..n \/ i = n + 1
  BY <1>1
<1>3. Once(a)
  BY <1>1, <1>2 DEF Once, Members, n
<1>4. Members(a) = Members(q) \cup {r}
  <2>1. Members(q) = {q[i] : i \in 1..n} /\ Members(a) = {a[i] : i \in 1..n + 1}
    BY <1>1 DEF Members, n
  <2>2. 1..n \subseteq 1..n + 1 /\ n + 1 \in 1..n + 1
    BY <1>1
  <2> QED  BY ZenonT(60), <1>1, <1>2, <2>1, <2>2
<1> QED  BY <1>1, <1>3, <1>4 DEF a

\* #waiters.shift()
LEMMA Shifted ==
    ASSUME NEW q \in Seq(Requests), Once(q), q # <<>>
    PROVE  /\ Head(q) \in Members(q) /\ Tail(q) \in Seq(Requests) /\ Once(Tail(q))
           /\ Members(Tail(q)) = Members(q) \ {Head(q)}
<1> DEFINE n == Len(q)
           t == Tail(q)
<1>1. n \in Nat /\ n # 0 /\ Head(q) = q[1]
  OBVIOUS
<1>2. t \in Seq(Requests) /\ Len(t) = n - 1 /\ \A i \in 1..n - 1 : t[i] = q[i + 1]
  BY <1>1
<1> HIDE DEF n, t
<1>3. \A i \in 1..n - 1 : i + 1 \in 1..n /\ i + 1 # 1
  BY <1>1
<1>4. \A i \in 1..n : i = 1 \/ (i - 1 \in 1..n - 1 /\ (i - 1) + 1 = i)
  BY <1>1
<1>5. 1 \in 1..n
  BY <1>1
<1>6. Once(t)
  BY <1>1, <1>2, <1>3 DEF Once, n
<1>7. Members(t) = Members(q) \ {q[1]}
  <2>1. Members(q) = {q[i] : i \in 1..n} /\ Members(t) = {t[i] : i \in 1..n - 1}
    BY <1>2 DEF Members, n
  <2>2. \A i \in 1..n : q[i] = q[1] => i = 1
    BY <1>5 DEF Once, n
  <2> QED  BY <1>2, <1>3, <1>4, <2>1, <2>2
<1>8. Head(q) \in Members(q)
  BY <1>1, <1>5 DEF Members, n
<1> QED  BY ZenonT(60), <1>1, <1>2, <1>6, <1>7, <1>8 DEF t

\* #waiters.splice(#waiters.indexOf(wake), 1)
LEMMA Spliced ==
    ASSUME waiters \in Seq(Requests), Once(waiters), NEW r \in Requests
    PROVE  /\ Kafka!Unqueued(r) \in Seq(Requests) /\ Once(Kafka!Unqueued(r))
           /\ Members(Kafka!Unqueued(r)) = Members(waiters) \ {r}
<1> DEFINE n == Len(waiters)
<1>0. n \in Nat /\ \A i \in 1..n : waiters[i] \in Requests
  OBVIOUS
<1>1. r \in Kafka!Range(waiters) <=> r \in Members(waiters)
  BY <1>0 DEF Kafka!Range, Members
<1>2. CASE r \notin Members(waiters)
  BY <1>1, <1>2 DEF Kafka!Unqueued
<1>3. CASE r \in Members(waiters)
  <2> DEFINE k == CHOOSE i \in 1..Len(waiters) : waiters[i] = r
             u == Kafka!Unqueued(r)
             a == SubSeq(waiters, 1, k - 1)
             b == SubSeq(waiters, k + 1, Len(waiters))
             at(i) == IF i < k THEN i ELSE i + 1
  <2>1. k \in 1..n /\ waiters[k] = r
    BY <1>3 DEF Members
  <2>2. u = a \o b
    BY Zenon, <1>1, <1>3 DEF Kafka!Unqueued
  <2> HIDE DEF k, u
  <2>3. a \in Seq(Requests) /\ Len(a) = k - 1 /\ \A i \in 1..k - 1 : a[i] = waiters[i]
    BY <1>0, <2>1
  <2>4. b \in Seq(Requests) /\ Len(b) = n - k /\ \A i \in 1..n - k : b[i] = waiters[k + i]
    BY <1>0, <2>1
  <2> HIDE DEF a, b
  <2>5. u \in Seq(Requests) /\ Len(u) = n - 1
        /\ \A i \in 1..n - 1 : u[i] = IF i <= k - 1 THEN a[i] ELSE b[i - (k - 1)]
    <3>1. Len(a) + Len(b) = n - 1
      BY <1>0, <2>1, <2>3, <2>4
    <3>2. u \in Seq(Requests) /\ Len(u) = Len(a) + Len(b)
          /\ \A i \in 1..Len(a) + Len(b) : u[i] = IF i <= Len(a) THEN a[i] ELSE b[i - Len(a)]
      <4>1. a \in Seq(Requests) /\ b \in Seq(Requests) /\ u = a \o b
        BY <2>2, <2>3, <2>4
      <4> QED  BY ONLY <4>1
    <3> QED  BY Zenon, <2>3, <3>1, <3>2
  <2>6. \A i \in 1..n - 1 : u[i] = waiters[at(i)] /\ at(i) \in 1..n /\ at(i) # k
    <3> SUFFICES ASSUME NEW i \in 1..n - 1
                 PROVE  u[i] = waiters[at(i)] /\ at(i) \in 1..n /\ at(i) # k
      OBVIOUS
    <3>1. CASE i < k
      BY <1>0, <2>1, <2>3, <2>5, <3>1
    <3>2. CASE ~(i < k)
      <4>1. i - (k - 1) \in 1..n - k /\ k + (i - (k - 1)) = i + 1 /\ ~(i <= k - 1)
        BY <1>0, <2>1, <3>2
      <4> QED  BY <1>0, <2>1, <2>4, <2>5, <3>2, <4>1
    <3> QED  BY <3>1, <3>2
  <2>7. \A i, j \in 1..n - 1 : at(i) = at(j) => i = j
    BY <1>0, <2>1
  <2>8. \A j \in 1..n : j # k => \E i \in 1..n - 1 : at(i) = j
    <3> SUFFICES ASSUME NEW j \in 1..n, j # k PROVE \E i \in 1..n - 1 : at(i) = j
      OBVIOUS
    <3>1. CASE j < k
      <4>1. j \in 1..n - 1 /\ at(j) = j
        BY <1>0, <2>1, <3>1
      <4> QED  BY <4>1
    <3>2. CASE ~(j < k)
      <4>1. j - 1 \in 1..n - 1 /\ at(j - 1) = j
        BY <1>0, <2>1, <3>2
      <4> QED  BY <4>1
    <3> QED  BY <3>1, <3>2
  <2> HIDE DEF at
  <2>9. Once(u)
    BY <2>5, <2>6, <2>7 DEF Once
  <2>10. Members(u) = Members(waiters) \ {r}
    <3>1. \A j \in 1..n : waiters[j] = r => j = k
      BY <2>1 DEF Once
    <3>2. Members(u) = {u[i] : i \in 1..n - 1} /\ Members(waiters) = {waiters[i] : i \in 1..n}
      BY <2>5 DEF Members
    <3> HIDE DEF n
    <3> QED  BY <2>1, <2>6, <2>8, <3>1, <3>2
  <2> QED  BY Zenon, <2>5, <2>9, <2>10 DEF u
<1> QED  BY <1>2, <1>3

\* One request more, or less, in a set of requests.
LEMMA CountOf ==
    ASSUME NEW S \in SUBSET Requests, NEW r \in Requests
    PROVE  /\ IsFiniteSet(S) /\ Cardinality(S) \in Nat
           /\ r \notin S => Cardinality(S \cup {r}) = Cardinality(S) + 1
           /\ r \in S => Cardinality(S \ {r}) = Cardinality(S) - 1 /\ Cardinality(S) > 0
<1>1. IsFiniteSet(S) /\ Cardinality(S) \in Nat
  BY ZenonT(60), QueuesAssumption, FS_Subset, FS_CardinalityType
<1>2. r \notin S => Cardinality(S \cup {r}) = Cardinality(S) + 1
  BY Zenon, <1>1, FS_AddElement
<1>3. r \in S => Cardinality(S \ {r}) = Cardinality(S) - 1
  BY Zenon, <1>1, FS_RemoveElement
<1>4. r \in S => Cardinality(S) # 0
  BY <1>1, FS_EmptySet
<1> QED  BY <1>1, <1>2, <1>3, <1>4

-----------------------------------------------------------------------------

(***************************************************************************)
(* The semaphore                                                           *)
(***************************************************************************)

\* A request that moves takes or leaves its place among those with a slot and
\* those that were woken.
LEMMA Moved ==
    ASSUME stage \in [Requests -> Stages], NEW r \in Requests, NEW s \in Stages,
           stage' = [stage EXCEPT ![r] = s]
    PROVE  /\ stage' \in [Requests -> Stages]
           /\ \A x \in Requests : stage'[x] = IF x = r THEN s ELSE stage[x]
           /\ Holders' = IF s \in Idle THEN Holders \ {r} ELSE Holders \cup {r}
           /\ Woken' = IF s = "acquire" THEN Woken \cup {r} ELSE Woken \ {r}
<1>1. stage' \in [Requests -> Stages]
      /\ \A x \in Requests : stage'[x] = IF x = r THEN s ELSE stage[x]
  OBVIOUS
<1>2. Holders' = IF s \in Idle THEN Holders \ {r} ELSE Holders \cup {r}
  BY <1>1 DEF Holders
<1>3. Woken' = IF s = "acquire" THEN Woken \cup {r} ELSE Woken \ {r}
  BY <1>1 DEF Woken
<1> QED  BY ZenonT(60), <1>1, <1>2, <1>3

\* The counters are numbers.
LEMMA Counters ==
    ASSUME SlotInv
    PROVE  /\ Holders \in SUBSET Requests /\ Woken \in SUBSET Requests
           /\ active \in Nat /\ concurrency \in Nat /\ Cardinality(Woken) \in Nat
<1>1. Holders \in SUBSET Requests /\ Woken \in SUBSET Requests
  BY DEF Holders, Woken
<1>2. IsFiniteSet(Holders) /\ IsFiniteSet(Woken)
  BY ZenonT(60), <1>1, QueuesAssumption, FS_Subset
<1> QED  BY ZenonT(60), <1>1, <1>2, FS_CardinalityType DEF SlotInv

\* One pass of acquire() that takes r out of the queue, for whatever reason it
\* was woken, or that comes first.
LEMMA Acquires ==
    ASSUME QueueInv, SlotInv, NEW r \in Requests, stage[r] \in {"new", "acquire"},
           NEW q \in Seq(Requests), Once(q), Members(q) = Members(waiters) \ {r},
           Custom!AcquireFrom(r, q), UNCHANGED <<cancelled, stopped, tasksAborted, scene>>
    PROVE  QueueInv' /\ SlotInv'
<1>t. /\ stage \in [Requests -> Stages] /\ waiters \in Seq(Requests)
      /\ concurrency' = concurrency
  BY DEF QueueInv, Custom!AcquireFrom
<1>c. /\ Holders \in SUBSET Requests /\ Woken \in SUBSET Requests
      /\ active \in Nat /\ concurrency \in Nat /\ Cardinality(Woken) \in Nat
  BY Counters
<1>q. (q = <<>> <=> Members(q) = {}) /\ (waiters = <<>> <=> Members(waiters) = {})
  BY <1>t, MembersOf
<1>m. Members(waiters) \subseteq Requests
  BY <1>t, MembersOf
<1>h. r \notin Holders
  BY DEF Holders, Idle
<1>n. Cardinality(Woken \ {r}) \in Nat /\ Cardinality(Woken) <= Cardinality(Woken \ {r}) + 1
  <2>1. CASE r \in Woken
    <3>1. Cardinality(Woken \ {r}) = Cardinality(Woken) - 1 /\ Cardinality(Woken) > 0
      BY ZenonT(60), <1>c, <2>1, CountOf
    <3> QED  BY <1>c, <3>1
  <2>2. CASE r \notin Woken
    <3>1. Woken \ {r} = Woken
      BY <2>2
    <3>2. Cardinality(Woken \ {r}) = Cardinality(Woken)
      BY Zenon, <3>1
    <3> QED  BY <1>c, <3>2
  <2> QED  BY ZenonT(60), <2>1, <2>2
<1>1. CASE stopped \/ Custom!Aborted(r)
  <2>1. stage' = [stage EXCEPT ![r] = "done"] /\ waiters' = q /\ active' = active
    BY <1>1 DEF Custom!AcquireFrom, Custom!Goto
  <2>2. "done" \in Stages /\ "done" \in Idle
    BY DEF Stages, Idle
  <2>3. /\ stage' \in [Requests -> Stages]
        /\ \A x \in Requests : stage'[x] = IF x = r THEN "done" ELSE stage[x]
        /\ Holders' = Holders \ {r}
    BY Zenon, <1>t, <2>1, <2>2, Moved
  <2>4. QueueInv'
    BY <1>t, <1>q, <2>1, <2>3 DEF QueueInv
  <2>5. (\A x \in Requests : ~cancelled[x]) => q = <<>>
    BY <1>1, <1>q DEF Custom!Aborted, QueueInv
  <2>6. Holders' = Holders
    BY ZenonT(60), <1>h, <2>3
  <2> QED  BY ZenonT(60), <1>t, <2>1, <2>4, <2>5, <2>6 DEF SlotInv
<1>2. CASE ~stopped /\ ~Custom!Aborted(r) /\ Custom!HasSlot
  <2>1. stage' = [stage EXCEPT ![r] = "begin"] /\ waiters' = q /\ active' = active + 1
    BY <1>2 DEF Custom!AcquireFrom, Custom!Goto
  <2>2. "begin" \in Stages /\ "begin" \notin Idle
    BY DEF Stages, Idle
  <2>3. /\ stage' \in [Requests -> Stages]
        /\ \A x \in Requests : stage'[x] = IF x = r THEN "begin" ELSE stage[x]
        /\ Holders' = Holders \cup {r} /\ Woken' = Woken \ {r}
    BY Zenon, <1>t, <2>1, <2>2, Moved
  <2>4. QueueInv'
    BY <1>t, <1>q, <2>1, <2>3 DEF QueueInv
  <2>5. active' = Cardinality(Holders')
    BY ZenonT(60), <1>c, <1>h, <2>1, <2>3, CountOf DEF SlotInv
  <2>6. concurrency > 0 => active + 1 <= concurrency
    BY <1>2, <1>c DEF Custom!HasSlot
  <2>7. ASSUME \A x \in Requests : ~cancelled[x], q # <<>>
        PROVE  concurrency <= active + 1 + Cardinality(Woken \ {r})
    <3>1. concurrency <= active + Cardinality(Woken)
      BY Zenon, <1>q, <2>7 DEF SlotInv
    <3> QED  BY <1>c, <1>n, <3>1
  <2> QED  BY ZenonT(60), <1>t, <1>c, <2>1, <2>3, <2>4, <2>5, <2>6, <2>7 DEF SlotInv
<1>3. CASE ~stopped /\ ~Custom!Aborted(r) /\ ~Custom!HasSlot
  <2>1. stage' = [stage EXCEPT ![r] = "queued"] /\ waiters' = Append(q, r) /\ active' = active
    BY <1>3 DEF Custom!AcquireFrom, Custom!Goto
  <2>2. "queued" \in Stages /\ "queued" \in Idle
    BY DEF Stages, Idle
  <2>3. /\ stage' \in [Requests -> Stages]
        /\ \A x \in Requests : stage'[x] = IF x = r THEN "queued" ELSE stage[x]
        /\ Holders' = Holders \ {r} /\ Woken' = Woken \ {r}
    BY ZenonT(60), <1>t, <2>1, <2>2, Moved
  <2>4. waiters' \in Seq(Requests) /\ Once(waiters') /\ Members(waiters') = Members(q) \cup {r}
    BY <2>1, Pushed
  <2>5. concurrency # 0 /\ concurrency <= active
    BY <1>3, <1>c DEF Custom!HasSlot
  <2>6. QueueInv'
    <3>1. \A w \in Members(waiters') :
            stage'[w] = "queued" \/ (scene = "kafka" /\ stage'[w] = "acquire" /\ cancelled[w])
      BY Zenon, <1>m, <2>3, <2>4 DEF QueueInv
    <3>2. \A x \in Requests : stage'[x] = "queued" => x \in Members(waiters')
      BY ZenonT(60), <2>3, <2>4 DEF QueueInv
    <3> QED  BY Zenon, <1>3, <1>t, <2>3, <2>4, <2>5, <3>1, <3>2 DEF QueueInv
  <2>7. Holders' = Holders
    BY ZenonT(60), <1>h, <2>3
  <2>8. concurrency <= active + Cardinality(Woken')
    BY <1>c, <1>n, <2>3, <2>5
  <2> QED  BY ZenonT(60), <1>t, <2>1, <2>6, <2>7, <2>8 DEF SlotInv
<1> QED  BY ZenonT(60), <1>1, <1>2, <1>3

\* A request with a slot goes on in its handler.
LEMMA Advances ==
    ASSUME QueueInv, SlotInv, NEW r \in Requests, r \in Holders,
           NEW s \in Stages \ Idle, stage' = [stage EXCEPT ![r] = s],
           UNCHANGED <<cancelled, stopped, tasksAborted, scene, concurrency, active, waiters>>
    PROVE  QueueInv' /\ SlotInv'
<1>t. stage \in [Requests -> Stages] /\ waiters \in Seq(Requests)
  BY DEF QueueInv
<1>1. /\ stage' \in [Requests -> Stages]
      /\ \A x \in Requests : stage'[x] = IF x = r THEN s ELSE stage[x]
      /\ Holders' = Holders \cup {r} /\ Woken' = Woken \ {r}
  BY Zenon, <1>t, Moved DEF Idle
<1>2. stage[r] \notin {"queued", "acquire"} /\ s # "queued"
  BY DEF Holders, Idle
<1>3. Holders' = Holders /\ Woken' = Woken
  BY <1>1, <1>2 DEF Woken
<1>4. Members(waiters) \subseteq Requests
  BY <1>t, MembersOf
<1>5. QueueInv'
  BY Zenon, <1>1, <1>2, <1>4 DEF QueueInv
<1> QED  BY Zenon, <1>3, <1>5 DEF SlotInv

\* A request gives its slot back and wakes the first waiter.
LEMMA Leaves ==
    ASSUME QueueInv, SlotInv, NEW r \in Requests, r \in Holders, Custom!Leave(r),
           UNCHANGED <<cancelled, stopped, tasksAborted, scene>>
    PROVE  /\ QueueInv' /\ SlotInv'
           /\ stage'[r] = "done"
           /\ \A x \in Requests \ {r} : stage'[x] = stage[x] \/
                (stage[x] \in {"queued", "acquire"} /\ stage'[x] = "acquire")
<1>t. stage \in [Requests -> Stages] /\ waiters \in Seq(Requests) /\ Once(waiters)
      /\ active' = active - 1 /\ concurrency' = concurrency
  BY DEF QueueInv, Custom!Leave
<1>c. /\ Holders \in SUBSET Requests /\ Woken \in SUBSET Requests
      /\ active \in Nat /\ concurrency \in Nat /\ Cardinality(Woken) \in Nat
  BY Counters
<1>m. Members(waiters) \subseteq Requests
  BY Zenon, <1>t, MembersOf
<1>r. stage[r] \notin {"queued", "acquire"} /\ r \notin Members(waiters)
  BY DEF Holders, Idle, QueueInv
<1>s. "done" \in Stages /\ "done" \in Idle /\ "acquire" \in Stages /\ "acquire" \in Idle
  BY DEF Stages, Idle
<1>n. Cardinality(Holders \ {r}) = active - 1
  BY Zenon, <1>c, CountOf DEF SlotInv
<1>1. CASE waiters = <<>>
  <2>1. stage' = [stage EXCEPT ![r] = "done"] /\ waiters' = waiters
    BY <1>1 DEF Custom!Leave, Custom!Goto
  <2>2. /\ stage' \in [Requests -> Stages]
        /\ \A x \in Requests : stage'[x] = IF x = r THEN "done" ELSE stage[x]
        /\ Holders' = Holders \ {r}
    BY ZenonT(60), <1>t, <1>s, <2>1, Moved
  <2>3. QueueInv'
    BY SMTT(30), <1>m, <1>r, <2>1, <2>2, <1>t DEF QueueInv
  <2>4. SlotInv'
    BY <1>1, <1>t, <1>c, <1>n, <2>1, <2>2 DEF SlotInv
  <2> QED  BY Zenon, <2>2, <2>3, <2>4
<1>2. CASE waiters # <<>>
  <2> DEFINE h == Head(waiters)
  <2>1. /\ h \in Members(waiters) /\ Tail(waiters) \in Seq(Requests) /\ Once(Tail(waiters))
        /\ Members(Tail(waiters)) = Members(waiters) \ {h}
    BY Zenon, <1>2, <1>t, Shifted
  <2>2. stage' = [stage EXCEPT ![r] = "done", ![h] = "acquire"] /\ waiters' = Tail(waiters)
    BY <1>2 DEF Custom!Leave
  <2>3. h \in Requests /\ h # r
    BY Zenon, <1>m, <1>r, <2>1
  <2> HIDE DEF h
  <2>4. /\ stage' \in [Requests -> Stages]
        /\ \A x \in Requests :
            stage'[x] = IF x = h THEN "acquire" ELSE IF x = r THEN "done" ELSE stage[x]
    BY Zenon, <1>t, <1>s, <2>2, <2>3
  <2>5. stage[h] = "queued" \/ (scene = "kafka" /\ stage[h] = "acquire" /\ cancelled[h])
    BY <2>1 DEF QueueInv
  <2>6. Holders' = Holders \ {r} /\ Woken' = Woken \cup {h}
    BY ZenonT(60), <1>r, <2>3, <2>4, <2>5 DEF Holders, Woken, Idle
  <2>7. QueueInv'
    BY <1>t, <1>m, <1>r, <2>1, <2>2, <2>3, <2>4 DEF QueueInv
  <2>8. ASSUME \A x \in Requests : ~cancelled[x]
        PROVE  concurrency <= (active - 1) + Cardinality(Woken')
    <3>1. h \notin Woken
      BY Zenon, <2>3, <2>5, <2>8 DEF Woken
    <3>2. Cardinality(Woken') = Cardinality(Woken) + 1
      BY Zenon, <1>c, <2>3, <2>6, <3>1, CountOf
    <3>3. concurrency <= active + Cardinality(Woken)
      BY Zenon, <1>2, <2>8 DEF SlotInv
    <3> QED  BY <1>c, <3>2, <3>3
  <2>9. SlotInv'
    BY <1>t, <1>c, <1>n, <2>6, <2>8 DEF SlotInv
  <2> QED  BY Zenon, <2>3, <2>4, <2>5, <2>7, <2>9
<1> QED  BY Zenon, <1>1, <1>2

\* A stop wakes everyone.
LEMMA Wakes ==
    ASSUME QueueInv, SlotInv, Custom!WakeAll, stopped',
           UNCHANGED <<cancelled, scene, active>>
    PROVE  QueueInv' /\ SlotInv'
<1>1. /\ stage' = [x \in Requests |-> IF stage[x] = "queued" THEN "acquire" ELSE stage[x]]
      /\ waiters' = <<>> /\ concurrency' = concurrency
  BY DEF Custom!WakeAll
<1>2. stage' \in [Requests -> Stages] /\ \A x \in Requests : stage'[x] # "queued"
  BY <1>1 DEF QueueInv, Stages
<1>3. <<>> \in Seq(Requests) /\ Members(<<>>) = {} /\ Once(<<>>)
  <2>1. <<>> \in Seq(Requests) /\ Len(<<>>) = 0
    OBVIOUS
  <2>2. 1..Len(<<>>) = {}
    BY <2>1
  <2> QED  BY <2>1, <2>2 DEF Members, Once
<1>4. QueueInv'
  BY ZenonT(60), <1>1, <1>2, <1>3 DEF QueueInv
<1>5. Holders' = Holders
  BY Zenon, <1>1 DEF Holders, Idle
<1> QED  BY ZenonT(60), <1>1, <1>4, <1>5 DEF SlotInv

-----------------------------------------------------------------------------

(***************************************************************************)
(* The pending requests                                                    *)
(***************************************************************************)

\* What happens outside the life of a result touches no stream ID.
LEMMA PendingKept ==
    ASSUME PendingInv, UNCHANGED <<hasResult, pending, callbackOf>>,
           retiring' \in [Requests -> BOOLEAN],
           \A x \in Requests : stage[x] \in InUse \/ stage'[x] \in InUse =>
               stage'[x] = stage[x] /\ retiring'[x] = retiring[x]
    PROVE  PendingInv'
<1>1. \A x \in Requests :
        /\ hasResult /\ stage'[x] \in InUse => pending[StreamId[x]] = x
        /\ stage'[x] \in {"retire", "retired"} => retiring'[x]
  BY DEF PendingInv, InUse
<1>2. \A s \in StreamIds : pending[s] # None =>
        hasResult /\ stage'[pending[s]] \in InUse /\ StreamId[pending[s]] = s
  BY DEF PendingInv
<1>3. \A d \in Deliveries : callbackOf[d] # None =>
        hasResult /\ stage'[callbackOf[d]] \in {"consume", "wait", "retire"}
  BY DEF PendingInv, InUse
<1> QED  BY ZenonT(60), <1>1, <1>2, <1>3 DEF PendingInv

\* A request that moves within the life of its result, and has retired its
\* result before it comes to the retirement.
LEMMA PendingMoved ==
    ASSUME PendingInv, stage \in [Requests -> Stages],
           UNCHANGED <<hasResult, pending, callbackOf>>,
           NEW r \in Requests, NEW s \in InUse, stage[r] \in InUse,
           stage' = [stage EXCEPT ![r] = s],
           s = "retired" => \A d \in Deliveries : callbackOf[d] # r,
           \/ retiring' = retiring /\ (s \in {"retire", "retired"} => retiring[r])
           \/ retiring' = [retiring EXCEPT ![r] = TRUE]
    PROVE  PendingInv'
<1>0. \A x \in Requests : stage'[x] = IF x = r THEN s ELSE stage[x]
  OBVIOUS
<1>1. /\ retiring' \in [Requests -> BOOLEAN]
      /\ \A x \in Requests : retiring[x] => retiring'[x]
      /\ s \in {"retire", "retired"} => retiring'[r]
  <2>1. retiring \in [Requests -> BOOLEAN]
    BY DEF PendingInv
  <2>2. CASE retiring' = retiring /\ (s \in {"retire", "retired"} => retiring[r])
    BY Zenon, <2>1, <2>2
  <2>3. CASE retiring' = [retiring EXCEPT ![r] = TRUE]
    <3>1. retiring' \in [Requests -> BOOLEAN]
      BY Zenon, <2>1, <2>3
    <3>2. \A x \in Requests : retiring'[x] = IF x = r THEN TRUE ELSE retiring[x]
      BY Zenon, <2>1, <2>3
    <3> QED  BY Zenon, <3>1, <3>2
  <2> QED  BY Zenon, <2>2, <2>3
<1>2. \A x \in Requests :
        /\ hasResult /\ stage'[x] \in InUse => pending[StreamId[x]] = x
        /\ stage'[x] \in {"retire", "retired"} => retiring'[x]
  BY ZenonT(60), <1>0, <1>1 DEF PendingInv
<1>3. \A t \in StreamIds : pending[t] # None =>
        hasResult /\ stage'[pending[t]] \in InUse /\ StreamId[pending[t]] = t
  BY <1>0 DEF PendingInv
<1>4. \A d \in Deliveries : callbackOf[d] # None =>
        hasResult /\ stage'[callbackOf[d]] \in {"consume", "wait", "retire"}
  BY <1>0 DEF PendingInv, InUse
<1> QED  BY ZenonT(60), <1>1, <1>2, <1>3, <1>4 DEF PendingInv

\* The steps of a handler that keeps its slot.
HandlerGoesOn(r) ==
    \/ Custom!Begins(r) \/ Custom!ConsumeFails(r) \/ Custom!Awaited(r, Custom!Aborted(r))
    \/ Custom!Quiesced(r) \/ Custom!Retired(r) \/ (hasResult /\ Custom!Consumed(r))
    \/ Custom!ConsumedWithoutResult(r) \/ Kafka!ConsumedWithoutResult(r)

\* Such a step keeps what is pending where its results will look for it.
LEMMA GoesOnPending ==
    ASSUME PendingInv, stage \in [Requests -> Stages], NEW r \in Requests, HandlerGoesOn(r)
    PROVE  PendingInv'
<1>t. /\ retiring \in [Requests -> BOOLEAN] /\ pending \in [StreamIds -> Requests \cup {None}]
      /\ StreamId \in [Requests -> StreamIds] /\ None \notin Requests
  BY QueuesAssumption DEF PendingInv
<1>1. CASE Custom!Begins(r)
  <2>0. stage[r] = "begin" /\ UNCHANGED <<hasResult, retiring, callbackOf>>
    BY Zenon, <1>1 DEF Custom!Begins, Custom!resultVars
  <2>1. CASE ~hasResult /\ UNCHANGED pending /\ Custom!Goto(r, "consume")
    <3>1. \A x \in Requests : stage'[x] = IF x = r THEN "consume" ELSE stage[x]
      BY Zenon, <2>1 DEF Custom!Goto
    <3>2. \A s \in StreamIds : pending[s] = None
      BY Zenon, <2>1 DEF PendingInv
    <3>3. \A d \in Deliveries : callbackOf[d] = None
      BY Zenon, <2>1 DEF PendingInv
    <3> QED  BY Zenon, <2>0, <2>1, <3>1, <3>2, <3>3 DEF PendingInv
  <2>2. CASE hasResult /\ Custom!Free(r) /\ Custom!Hold(r) /\ Custom!Goto(r, "consume")
    <3>1. \A x \in Requests : stage'[x] = IF x = r THEN "consume" ELSE stage[x]
      BY <2>2 DEF Custom!Goto
    <3>2. pending[StreamId[r]] = None
          /\ \A s \in StreamIds : pending'[s] = IF s = StreamId[r] THEN r ELSE pending[s]
      BY ZenonT(60), <1>t, <2>2 DEF Custom!Free, Custom!Hold
    <3>3. pending' \in [StreamIds -> Requests \cup {None}]
      BY ZenonT(60), <1>t, <2>2 DEF Custom!Hold
    <3>4. \A x \in Requests :
            /\ stage'[x] \in InUse => pending'[StreamId[x]] = x
            /\ stage'[x] \in {"retire", "retired"} => retiring[x]
      BY SMTT(30), <1>t, <2>2, <3>1, <3>2 DEF PendingInv
    <3>5. \A s \in StreamIds : pending'[s] # None =>
            stage'[pending'[s]] \in InUse /\ StreamId[pending'[s]] = s
      BY SMTT(30), <1>t, <2>0, <3>1, <3>2 DEF PendingInv, InUse
    <3>6. \A d \in Deliveries : callbackOf[d] # None =>
            stage'[callbackOf[d]] \in {"consume", "wait", "retire"}
      BY <3>1 DEF PendingInv
    <3> QED  BY ZenonT(60), <1>t, <2>0, <2>2, <3>3, <3>4, <3>5, <3>6 DEF PendingInv
  <2>3. CASE hasResult /\ ~Custom!Free(r) /\ UNCHANGED pending /\ Custom!Goto(r, "refuse")
    <3>1. \A x \in Requests : stage'[x] = IF x = r THEN "refuse" ELSE stage[x]
      BY <2>3 DEF Custom!Goto
    <3> QED  BY ZenonT(60), <1>t, <2>0, <2>3, <3>1, PendingKept DEF InUse
  <2> QED  BY Zenon, <1>1, <2>1, <2>2, <2>3 DEF Custom!Begins
<1>2. CASE Custom!ConsumeFails(r)
  <2>1. CASE hasResult
    <3>1. stage[r] = "consume" /\ UNCHANGED <<hasResult, pending, callbackOf>>
          /\ stage' = [stage EXCEPT ![r] = "retire"] /\ retiring' = [retiring EXCEPT ![r] = TRUE]
      BY <1>2, <2>1 DEF Custom!ConsumeFails, Custom!Retire, Custom!Goto
    <3>2. "retire" \in InUse /\ stage[r] \in InUse
      BY <3>1 DEF InUse
    <3> QED  BY Zenon, <3>1, <3>2, PendingMoved
  <2>2. CASE ~hasResult
    <3>1. UNCHANGED <<hasResult, pending, callbackOf, retiring>>
          /\ \A x \in Requests : stage'[x] = IF x = r THEN "end" ELSE stage[x]
      BY ZenonT(60), <1>2, <2>2 DEF Custom!ConsumeFails, Custom!Goto, Custom!resultVars
    <3> QED  BY ZenonT(60), <2>2, <3>1 DEF PendingInv, InUse
  <2> QED  BY ZenonT(60), <2>1, <2>2
<1>3. CASE Custom!Awaited(r, Custom!Aborted(r))
  <2>1. stage[r] = "wait" /\ UNCHANGED <<hasResult, pending, callbackOf>>
        /\ stage' = [stage EXCEPT ![r] = "retire"] /\ retiring' = [retiring EXCEPT ![r] = TRUE]
    BY <1>3 DEF Custom!Awaited, Custom!Retire, Custom!Goto
  <2>2. "retire" \in InUse /\ stage[r] \in InUse
    BY <2>1 DEF InUse
  <2> QED  BY Zenon, <2>1, <2>2, PendingMoved
<1>4. CASE Custom!Quiesced(r)
  <2>1. stage[r] = "retire" /\ UNCHANGED <<hasResult, pending, callbackOf, retiring>>
        /\ stage' = [stage EXCEPT ![r] = "retired"] /\ \A d \in Deliveries : callbackOf[d] # r
    BY <1>4 DEF Custom!Quiesced, Custom!Running, Custom!Goto, Custom!resultVars
  <2>2. "retired" \in InUse /\ stage[r] \in InUse /\ retiring[r]
    BY <2>1 DEF InUse, PendingInv
  <2> QED  BY Zenon, <2>1, <2>2, PendingMoved
<1>5. CASE Custom!Retired(r)
  <2>1. stage[r] = "retired" /\ UNCHANGED <<hasResult, callbackOf, retiring>>
    BY <1>5 DEF Custom!Retired, Custom!resultVars
  <2>2. \A x \in Requests : stage'[x] = IF x = r THEN "end" ELSE stage[x]
    BY <1>5 DEF Custom!Retired, Custom!Goto
  <2>3. pending' \in [StreamIds -> Requests \cup {None}]
        /\ \A s \in StreamIds : pending'[s] = IF s = StreamId[r] THEN None ELSE pending[s]
    BY ZenonT(60), <1>t, <1>5 DEF Custom!Retired, Custom!Drop
  <2>4. hasResult => pending[StreamId[r]] = r
    BY Zenon, <2>1 DEF PendingInv, InUse
  <2>5. \A x \in Requests :
            /\ hasResult /\ stage'[x] \in InUse => pending'[StreamId[x]] = x
            /\ stage'[x] \in {"retire", "retired"} => retiring[x]
    BY SMTT(30), <1>t, <2>2, <2>3, <2>4 DEF PendingInv, InUse
  <2>6. \A s \in StreamIds : pending'[s] # None =>
            hasResult /\ stage'[pending'[s]] \in InUse /\ StreamId[pending'[s]] = s
    BY SMTT(30), <1>t, <2>2, <2>3, <2>4 DEF PendingInv
  <2>7. \A d \in Deliveries : callbackOf[d] # None =>
            hasResult /\ stage'[callbackOf[d]] \in {"consume", "wait", "retire"}
    BY <2>1, <2>2 DEF PendingInv
  <2> QED  BY ZenonT(60), <2>1, <2>3, <2>5, <2>6, <2>7 DEF PendingInv
<1>6. CASE hasResult /\ Custom!Consumed(r)
  <2>1. stage[r] = "consume" /\ UNCHANGED <<hasResult, pending, callbackOf, retiring>>
        /\ stage' = [stage EXCEPT ![r] = "wait"]
    BY <1>6 DEF Custom!Consumed, Custom!Goto, Custom!resultVars
  <2>2. "wait" \in InUse /\ stage[r] \in InUse
    BY <2>1 DEF InUse
  <2> QED  BY Zenon, <2>1, <2>2, PendingMoved
<1>7. CASE Custom!ConsumedWithoutResult(r) \/ Kafka!ConsumedWithoutResult(r)
  <2>1. ~hasResult /\ UNCHANGED <<hasResult, pending, callbackOf, retiring>>
        /\ \A x \in Requests : stage'[x] = IF x = r THEN "end" ELSE stage[x]
    BY <1>7 DEF Custom!ConsumedWithoutResult, Kafka!ConsumedWithoutResult, Custom!Goto,
                Kafka!Goto, Custom!resultVars
  <2> QED  BY <2>1 DEF PendingInv, InUse
<1> QED  BY Zenon, <1>1, <1>2, <1>3, <1>4, <1>5, <1>6, <1>7 DEF HandlerGoesOn

\* A result reaches the callback of a request that has not retired it, and no
\* other request is concerned.
LEMMA ResultsPending ==
    ASSUME PendingInv, NEW d \in Deliveries, Custom!Deliver(d) \/ Custom!CallbackEnds(d),
           hasResult
    PROVE  PendingInv'
<1>t. /\ retiring \in [Requests -> BOOLEAN] /\ pending \in [StreamIds -> Requests \cup {None}]
      /\ callbackOf \in [Deliveries -> Requests \cup {None}]
      /\ Target \in [Deliveries -> StreamIds]
  BY Zenon, QueuesAssumption DEF PendingInv
<1>u. UNCHANGED <<hasResult, stage, pending, retiring>>
  BY Zenon DEF Custom!Deliver, Custom!CallbackEnds
<1>1. ASSUME NEW w \in Requests \cup {None}, callbackOf' = [callbackOf EXCEPT ![d] = w],
             w # None => stage[w] \in {"consume", "wait", "retire"}
      PROVE  PendingInv'
  <2>1. callbackOf' \in [Deliveries -> Requests \cup {None}]
        /\ \A e \in Deliveries : callbackOf'[e] = IF e = d THEN w ELSE callbackOf[e]
    BY <1>t, <1>1
  <2> QED  BY <1>u, <1>1, <2>1 DEF PendingInv
<1>2. CASE Custom!Deliver(d)
  <2> DEFINE w == pending[Target[d]]
  <2>1. w \in Requests \cup {None} /\ (w # None => stage[w] \in InUse)
    BY Zenon, <1>t DEF PendingInv
  <2>2. callbackOf' = IF Custom!Accepts(w) THEN [callbackOf EXCEPT ![d] = w] ELSE callbackOf
    BY <1>2 DEF Custom!Deliver
  <2> HIDE DEF w
  <2>3. CASE Custom!Accepts(w)
    <3>1. w # None /\ ~retiring[w]
      BY <2>3 DEF Custom!Accepts
    <3>2. stage[w] \in {"consume", "wait", "retire"}
      BY Zenon, <2>1, <3>1 DEF PendingInv, InUse
    <3> QED  BY ZenonT(60), <1>1, <2>1, <2>2, <2>3, <3>2
  <2>4. CASE ~Custom!Accepts(w)
    BY ZenonT(60), <1>u, <2>2, <2>4 DEF PendingInv
  <2> QED  BY Zenon, <2>3, <2>4
<1>3. CASE Custom!CallbackEnds(d)
  BY Zenon, <1>1, <1>3 DEF Custom!CallbackEnds
<1> QED  BY Zenon, <1>2, <1>3

-----------------------------------------------------------------------------

(***************************************************************************)
(* The steps the two sources have in common, in the words of the custom    *)
(* source                                                                  *)
(***************************************************************************)

SourceInv == QueueInv /\ SlotInv /\ PendingInv

\* A handler goes on with its slot.
LEMMA GoesOn ==
    ASSUME SourceInv, NEW r \in Requests, HandlerGoesOn(r),
           UNCHANGED <<stopped, tasksAborted, scene, concurrency, active, waiters>>
    PROVE  SourceInv' /\ stage[r] \notin Idle
<1>t. stage \in [Requests -> Stages]
  BY DEF SourceInv, QueueInv
<1>1. stage[r] \in {"begin", "consume", "wait", "retire", "retired"} /\ cancelled' = cancelled
      /\ \E s \in {"consume", "refuse", "retire", "retired", "wait", "end"} :
            stage' = [stage EXCEPT ![r] = s]
  BY DEF HandlerGoesOn, Custom!Begins, Custom!ConsumeFails, Custom!Awaited, Custom!Quiesced,
         Custom!Retired, Custom!Consumed, Custom!ConsumedWithoutResult,
         Kafka!ConsumedWithoutResult, Custom!Goto, Kafka!Goto, Custom!Retire
<1>2. PICK s \in {"consume", "refuse", "retire", "retired", "wait", "end"} :
        stage' = [stage EXCEPT ![r] = s]
  BY Zenon, <1>1
<1>3. s \in Stages \ Idle /\ r \in Holders /\ stage[r] \notin Idle
  BY <1>1 DEF Stages, Idle, Holders
<1>4. QueueInv' /\ SlotInv'
  BY Zenon, <1>1, <1>2, <1>3, Advances DEF SourceInv
<1>5. PendingInv'
  BY <1>t, GoesOnPending DEF SourceInv
<1> QED  BY <1>3, <1>4, <1>5 DEF SourceInv

\* A handler that is over gives its slot to the first waiter.
LEMMA IsOver ==
    ASSUME SourceInv, NEW r \in Requests,
           Custom!BeginFails(r) \/ Custom!Refused(r) \/ Custom!Ended(r),
           UNCHANGED <<stopped, tasksAborted, scene>>
    PROVE  SourceInv' /\ stage[r] \notin Idle
<1>1. /\ stage[r] \in {"begin", "refuse", "end"}
      /\ Custom!Leave(r) /\ UNCHANGED <<hasResult, cancelled, pending, callbackOf>>
      /\ retiring' = retiring \/ retiring' = [retiring EXCEPT ![r] = FALSE]
  BY DEF Custom!BeginFails, Custom!Refused, Custom!Ended, Custom!Forget, Custom!resultVars
<1>2. r \in Holders /\ stage[r] \notin Idle
  BY ZenonT(60), <1>1 DEF Holders, Idle
<1>3. /\ QueueInv' /\ SlotInv' /\ stage'[r] = "done"
      /\ \A x \in Requests \ {r} : stage'[x] = stage[x] \/
                (stage[x] \in {"queued", "acquire"} /\ stage'[x] = "acquire")
  BY ZenonT(60), <1>1, <1>2, Leaves DEF SourceInv
<1>4. retiring \in [Requests -> BOOLEAN]
  BY DEF SourceInv, PendingInv
<1>5. /\ retiring' \in [Requests -> BOOLEAN]
      /\ \A x \in Requests \ {r} : retiring'[x] = retiring[x]
  BY ZenonT(60), <1>1, <1>4
<1>6. \A x \in Requests : stage[x] \in InUse \/ stage'[x] \in InUse =>
               stage'[x] = stage[x] /\ retiring'[x] = retiring[x]
  BY ZenonT(60), <1>1, <1>3, <1>5 DEF InUse
<1>7. PendingInv'
  BY ZenonT(60), <1>1, <1>5, <1>6, PendingKept DEF SourceInv
<1> QED  BY ZenonT(60), <1>2, <1>3, <1>7 DEF SourceInv

\* acquire(), called or woken.
LEMMA TriesSlot ==
    ASSUME SourceInv, NEW r \in Requests, stage[r] \in {"new", "acquire"},
           NEW q \in Seq(Requests), Once(q), Members(q) = Members(waiters) \ {r},
           Custom!AcquireFrom(r, q),
           UNCHANGED <<hasResult, cancelled, pending, retiring, callbackOf, stopped,
                       tasksAborted, scene>>
    PROVE  SourceInv'
<1>1. QueueInv' /\ SlotInv'
  BY ZenonT(60), Acquires DEF SourceInv
<1>2. stage \in [Requests -> Stages] /\ retiring \in [Requests -> BOOLEAN]
  BY DEF SourceInv, QueueInv, PendingInv
<1>3. \E s \in {"done", "begin", "queued"} : stage' = [stage EXCEPT ![r] = s]
  BY DEF Custom!AcquireFrom, Custom!Goto
<1>4. \A x \in Requests : stage[x] \in InUse \/ stage'[x] \in InUse => stage'[x] = stage[x]
  BY ZenonT(60), <1>2, <1>3 DEF InUse
<1>5. PendingInv'
  BY ZenonT(60), <1>2, <1>4, PendingKept DEF SourceInv
<1> QED  BY ZenonT(60), <1>1, <1>5 DEF SourceInv

\* handle(), which refuses a request when the source is not running.
LEMMA Handles ==
    ASSUME SourceInv, NEW r \in Requests, Custom!Handle(r), UNCHANGED scene
    PROVE  SourceInv' /\ (~started => \A x \in Requests : stage'[x] = IF x = r THEN "done" ELSE stage[x])
<1>1. stage[r] = "new" /\ UNCHANGED <<hasResult, cancelled, pending, retiring, callbackOf,
                                      stopped, tasksAborted>>
  BY Zenon DEF Custom!Handle, Custom!resultVars
<1>t. stage \in [Requests -> Stages] /\ waiters \in Seq(Requests) /\ Once(waiters)
      /\ retiring \in [Requests -> BOOLEAN]
  BY Zenon DEF SourceInv, QueueInv, PendingInv
<1>m. Members(waiters) \subseteq Requests /\ r \notin Members(waiters)
  BY ZenonT(60), <1>1, <1>t, MembersOf DEF SourceInv, QueueInv
<1>2. CASE started /\ ~stopped
  <2>1. Custom!AcquireFrom(r, waiters)
    BY <1>2 DEF Custom!Handle
  <2>2. Members(waiters) = Members(waiters) \ {r}
    BY Zenon, <1>m
  <2> QED  BY ZenonT(60), <1>1, <1>2, <1>t, <2>1, <2>2, TriesSlot
<1>3. CASE ~(started /\ ~stopped)
  <2>1. stage' = [stage EXCEPT ![r] = "done"] /\ UNCHANGED <<concurrency, active, waiters>>
    BY <1>3 DEF Custom!Handle, Custom!Goto, Custom!slotVars
  <2>2. "done" \in Stages /\ "done" \in Idle
    BY DEF Stages, Idle
  <2>3. /\ stage' \in [Requests -> Stages]
        /\ \A x \in Requests : stage'[x] = IF x = r THEN "done" ELSE stage[x]
        /\ Holders' = Holders \ {r} /\ Woken' = Woken \ {r}
    BY Zenon, <1>t, <2>1, <2>2, Moved
  <2>4. r \notin Holders /\ r \notin Woken
    BY <1>1 DEF Holders, Woken, Idle
  <2>5. Holders' = Holders /\ Woken' = Woken
    BY <2>3, <2>4
  <2>6. QueueInv'
    BY ZenonT(60), <1>1, <1>m, <2>1, <2>3 DEF SourceInv, QueueInv
  <2>7. SlotInv'
    BY ZenonT(60), <1>1, <2>1, <2>5 DEF SourceInv, SlotInv
  <2>8. \A x \in Requests : stage[x] \in InUse \/ stage'[x] \in InUse => stage'[x] = stage[x]
    BY ZenonT(60), <1>1, <2>3 DEF InUse
  <2>9. PendingInv'
    BY ZenonT(60), <1>1, <1>t, <2>8, PendingKept DEF SourceInv
  <2> QED  BY ZenonT(60), <2>3, <2>6, <2>7, <2>9 DEF SourceInv
<1> QED  BY ZenonT(60), <1>2, <1>3

\* A step that moves no request: start(), a result, a signal.
LEMMA Unmoved ==
    ASSUME SourceInv, UNCHANGED <<stage, concurrency, active, waiters, scene>>,
           cancelled' \in [Requests -> BOOLEAN],
           \A x \in Requests : cancelled[x] => cancelled'[x],
           stopped' => stopped, tasksAborted' => stopped'
    PROVE  QueueInv' /\ SlotInv'
<1>1. waiters \in Seq(Requests) /\ Members(waiters) \subseteq Requests
  BY Zenon, MembersOf DEF SourceInv, QueueInv
<1>2. QueueInv'
  BY Zenon, <1>1 DEF SourceInv, QueueInv
<1>3. Holders' = Holders /\ Woken' = Woken
  BY Zenon DEF Holders, Woken
<1> QED  BY ZenonT(60), <1>2, <1>3 DEF SourceInv, SlotInv

\* Nothing of a source changes.
LEMMA Rests ==
    ASSUME SourceInv, UNCHANGED <<hasResult, stage, cancelled, pending, retiring, callbackOf,
               concurrency, active, waiters, scene>>,
           stopped' => stopped, tasksAborted' => stopped'
    PROVE  SourceInv'
<1>1. cancelled \in [Requests -> BOOLEAN]
  BY DEF SourceInv, QueueInv
<1>2. QueueInv' /\ SlotInv'
  BY ZenonT(60), <1>1, Unmoved
<1>3. PendingInv'
  BY DEF SourceInv, PendingInv
<1> QED  BY ZenonT(60), <1>2, <1>3 DEF SourceInv

\* setResultCallback(), done(), and the cancellation of a request.
LEMMA Reports ==
    ASSUME SourceInv, NEW r \in Requests,
           Custom!Register(r) \/ Custom!Done(r) \/ Custom!Cancel(r),
           UNCHANGED <<concurrency, active, waiters, stopped, tasksAborted, scene>>
    PROVE  SourceInv' /\ UNCHANGED stage
<1>1. /\ UNCHANGED <<hasResult, stage, pending, retiring, callbackOf>>
      /\ cancelled' = cancelled \/ cancelled' = [cancelled EXCEPT ![r] = TRUE]
  BY DEF Custom!Register, Custom!Done, Custom!Cancel, Custom!resultVars
<1>2. cancelled \in [Requests -> BOOLEAN] /\ (tasksAborted => stopped)
  BY DEF SourceInv, QueueInv
<1>3. cancelled' \in [Requests -> BOOLEAN] /\ \A x \in Requests : cancelled[x] => cancelled'[x]
  <2>1. CASE cancelled' = cancelled
    BY Zenon, <1>2, <2>1
  <2>2. CASE cancelled' = [cancelled EXCEPT ![r] = TRUE]
    <3>1. cancelled' \in [Requests -> BOOLEAN]
      BY ZenonT(60), <1>2, <2>2
    <3>2. \A x \in Requests : cancelled'[x] = IF x = r THEN TRUE ELSE cancelled[x]
      BY ZenonT(60), <1>2, <2>2
    <3> QED  BY Zenon, <3>1, <3>2
  <2> QED  BY Zenon, <1>1, <2>1, <2>2
<1>4. QueueInv' /\ SlotInv'
  BY ZenonT(60), <1>1, <1>2, <1>3, Unmoved
<1>5. PendingInv'
  BY Zenon, <1>1 DEF SourceInv, PendingInv
<1> QED  BY ZenonT(60), <1>1, <1>4, <1>5 DEF SourceInv

\* consumeResult() and the end of its callback.
LEMMA Delivers ==
    ASSUME SourceInv, NEW d \in Deliveries, hasResult,
           Custom!Deliver(d) \/ Custom!CallbackEnds(d),
           UNCHANGED <<concurrency, active, waiters, stopped, tasksAborted, scene>>
    PROVE  SourceInv' /\ UNCHANGED stage
<1>1. UNCHANGED <<stage, cancelled>>
  BY Zenon DEF Custom!Deliver, Custom!CallbackEnds
<1>2. cancelled \in [Requests -> BOOLEAN] /\ (tasksAborted => stopped)
  BY DEF SourceInv, QueueInv
<1>3. QueueInv' /\ SlotInv'
  BY ZenonT(60), <1>1, <1>2, Unmoved
<1>4. PendingInv'
  BY Zenon, ResultsPending DEF SourceInv
<1> QED  BY ZenonT(60), <1>1, <1>3, <1>4 DEF SourceInv

\* A stop of the admission.
LEMMA StopsAdmission ==
    ASSUME SourceInv, Custom!WakeAll, stopped',
           UNCHANGED <<hasResult, cancelled, pending, retiring, callbackOf, active, scene>>
    PROVE  SourceInv'
<1>1. QueueInv' /\ SlotInv'
  BY ZenonT(60), Wakes DEF SourceInv
<1>2. stage' = [x \in Requests |-> IF stage[x] = "queued" THEN "acquire" ELSE stage[x]]
  BY DEF Custom!WakeAll
<1>3. \A x \in Requests : stage[x] \in InUse \/ stage'[x] \in InUse => stage'[x] = stage[x]
  BY ZenonT(60), <1>2 DEF InUse
<1>4. retiring \in [Requests -> BOOLEAN]
  BY Zenon DEF SourceInv, PendingInv
<1>5. PendingInv'
  BY ZenonT(60), <1>3, <1>4, PendingKept DEF SourceInv
<1> QED  BY ZenonT(60), <1>1, <1>5 DEF SourceInv

-----------------------------------------------------------------------------

(***************************************************************************)
(* The custom source                                                       *)
(***************************************************************************)

\* A request with work left keeps the source from having stopped.
LEMMA BusyMeansStarted ==
    ASSUME CustomStopped, NEW r \in Requests, stage[r] \notin {"new", "done"}, started' = started
    PROVE  CustomStopped'
  BY DEF CustomStopped

\* Every step of the custom source keeps the invariant.
LEMMA CustomStep ==
    ASSUME SourceInv, CustomStopped, Custom!Next, UNCHANGED scene, scene = "custom"
    PROVE  SourceInv' /\ CustomStopped'
<1>0. (tasksAborted => stopped) /\ waiters \in Seq(Requests) /\ Once(waiters)
  BY DEF SourceInv, QueueInv
<1>1. CASE Custom!Start
  <2>1. /\ UNCHANGED <<hasResult, stage, cancelled, pending, retiring, callbackOf, concurrency,
                       active, waiters>>
        /\ stopped' = FALSE /\ tasksAborted' = FALSE /\ started'
    BY Zenon, <1>1 DEF Custom!Start, Custom!requestVars, Custom!resultVars, Custom!slotVars
  <2> QED  BY ZenonT(60), <2>1, Rests DEF CustomStopped
<1>2. CASE Custom!ProducerEnds \/ Custom!ProducerStopped \/ Custom!Stopped
           \/ Custom!StopTimeout \/ Custom!Idle
  <2>1. /\ UNCHANGED <<hasResult, stage, cancelled, pending, retiring, callbackOf, concurrency,
                       active, waiters>>
        /\ UNCHANGED <<stopped, tasksAborted, started>>
    BY ZenonT(60), <1>2 DEF Custom!ProducerEnds, Custom!ProducerStopped, Custom!Stopped, Custom!StopTimeout,
                Custom!Idle, Custom!vars, Custom!queuedVars, Custom!requestVars,
                Custom!resultVars, Custom!slotVars
  <2> QED  BY ZenonT(60), <1>0, <2>1, Rests DEF CustomStopped
<1>3. CASE Custom!Stop
  <2>1. CASE started
    <3>1. /\ UNCHANGED <<hasResult, cancelled, pending, retiring, callbackOf, active>>
          /\ Custom!WakeAll /\ stopped' /\ started' = started
      BY ZenonT(60), <1>3, <2>1 DEF Custom!Stop, Custom!resultVars
    <3> QED  BY ZenonT(60), <2>1, <3>1, StopsAdmission DEF CustomStopped
  <2>2. CASE ~started
    <3>1. /\ UNCHANGED <<hasResult, stage, cancelled, pending, retiring, callbackOf, concurrency,
                         active, waiters>>
          /\ UNCHANGED <<stopped, tasksAborted, started>>
      BY ZenonT(60), <1>3, <2>2 DEF Custom!Stop, Custom!resultVars
    <3> QED  BY <1>0, <3>1, Rests DEF CustomStopped
  <2> QED  BY ZenonT(60), <2>1, <2>2
<1>4. CASE Custom!ConsumerStopped
  <2>1. /\ UNCHANGED <<hasResult, stage, cancelled, pending, retiring, callbackOf, concurrency,
                       active, waiters>>
        /\ UNCHANGED <<stopped, tasksAborted>>
        /\ \A r \in Requests : stage[r] \in {"new", "done"}
    BY ZenonT(60), <1>4 DEF Custom!ConsumerStopped, Custom!requestVars, Custom!resultVars, Custom!slotVars,
                Custom!Drained, Custom!Admitted
  <2> QED  BY ZenonT(60), <1>0, <2>1, Rests DEF CustomStopped
<1>5. ASSUME NEW r \in Requests, Custom!consume(r)
      PROVE  SourceInv' /\ CustomStopped'
  <2>1. Custom!Handle(r) /\ started' = started
    BY Zenon, <1>5 DEF Custom!consume, Custom!Handle
  <2>2. SourceInv' /\ (~started => \A x \in Requests : stage'[x] = IF x = r THEN "done" ELSE stage[x])
    BY ZenonT(60), <2>1, Handles
  <2> QED  BY ZenonT(60), <2>1, <2>2 DEF CustomStopped
<1>6. ASSUME NEW r \in Requests, Custom!acquire(r)
      PROVE  SourceInv' /\ CustomStopped'
  <2>1. /\ stage[r] = "acquire" /\ Custom!AcquireFrom(r, waiters)
        /\ UNCHANGED <<hasResult, cancelled, pending, retiring, callbackOf, stopped,
                       tasksAborted, started>>
    BY ZenonT(60), <1>6 DEF Custom!acquire, Custom!resultVars, Custom!consumerVars
  <2>2. Members(waiters) = Members(waiters) \ {r}
    BY ZenonT(60), <2>1 DEF SourceInv, QueueInv
  <2> QED  BY ZenonT(60), <1>0, <2>1, <2>2, TriesSlot, BusyMeansStarted
<1>7. ASSUME NEW r \in Requests, Custom!handleTraced(r)
      PROVE  SourceInv' /\ CustomStopped'
  <2>1. UNCHANGED <<stopped, tasksAborted, started>>
    BY ZenonT(60), <1>7 DEF Custom!handleTraced, Custom!consumerVars
  <2>2. \/ HandlerGoesOn(r) /\ UNCHANGED <<concurrency, active, waiters>>
        \/ Custom!BeginFails(r) \/ Custom!Refused(r) \/ Custom!Ended(r)
    BY ZenonT(60), <1>7 DEF Custom!handleTraced, HandlerGoesOn, Custom!slotVars
  <2>3. SourceInv' /\ stage[r] \notin Idle
    BY ZenonT(60), <2>1, <2>2, GoesOn, IsOver
  <2> QED  BY ZenonT(60), <2>1, <2>3, BusyMeansStarted DEF Idle
<1>8. ASSUME NEW r \in Requests, Custom!results(r)
      PROVE  SourceInv' /\ CustomStopped'
  <2>1. UNCHANGED <<stopped, tasksAborted, started, concurrency, active, waiters>>
        /\ (Custom!Register(r) \/ Custom!Done(r) \/ Custom!Cancel(r))
    BY ZenonT(60), <1>8 DEF Custom!results, Custom!consumerVars, Custom!slotVars
  <2> QED  BY ZenonT(60), <2>1, Reports DEF CustomStopped
<1>9. ASSUME NEW d \in Deliveries, Custom!consumeResult(d)
      PROVE  SourceInv' /\ CustomStopped'
  <2>1. UNCHANGED <<stopped, tasksAborted, started, concurrency, active, waiters>>
        /\ (Custom!Deliver(d) \/ Custom!CallbackEnds(d)) /\ hasResult
    BY <1>9 DEF Custom!consumeResult, Custom!consumerVars, Custom!slotVars
  <2> QED  BY ZenonT(60), <2>1, Delivers DEF CustomStopped
<1> QED  BY ZenonT(60), <1>1, <1>2, <1>3, <1>4, <1>5, <1>6, <1>7, <1>8, <1>9 DEF Custom!Next

-----------------------------------------------------------------------------

(***************************************************************************)
(* The Kafka source                                                        *)
(***************************************************************************)

\* Both sources are QueuedSource with the same variables.
LEMMA SameHandler ==
    ASSUME NEW r \in Requests
    PROVE  /\ Kafka!Begins(r) => Custom!Begins(r)
           /\ Kafka!ConsumeFails(r) => Custom!ConsumeFails(r)
           /\ Kafka!waitForResult(r) => Custom!Awaited(r, Custom!Aborted(r))
           /\ Kafka!Quiesced(r) => Custom!Quiesced(r)
           /\ Kafka!Retired(r) => Custom!Retired(r)
           /\ Kafka!Consumed(r) => Custom!Consumed(r)
           /\ Kafka!BeginFails(r) => Custom!BeginFails(r)
           /\ Kafka!Refused(r) => Custom!Refused(r)
           /\ Kafka!Ended(r) => Custom!Ended(r)
<1> USE DEF Kafka!Goto, Custom!Goto, Kafka!resultVars, Custom!resultVars
<1>1. Kafka!Begins(r) => Custom!Begins(r)
  BY Zenon DEF Kafka!Begins, Custom!Begins, Kafka!Free, Custom!Free, Kafka!Hold, Custom!Hold,
               Kafka!onRequestStart, Custom!onRequestStart
<1>2. Kafka!ConsumeFails(r) => Custom!ConsumeFails(r)
  BY Zenon DEF Kafka!ConsumeFails, Custom!ConsumeFails, Kafka!Retire, Custom!Retire
<1>3. Kafka!waitForResult(r) => Custom!Awaited(r, Custom!Aborted(r))
  BY Zenon DEF Kafka!waitForResult, Kafka!Awaited, Custom!Awaited, Kafka!Retire, Custom!Retire,
               Kafka!Aborted, Custom!Aborted
<1>4. Kafka!Quiesced(r) => Custom!Quiesced(r)
  BY Zenon DEF Kafka!Quiesced, Custom!Quiesced, Kafka!Running, Custom!Running
<1>5. Kafka!Retired(r) => Custom!Retired(r)
  BY Zenon DEF Kafka!Retired, Custom!Retired, Kafka!Drop, Custom!Drop
<1>6. Kafka!Consumed(r) => Custom!Consumed(r)
  BY Zenon DEF Kafka!Consumed, Custom!Consumed
<1>7. Kafka!Leave(r) => Custom!Leave(r)
  BY Zenon DEF Kafka!Leave, Custom!Leave
<1>8. Kafka!BeginFails(r) => Custom!BeginFails(r)
  BY Zenon, <1>7 DEF Kafka!BeginFails, Custom!BeginFails
<1>9. Kafka!Refused(r) => Custom!Refused(r)
  BY Zenon, <1>7 DEF Kafka!Refused, Custom!Refused
<1>10. Kafka!Ended(r) => Custom!Ended(r)
  BY Zenon, <1>7 DEF Kafka!Ended, Custom!Ended, Kafka!Forget, Custom!Forget,
                     Kafka!onRequestEnd, Custom!onRequestEnd
<1> QED  BY Zenon, <1>1, <1>2, <1>3, <1>4, <1>5, <1>6, <1>8, <1>9, <1>10

\* The two families store and look up request results by the same code.
LEMMA SameResults ==
    /\ \A r \in Requests : /\ Kafka!Register(r) => Custom!Register(r)
                           /\ Kafka!Done(r) => Custom!Done(r)
    /\ \A d \in Deliveries : /\ Kafka!Deliver(d) => Custom!Deliver(d)
                             /\ Kafka!CallbackEnds(d) => Custom!CallbackEnds(d)
<1>1. ASSUME NEW r \in Requests PROVE Kafka!Register(r) => Custom!Register(r)
  BY Zenon DEF Kafka!Register, Custom!Register
<1>2. ASSUME NEW r \in Requests PROVE Kafka!Done(r) => Custom!Done(r)
  BY Zenon DEF Kafka!Done, Custom!Done
<1>3. ASSUME NEW d \in Deliveries PROVE Kafka!Deliver(d) => Custom!Deliver(d)
  BY Zenon DEF Kafka!Deliver, Custom!Deliver, Kafka!Accepts, Custom!Accepts
<1>4. ASSUME NEW d \in Deliveries PROVE Kafka!CallbackEnds(d) => Custom!CallbackEnds(d)
  BY Zenon DEF Kafka!CallbackEnds, Custom!CallbackEnds
<1> QED  BY Zenon, <1>1, <1>2, <1>3, <1>4

\* The invariants of the two families of waiting queues are the same formulas.
LEMMA SameQueue ==
    /\ Kafka!WakeAll => Custom!WakeAll
    /\ \A r \in Requests, q \in Seq(Requests) : Kafka!AcquireFrom(r, q) => Custom!AcquireFrom(r, q)
    /\ \A r \in Requests : Kafka!Handle(r) => Custom!Handle(r)
<1>1. Kafka!WakeAll => Custom!WakeAll
  BY Zenon DEF Kafka!WakeAll, Custom!WakeAll
<1>2. ASSUME NEW r, NEW q PROVE Kafka!AcquireFrom(r, q) => Custom!AcquireFrom(r, q)
  BY Zenon DEF Kafka!AcquireFrom, Custom!AcquireFrom, Kafka!Goto, Custom!Goto, Kafka!HasSlot,
               Custom!HasSlot, Kafka!Aborted, Custom!Aborted
<1>3. ASSUME NEW r \in Requests PROVE Kafka!Handle(r) => Custom!Handle(r)
  BY Zenon, <1>2 DEF Kafka!Handle, Custom!Handle, Kafka!Goto, Custom!Goto, Kafka!slotVars,
                     Custom!slotVars, Kafka!resultVars, Custom!resultVars
<1> QED  BY Zenon, <1>1, <1>2, <1>3

\* A waiter that is revoked is awake, and still in the queue.
LEMMA Revokes ==
    ASSUME SourceInv, NEW r \in Requests, Kafka!revoke(r), UNCHANGED scene, scene = "kafka"
    PROVE  SourceInv'
<1>1. /\ cancelled' = [cancelled EXCEPT ![r] = TRUE]
      /\ stage' = [stage EXCEPT ![r] = IF @ = "queued" THEN "acquire" ELSE @]
      /\ UNCHANGED <<hasResult, pending, retiring, callbackOf, concurrency, active, waiters,
                     stopped, tasksAborted>>
  BY Zenon DEF Kafka!revoke, Kafka!resultVars, Kafka!slotVars, Kafka!lifeVars
<1>2. /\ stage \in [Requests -> Stages] /\ cancelled \in [Requests -> BOOLEAN]
      /\ waiters \in Seq(Requests) /\ retiring \in [Requests -> BOOLEAN]
  BY DEF SourceInv, QueueInv, PendingInv
<1>3. /\ stage' \in [Requests -> Stages]
      /\ \A x \in Requests : stage'[x] = IF x = r /\ stage[x] = "queued" THEN "acquire" ELSE stage[x]
  BY ZenonT(60), <1>1, <1>2 DEF Stages
<1>4. cancelled' \in [Requests -> BOOLEAN]
      /\ \A x \in Requests : cancelled'[x] = IF x = r THEN TRUE ELSE cancelled[x]
  BY ZenonT(60), <1>1, <1>2
<1>5. Members(waiters) \subseteq Requests
  BY ZenonT(60), <1>2, MembersOf
<1>6. QueueInv'
  <2>1. \A w \in Members(waiters) :
          stage'[w] = "queued" \/ (scene = "kafka" /\ stage'[w] = "acquire" /\ cancelled'[w])
    BY ZenonT(60), <1>3, <1>4, <1>5 DEF SourceInv, QueueInv
  <2>2. \A x \in Requests : stage'[x] = "queued" => x \in Members(waiters)
    BY <1>3 DEF SourceInv, QueueInv
  <2> QED  BY ZenonT(60), <1>1, <1>3, <1>4, <2>1, <2>2 DEF SourceInv, QueueInv
<1>7. Holders' = Holders
  BY <1>3 DEF Holders, Idle
<1>8. SlotInv'
  BY ZenonT(60), <1>1, <1>4, <1>7 DEF SourceInv, SlotInv
<1>9. \A x \in Requests : stage[x] \in InUse \/ stage'[x] \in InUse => stage'[x] = stage[x]
  BY ZenonT(60), <1>3 DEF InUse
<1>10. PendingInv'
  BY ZenonT(60), <1>1, <1>2, <1>9, PendingKept DEF SourceInv
<1> QED  BY ZenonT(60), <1>6, <1>8, <1>10 DEF SourceInv

\* Every step of the Kafka source keeps the invariant.
LEMMA KafkaStep ==
    ASSUME SourceInv, Kafka!Next, UNCHANGED scene, scene = "kafka"
    PROVE  SourceInv'
<1>0. (tasksAborted => stopped) /\ waiters \in Seq(Requests) /\ Once(waiters)
  BY DEF SourceInv, QueueInv
<1>1. CASE Kafka!Start
  <2>1. /\ UNCHANGED <<hasResult, stage, cancelled, pending, retiring, callbackOf, concurrency,
                       active, waiters>>
        /\ stopped' = FALSE /\ tasksAborted' = FALSE
    BY Zenon, <1>1 DEF Kafka!Start, Kafka!requestVars, Kafka!resultVars, Kafka!slotVars
  <2> QED  BY ZenonT(60), <2>1, Rests
<1>2. CASE Kafka!StopAdmission \/ (Kafka!Stop /\ started)
  <2>1. /\ UNCHANGED <<hasResult, cancelled, pending, retiring, callbackOf, active>>
        /\ Kafka!WakeAll /\ stopped'
    BY Zenon, <1>2 DEF Kafka!StopAdmission, Kafka!Stop, Kafka!resultVars
  <2> QED  BY ZenonT(60), <2>1, SameQueue, StopsAdmission
<1>3. CASE (Kafka!Stop /\ ~started) \/ Kafka!Stopped \/ Kafka!StopTimeout
  <2>1. UNCHANGED <<hasResult, stage, cancelled, pending, retiring, callbackOf, concurrency,
                    active, waiters, stopped, tasksAborted>>
    BY Zenon, <1>3 DEF Kafka!Stop, Kafka!Stopped, Kafka!StopTimeout, Kafka!queuedVars,
                Kafka!requestVars, Kafka!resultVars, Kafka!slotVars
  <2> QED  BY ZenonT(60), <1>0, <2>1, Rests
<1>4. ASSUME NEW r \in Requests, Kafka!handle(r) PROVE SourceInv'
  BY ZenonT(60), <1>4, SameQueue, Handles DEF Kafka!handle
<1>5. ASSUME NEW r \in Requests, Kafka!acquire(r) PROVE SourceInv'
  <2>1. /\ stage[r] = "acquire" /\ Kafka!AcquireFrom(r, Kafka!Unqueued(r))
        /\ UNCHANGED <<hasResult, cancelled, pending, retiring, callbackOf, stopped,
                       tasksAborted>>
    BY Zenon, <1>5 DEF Kafka!acquire, Kafka!resultVars, Kafka!lifeVars
  <2>2. /\ Kafka!Unqueued(r) \in Seq(Requests) /\ Once(Kafka!Unqueued(r))
        /\ Members(Kafka!Unqueued(r)) = Members(waiters) \ {r}
    BY ZenonT(60), <1>0, Spliced
  <2>3. Custom!AcquireFrom(r, Kafka!Unqueued(r))
    BY ZenonT(60), <2>1, <2>2, SameQueue
  <2> QED  BY ZenonT(60), <2>1, <2>2, <2>3, TriesSlot
<1>6. ASSUME NEW r \in Requests, Kafka!handleTraced(r) PROVE SourceInv'
  <2>1. UNCHANGED <<stopped, tasksAborted>>
    BY ZenonT(60), <1>6 DEF Kafka!handleTraced, Kafka!lifeVars
  <2>2. \/ HandlerGoesOn(r) /\ UNCHANGED <<concurrency, active, waiters>>
        \/ Custom!BeginFails(r) \/ Custom!Refused(r) \/ Custom!Ended(r)
    BY Zenon, <1>6, SameHandler DEF Kafka!handleTraced, HandlerGoesOn, Kafka!slotVars
  <2> QED  BY ZenonT(60), <2>1, <2>2, GoesOn, IsOver
<1>7. ASSUME NEW r \in Requests, Kafka!revoke(r) PROVE SourceInv'
  BY ZenonT(60), <1>7, Revokes
<1>8. ASSUME NEW r \in Requests, Kafka!results(r) PROVE SourceInv'
  <2>1. UNCHANGED <<stopped, tasksAborted, concurrency, active, waiters>>
        /\ (Custom!Register(r) \/ Custom!Done(r))
    BY ZenonT(60), <1>8, SameResults DEF Kafka!results, Kafka!lifeVars, Kafka!slotVars
  <2> QED  BY ZenonT(60), <2>1, Reports
<1>9. ASSUME NEW d \in Deliveries, Kafka!consumeResult(d) PROVE SourceInv'
  <2>1. UNCHANGED <<stopped, tasksAborted, concurrency, active, waiters>>
        /\ (Custom!Deliver(d) \/ Custom!CallbackEnds(d)) /\ hasResult
    BY ZenonT(60), <1>9, SameResults DEF Kafka!consumeResult, Kafka!lifeVars, Kafka!slotVars
  <2> QED  BY ZenonT(60), <2>1, Delivers
<1> QED  BY ZenonT(60), <1>1, <1>2, <1>3, <1>4, <1>5, <1>6, <1>7, <1>8, <1>9 DEF Kafka!Next

-----------------------------------------------------------------------------

(***************************************************************************)
(* The scenes                                                              *)
(***************************************************************************)

\* Every source starts with no request, an empty queue and free slots.
LEMMA QueuesInit == ASSUME SceneInit PROVE QueuesInv
<1>1. /\ hasResult \in BOOLEAN /\ stage = [r \in Requests |-> "new"]
      /\ cancelled = [r \in Requests |-> FALSE] /\ pending = [s \in StreamIds |-> None]
      /\ retiring = [r \in Requests |-> FALSE] /\ callbackOf = [d \in Deliveries |-> None]
      /\ concurrency \in Concurrencies /\ active = 0 /\ waiters = <<>>
      /\ stopped = FALSE /\ tasksAborted = FALSE
  BY DEF SceneInit, Custom!Init, Custom!QueuedInit, Custom!RequestInit
<1>2. waiters \in Seq(Requests) /\ Members(waiters) = {} /\ Once(waiters)
  <2>1. waiters \in Seq(Requests) /\ Len(waiters) = 0
    BY <1>1
  <2>2. 1..Len(waiters) = {}
    BY <2>1
  <2> QED  BY ZenonT(60), <2>1, <2>2 DEF Members, Once
<1>3. QueueInv
  BY ZenonT(60), <1>1, <1>2 DEF QueueInv, Stages
<1>4. Holders = {}
  BY <1>1 DEF Holders, Idle
<1>5. Cardinality(Holders) = 0
  BY ZenonT(60), <1>4, FS_EmptySet
<1>6. SlotInv
  BY <1>1, <1>5, QueuesAssumption DEF SlotInv
<1>7. PendingInv
  BY Zenon, <1>1, QueuesAssumption DEF PendingInv, InUse
<1>8. CustomStopped
  BY Zenon, <1>1 DEF CustomStopped
<1> QED  BY ZenonT(60), <1>3, <1>6, <1>7, <1>8 DEF QueuesInv, SceneInit

\* A step of one source keeps its invariants and leaves the others alone.
LEMMA QueuesStep == ASSUME QueuesInv, [SceneNext]_sceneVars PROVE QueuesInv'
<1>0. SourceInv /\ scene \in {"custom", "kafka", "map"}
  BY DEF QueuesInv, SourceInv
<1>1. CASE scene = "custom" /\ Custom!Next /\ UNCHANGED scene
  BY Zenon, <1>0, <1>1, CustomStep DEF QueuesInv, SourceInv
<1>2. CASE scene = "kafka" /\ Kafka!Next /\ UNCHANGED scene
  BY Zenon, <1>0, <1>2, KafkaStep DEF QueuesInv, SourceInv
<1>3. CASE UNCHANGED <<scene, queueVars>>
  <2>1. UNCHANGED <<hasResult, stage, cancelled, pending, retiring, callbackOf, concurrency,
                    active, waiters, stopped, tasksAborted, started, scene>>
    BY Zenon, <1>3 DEF queueVars
  <2>2. tasksAborted => stopped
    BY DEF QueuesInv, QueueInv
  <2> QED  BY Zenon, <1>0, <2>1, <2>2, Rests DEF QueuesInv, SourceInv, CustomStopped
<1> QED  BY Zenon, <1>1, <1>2, <1>3 DEF SceneNext, sceneVars, customVars

\* The invariant, for both sources.
THEOREM QueuesInvariance == SceneSpec => []QueuesInv
  BY QueuesInit, QueuesStep, PTL DEF SceneSpec

\* acquire() and the finally block of handleOnce() (custom.ts, confluent.ts):
\* whatever the order in which requests come, are woken, overtaken, revoked and
\* end, #active counts the holders within concurrency(), and while a request is
\* queued and a slot is free a woken request is on its way to it.
THEOREM SlotsAreServed == SceneSpec => []SlotsServeQueue
<1>1. ASSUME QueuesInv PROVE SlotsServeQueue
  <2>0. QueueInv /\ SlotInv
    BY <1>1 DEF QueuesInv
  <2>c. /\ Holders \in SUBSET Requests /\ Woken \in SUBSET Requests
        /\ active \in Nat /\ concurrency \in Nat /\ Cardinality(Woken) \in Nat
    BY ZenonT(60), <2>0, Counters
  <2>1. Custom!SlotsServeQueue
    <3> SUFFICES ASSUME \A r \in Requests : ~cancelled[r], waiters # <<>>, Custom!HasSlot
                 PROVE  \E r \in Requests : stage[r] = "acquire"
      BY DEF Custom!SlotsServeQueue
    <3>1. concurrency <= active + Cardinality(Woken) /\ concurrency # 0
      BY <2>0 DEF SlotInv, QueueInv
    <3>2. active < concurrency
      BY Zenon, <3>1 DEF Custom!HasSlot
    <3>3. Cardinality(Woken) # 0
      BY <2>c, <3>1, <3>2
    <3>4. Woken # {}
      BY ZenonT(60), <3>3, FS_EmptySet
    <3> QED  BY ZenonT(60), <3>4 DEF Woken
  <2>2. Custom!WithinConcurrency
    <3>1. {r \in Requests : Custom!HoldsSlot(r)} = Holders
      BY DEF Holders, Idle, Custom!HoldsSlot, Custom!Admitted
    <3>2. active = Custom!Cardinality(Holders)
      <4>1. Custom!Cardinality(Holders) = Cardinality(Holders)
        BY Zenon DEF Custom!Cardinality, Cardinality
      <4> QED  BY <2>0, <4>1 DEF SlotInv
    <3> QED  BY Zenon, <2>0, <3>1, <3>2 DEF SlotInv, Custom!WithinConcurrency
  <2>3. Kafka!QueueIsLive
    <3>1. waiters \in Seq(Requests) /\ DOMAIN waiters = 1..Len(waiters)
      BY <2>0 DEF QueueInv
    <3>2. Kafka!Range(waiters) = Members(waiters)
      BY Zenon, <3>1 DEF Kafka!Range, Members
    <3>3. Kafka!IsInjective(waiters)
      BY ZenonT(60), <2>0, <3>1 DEF QueueInv, Once, Kafka!IsInjective
    <3> QED  BY ZenonT(60), <2>0, <3>2, <3>3 DEF QueueInv, Kafka!QueueIsLive
  <2> QED  BY Zenon, <2>1, <2>2, <2>3 DEF SlotsServeQueue
<1> QED  BY <1>1, QueuesInvariance, PTL

\* The correlation of results (custom.ts, confluent.ts): however many requests
\* share a stream ID, one that awaits its result is the one its ID leads to;
\* no callback runs once endRequest() was called; and the custom source has
\* drained when it has stopped.
THEOREM PendingAreFound == SceneSpec => []PendingWhileWaiting
<1>1. ASSUME QueuesInv PROVE PendingWhileWaiting
  <2>1. Custom!PendingWhileWaiting
    BY ZenonT(60), <1>1 DEF QueuesInv, PendingInv, InUse, Custom!PendingWhileWaiting
  <2>2. Custom!CallbacksBeforeEnd
    BY <1>1, QueuesAssumption DEF QueuesInv, PendingInv, Custom!CallbacksBeforeEnd, Custom!Running
  <2>3. scene = "custom" => Custom!StopMeansQuiet
    <3>1. ASSUME scene = "custom", ~started
          PROVE  Custom!Drained /\ \A d \in Deliveries : callbackOf[d] = None
      <4>1. \A r \in Requests : stage[r] \in {"new", "done"}
        BY Zenon, <1>1, <3>1 DEF QueuesInv, CustomStopped
      <4>2. \A d \in Deliveries : callbackOf[d] = None
        BY ZenonT(60), <1>1, <4>1 DEF QueuesInv, PendingInv
      <4> QED  BY Zenon, <4>1, <4>2 DEF Custom!Drained, Custom!Admitted
    <3> QED  BY Zenon, <3>1 DEF Custom!StopMeansQuiet
  <2> QED  BY ZenonT(60), <2>1, <2>2, <2>3 DEF PendingWhileWaiting
<1> QED  BY <1>1, QueuesInvariance, PTL

(***************************************************************************)
(* The rotating map, for all keys, values, shards and capacities            *)
(***************************************************************************)

\* What the refinement needs of every state: each generation maps the keys to
\* entries, and no key has two of them.
MapInv ==
    /\ current \in [Shards -> [Keys -> Entries \cup {None}]]
    /\ previous \in [Shards -> [Keys -> Entries \cup {None}]]
    /\ Map!OneEntryPerKey

\* The map starts without entries.
LEMMA MapStarts == ASSUME Map!Init PROVE MapInv
  BY SMTT(30) DEF Map!Init, MapInv, Map!OneEntryPerKey, Map!Empty

\* Every operation, and the rotation of any of the shards, keeps one entry
\* per key.
LEMMA MapKeeps ==
    ASSUME MapInv, [Map!Next]_(Map!vars)
    PROVE  MapInv'
<1> USE MapAssumption DEF MapInv, Map!OneEntryPerKey, Map!MapAssumption, Map!shard
<1>1. ASSUME NEW k \in Keys, NEW v \in Entries, Map!Set(k, v) \/ Map!GetOrCreate(k, v)
      PROVE  MapInv'
  <2>1. CASE Map!Lookup(k) = None
    <3>1. current' = [current EXCEPT ![KeyShard[k]][k] = v] /\ previous' = previous
      BY ZenonT(60), <1>1, <2>1 DEF Map!Set, Map!GetOrCreate
    <3>2. current[KeyShard[k]][k] = None /\ previous[KeyShard[k]][k] = None
      BY <2>1 DEF Map!Lookup
    <3>3. current' \in [Shards -> [Keys -> Entries \cup {None}]]
      BY <3>1
    <3>4. \A s \in Shards, j \in Keys :
            current'[s][j] = IF s = KeyShard[k] /\ j = k THEN v ELSE current[s][j]
      BY <3>1
    <3>5. QED
      BY SMTT(30), <3>1, <3>2, <3>3, <3>4
  <2>2. CASE Map!Lookup(k) # None
    BY Zenon, <1>1, <2>2 DEF Map!Set, Map!GetOrCreate
  <2>3. QED
    BY SMTT(30), <2>1, <2>2
<1>2. ASSUME NEW k \in Keys, Map!Get(k) PROVE MapInv'
  BY <1>2 DEF Map!Get
<1>3. ASSUME NEW k \in Keys, Map!Pop(k) PROVE MapInv'
  <2>1. CASE current[KeyShard[k]][k] # None
    <3>1. current' = [current EXCEPT ![KeyShard[k]][k] = None] /\ previous' = previous
      BY <1>3, <2>1 DEF Map!Pop
    <3>2. \A s \in Shards, j \in Keys :
            current'[s][j] = IF s = KeyShard[k] /\ j = k THEN None ELSE current[s][j]
      BY <3>1
    <3>3. QED
      BY <3>1, <3>2
  <2>2. CASE current[KeyShard[k]][k] = None
    <3>1. previous' = [previous EXCEPT ![KeyShard[k]][k] = None] /\ current' = current
      BY <1>3, <2>2 DEF Map!Pop
    <3>2. \A s \in Shards, j \in Keys :
            previous'[s][j] = IF s = KeyShard[k] /\ j = k THEN None ELSE previous[s][j]
      BY <3>1
    <3>3. QED
      BY <3>1, <3>2
  <2>3. QED
    BY <2>1, <2>2
<1>4. CASE Map!Rotate
  <2>1. \A s \in Shards : Map!Combined(s) \in [Keys -> Entries \cup {None}]
    BY DEF Map!Combined
  <2>2. Map!Empty \in [Keys -> Entries \cup {None}]
    BY DEF Map!Empty
  <2>3. QED
    BY SMTT(30), <1>4, <2>1, <2>2 DEF Map!Rotate, Map!Combined, Map!Empty
<1>5. CASE Map!Start \/ Map!Stop \/ UNCHANGED Map!vars
  BY <1>5 DEF Map!Start, Map!Stop, Map!vars
<1>6. QED
  BY <1>1, <1>2, <1>3, <1>4, <1>5 DEF Map!Next

\* Rotation moves entries between the generations and changes no lookup.
LEMMA RotationInvisible ==
    ASSUME MapInv, Map!Rotate, NEW k \in Keys
    PROVE  Map!Lookup(k)' = Map!Lookup(k)
  BY MapAssumption DEF MapInv, Map!MapAssumption, Map!Rotate, Map!Lookup, Map!Combined, Map!Empty, Map!shard

\* In every scene the map takes a step of its own or none, and so keeps its
\* invariant.
LEMMA MapInvariance == SceneSpec => Map!Init /\ [][Map!Next]_(Map!vars) /\ []MapInv
<1>1. SceneInit => Map!Init
  BY DEF SceneInit
<1>2. [SceneNext]_sceneVars => [Map!Next]_(Map!vars)
  BY DEF SceneNext, sceneVars, mapVars, Map!vars
<1>3. Map!Init => MapInv
  BY MapStarts
<1>4. MapInv /\ [Map!Next]_(Map!vars) => MapInv'
  BY MapKeeps
<1> QED  BY <1>1, <1>2, <1>3, <1>4, PTL DEF SceneSpec

\* A key never has two entries (getOrCreate, pop and rotateShard of
\* rotating-map.ts), whatever operations and rotations came before.
THEOREM NoDuplicateEntry == SceneSpec => []Map!OneEntryPerKey
<1>1. MapInv => Map!OneEntryPerKey
  BY DEF MapInv
<1> QED  BY <1>1, MapInvariance, PTL

\* The rotating map (rotating-map.ts) keeps its promise of one map to the
\* sources: every operation answers as KeyedMap does, and start(), stop() and
\* the rotation of any shards change no entry.
THEOREM MapKeepsPromise == SceneSpec => ImplementsKeyedMap
<1> DEFINE map == [k \in Keys |-> Map!Lookup(k)]
<1>1. Map!Init => Map!Promise!Init
  BY MapAssumption DEF Map!Init, Map!Promise!Init, Map!Lookup, Map!Empty, Map!Answer,
     Map!Promise!Answer, Map!MapAssumption, Map!shard
<1>2. MapInv /\ [Map!Next]_(Map!vars) => [Map!Promise!Next]_(Map!Promise!vars)
  <2> SUFFICES ASSUME MapInv, [Map!Next]_(Map!vars) PROVE [Map!Promise!Next]_(Map!Promise!vars)
    OBVIOUS
  <2> USE MapAssumption DEF MapInv, Map!OneEntryPerKey, Map!MapAssumption, Map!Answer, Map!Promise!Answer, Map!shard
  <2>1. ASSUME NEW k \in Keys, NEW v \in Entries, Map!Set(k, v)
        PROVE  Map!Promise!Set(k, v)
    BY Zenon, <2>1 DEF Map!Set, Map!Promise!Set, Map!Lookup
  <2>2. ASSUME NEW k \in Keys, NEW v \in Entries, Map!GetOrCreate(k, v)
        PROVE  Map!Promise!GetOrCreate(k, v)
    BY ZenonT(60), <2>2 DEF Map!GetOrCreate, Map!Promise!GetOrCreate, Map!Lookup
  <2>3. ASSUME NEW k \in Keys, Map!Get(k) PROVE Map!Promise!Get(k)
    BY ZenonT(60), <2>3 DEF Map!Get, Map!Promise!Get, Map!Lookup
  <2>4. ASSUME NEW k \in Keys, Map!Pop(k) PROVE Map!Promise!Pop(k)
    <3>1. answer' = Map!Answer(Map!Lookup(k), Map!Lookup(k) # None)
      BY <2>4 DEF Map!Pop
    <3>2. \A j \in Keys : Map!Lookup(j)' = IF j = k THEN None ELSE Map!Lookup(j)
      <4>1. CASE current[KeyShard[k]][k] # None
        BY SMTT(30), <2>4, <4>1 DEF Map!Pop, Map!Lookup
      <4>2. CASE current[KeyShard[k]][k] = None
        BY <2>4, <4>2 DEF Map!Pop, Map!Lookup
      <4>3. QED
        BY SMTT(30), <4>1, <4>2
    <3>3. map' = [map EXCEPT ![k] = None]
      BY Zenon, <3>2
    <3>4. QED
      BY SMTT(30), <3>1, <3>3 DEF Map!Promise!Pop
  <2>5. CASE Map!Rotate
    <3>1. map' = map
      BY SMTT(30), <2>5, RotationInvisible
    <3>2. QED
      BY <2>5, <3>1 DEF Map!Rotate, Map!Promise!vars
  <2>6. CASE Map!Start \/ Map!Stop \/ UNCHANGED Map!vars
    BY <2>6 DEF Map!Start, Map!Stop, Map!vars, Map!Promise!vars, Map!Lookup
  <2>7. QED
    BY <2>1, <2>2, <2>3, <2>4, <2>5, <2>6 DEF Map!Next, Map!Promise!Next
<1> QED
  BY <1>1, <1>2, MapInvariance, PTL DEF ImplementsKeyedMap, Map!ImplementsKeyedMap, Map!Promise!Spec
=============================================================================
