----------------------------- MODULE PoolProofs -----------------------------
(***************************************************************************)
(* The inductive invariant of the pools and the proof that every step that *)
(* the FIFO and the priority pool share preserves it.  Both disciplines    *)
(* hand their queue to pump() as a rearrangement of the old one, perhaps   *)
(* with one task added, so the lemmas speak of an arbitrary queue q.       *)
(***************************************************************************)
EXTENDS TaskPools, TLAPS, FiniteSetTheorems

\* The invariant: TasksAccounted and NoIdleExecutor are not inductive alone;
\* pump() does nothing in a created or stopped pool, so these states must be
\* known to hold no admitted work, and a drained stop() must be known to have
\* seen "stopped".
PoolInv ==
    /\ TypeOK
    /\ TasksAccounted
    /\ NoIdleExecutor
    /\ state = "created" => active = 0
    /\ state = "stopped" => active = 0 /\ queue = <<>>
    /\ \A s \in Stoppers : stops[s] = "drained" => state = "stopped"

-----------------------------------------------------------------------------

\* The whole of a sequence, nothing of it, and nothing appended to it.
LEMMA WholeSeq ==
    ASSUME NEW S, NEW q \in Seq(S)
    PROVE  SubSeq(q, 1, Len(q)) = q /\ SubSeq(q, 1, 0) = <<>> /\ q \o <<>> = q
OBVIOUS

\* Moving a prefix of one duplicate-free sequence to the end of another that
\* shares no element with it, as pump() moves queued tasks to the ready ones.
LEMMA MovePrefix ==
    ASSUME NEW S, NEW q \in Seq(S), NEW r \in Seq(S), NEW n \in 0..Len(q),
           IsInjective(q), IsInjective(r), Range(q) \cap Range(r) = {}
    PROVE  LET rest == SubSeq(q, n + 1, Len(q))
               more == r \o SubSeq(q, 1, n)
           IN  /\ rest \in Seq(S) /\ more \in Seq(S)
               /\ Len(rest) = Len(q) - n /\ Len(more) = Len(r) + n
               /\ IsInjective(rest) /\ IsInjective(more)
               /\ Range(rest) \cap Range(more) = {}
               /\ Range(rest) \cup Range(more) = Range(q) \cup Range(r)
               /\ Range(r) \subseteq Range(more)
<1> DEFINE rest == SubSeq(q, n + 1, Len(q))
           head == SubSeq(q, 1, n)
           more == r \o head
<1>1. /\ rest \in Seq(S) /\ Len(rest) = Len(q) - n
      /\ \A i \in 1..Len(rest) : rest[i] = q[i + n]
  BY Z3
<1>2. /\ head \in Seq(S) /\ Len(head) = n
      /\ \A i \in 1..n : head[i] = q[i]
  BY Z3
<1>3. /\ more \in Seq(S) /\ Len(more) = Len(r) + n
      /\ \A i \in 1..Len(more) :
            more[i] = IF i <= Len(r) THEN r[i] ELSE q[i - Len(r)]
  BY <1>2, Z3
<1>4. Len(q) \in Nat /\ Len(r) \in Nat
  OBVIOUS
<1>5. /\ DOMAIN q = 1..Len(q) /\ DOMAIN r = 1..Len(r)
      /\ DOMAIN rest = 1..(Len(q) - n) /\ DOMAIN more = 1..(Len(r) + n)
  BY <1>1, <1>3
<1> HIDE DEF rest, head, more
<1>6. \A i \in 1..Len(q), j \in 1..Len(r) : q[i] # r[j]
  BY <1>5 DEF Range
<1>a. /\ \A i, j \in 1..Len(q) : q[i] = q[j] => i = j
      /\ \A i, j \in 1..Len(r) : r[i] = r[j] => i = j
  BY <1>5 DEF IsInjective
<1>7. IsInjective(rest)
  <2> SUFFICES ASSUME NEW i \in 1..Len(rest), NEW j \in 1..Len(rest), rest[i] = rest[j]
               PROVE  i = j
    BY <1>1, <1>5 DEF IsInjective
  <2>1. i + n \in 1..Len(q) /\ j + n \in 1..Len(q) /\ q[i + n] = q[j + n]
    BY <1>1, <1>4
  <2> QED  BY <2>1, <1>a
<1>8. IsInjective(more)
  <2> SUFFICES ASSUME NEW i \in 1..Len(more), NEW j \in 1..Len(more), more[i] = more[j]
               PROVE  i = j
    BY <1>3, <1>5 DEF IsInjective
  <2>1. CASE i <= Len(r) /\ j <= Len(r)
    BY <2>1, <1>3, <1>4, <1>a
  <2>2. CASE ~(i <= Len(r)) /\ ~(j <= Len(r))
    <3>1. /\ i - Len(r) \in 1..Len(q) /\ j - Len(r) \in 1..Len(q)
          /\ q[i - Len(r)] = q[j - Len(r)]
      BY <2>2, <1>3, <1>4
    <3> QED  BY <3>1, <1>a, <1>4
  <2>3. CASE i <= Len(r) /\ ~(j <= Len(r))
    <3>1. i \in 1..Len(r) /\ j - Len(r) \in 1..Len(q) /\ r[i] = q[j - Len(r)]
      BY <2>3, <1>3, <1>4
    <3> QED  BY <3>1, <1>6
  <2>4. CASE ~(i <= Len(r)) /\ j <= Len(r)
    <3>1. j \in 1..Len(r) /\ i - Len(r) \in 1..Len(q) /\ r[j] = q[i - Len(r)]
      BY <2>4, <1>3, <1>4
    <3> QED  BY <3>1, <1>6
  <2> QED  BY <2>1, <2>2, <2>3, <2>4
<1>b. \A i \in 1..Len(r) : i \in 1..Len(more) /\ more[i] = r[i]
  BY <1>3, <1>4
<1>c. ASSUME NEW i \in 1..n
      PROVE  Len(r) + i \in 1..Len(more) /\ more[Len(r) + i] = q[i]
  <2>1. Len(r) + i \in 1..Len(more) /\ ~(Len(r) + i <= Len(r)) /\ (Len(r) + i) - Len(r) = i
    BY <1>3, <1>4
  <2> QED  BY <2>1, <1>3
<1>d. ASSUME NEW k \in 1..Len(more), ~(k <= Len(r))
      PROVE  k - Len(r) \in 1..n /\ k - Len(r) \in 1..Len(q) /\ more[k] = q[k - Len(r)]
  BY <1>3, <1>4, <1>d
<1>9. Range(rest) \cap Range(more) = {}
  <2> SUFFICES ASSUME NEW x \in Range(rest), x \in Range(more)
               PROVE  FALSE
    OBVIOUS
  <2>1. PICK i \in 1..Len(rest) : x = rest[i]
    BY <1>1, <1>5 DEF Range
  <2>2. PICK j \in 1..Len(more) : x = more[j]
    BY <1>3, <1>5 DEF Range
  <2>3. i + n \in 1..Len(q) /\ x = q[i + n]
    BY <2>1, <1>1, <1>4
  <2>4. CASE j <= Len(r)
    <3>1. j \in 1..Len(r) /\ x = r[j]
      BY <2>2, <2>4, <1>3, <1>4
    <3> QED  BY <2>3, <3>1, <1>6
  <2>5. CASE ~(j <= Len(r))
    <3>1. j - Len(r) \in 1..n /\ j - Len(r) \in 1..Len(q) /\ x = q[j - Len(r)]
      BY <2>2, <2>5, <1>d
    <3>2. j - Len(r) # i + n
      BY <3>1, <2>1, <1>1, <1>4
    <3> QED  BY <2>3, <3>1, <3>2, <1>a
  <2> QED  BY <2>4, <2>5
<1>10. Range(r) \subseteq Range(more)
  BY <1>b, <1>3, <1>5 DEF Range
<1>11. Range(rest) \subseteq Range(q)
  <2> SUFFICES ASSUME NEW i \in 1..Len(rest) PROVE rest[i] \in Range(q)
    BY <1>1, <1>5 DEF Range
  <2>1. i + n \in 1..Len(q) /\ rest[i] = q[i + n]
    BY <1>1, <1>4
  <2> QED  BY <2>1, <1>5 DEF Range
<1>12. Range(more) \subseteq Range(q) \cup Range(r)
  <2> SUFFICES ASSUME NEW j \in 1..Len(more) PROVE more[j] \in Range(q) \cup Range(r)
    BY <1>3, <1>5 DEF Range
  <2>1. CASE j <= Len(r)
    <3>1. j \in 1..Len(r) /\ more[j] = r[j]
      BY <2>1, <1>3, <1>4
    <3> QED  BY <3>1, <1>5 DEF Range
  <2>2. CASE ~(j <= Len(r))
    BY <2>2, <1>d, <1>5 DEF Range
  <2> QED  BY <2>1, <2>2
<1>13. Range(q) \subseteq Range(rest) \cup Range(more)
  <2> SUFFICES ASSUME NEW i \in 1..Len(q)
               PROVE  q[i] \in Range(rest) \cup Range(more)
    BY <1>5 DEF Range
  <2>1. CASE i <= n
    <3>1. i \in 1..n
      BY <2>1, <1>4
    <3> QED  BY <3>1, <1>c, <1>3, <1>5 DEF Range
  <2>2. CASE ~(i <= n)
    <3>1. i - n \in 1..Len(rest) /\ (i - n) + n = i
      BY <2>2, <1>1, <1>4
    <3>2. rest[i - n] = q[i]
      BY <3>1, <1>1
    <3> QED  BY <3>1, <3>2, <1>1, <1>5 DEF Range
  <2> QED  BY <2>1, <2>2
<1>14. Range(rest) \cup Range(more) = Range(q) \cup Range(r)
  BY <1>10, <1>11, <1>12, <1>13
<1> QED  BY <1>1, <1>3, <1>7, <1>8, <1>9, <1>10, <1>14 DEF rest, more, head

-----------------------------------------------------------------------------

\* Appending a new element keeps a sequence free of duplicates.
LEMMA AppendOnce ==
    ASSUME NEW S, NEW q \in Seq(S), NEW e \in S, IsInjective(q), e \notin Range(q)
    PROVE  /\ Append(q, e) \in Seq(S)
           /\ IsInjective(Append(q, e))
           /\ Range(Append(q, e)) = Range(q) \cup {e}
<1>1. /\ Append(q, e) \in Seq(S) /\ Len(Append(q, e)) = Len(q) + 1
      /\ \A i \in 1..Len(q) : Append(q, e)[i] = q[i]
      /\ Append(q, e)[Len(q) + 1] = e
  OBVIOUS
<1>2. Len(q) \in Nat /\ DOMAIN q = 1..Len(q) /\ DOMAIN Append(q, e) = 1..(Len(q) + 1)
  BY <1>1
<1>3. \A i \in 1..(Len(q) + 1) : i \in 1..Len(q) \/ i = Len(q) + 1
  BY <1>2
<1>4. \A i \in 1..Len(q) : i \in 1..(Len(q) + 1) /\ q[i] # e
  BY <1>2 DEF Range
<1>5. Len(q) + 1 \in 1..(Len(q) + 1)
  BY <1>2
<1>6. IsInjective(Append(q, e))
  BY <1>1, <1>2, <1>3, <1>4 DEF IsInjective
<1>7. Range(Append(q, e)) = Range(q) \cup {e}
  BY <1>1, <1>2, <1>3, <1>4, <1>5 DEF Range
<1> QED  BY <1>1, <1>6, <1>7

\* Taking the head of a duplicate-free sequence removes exactly that element.
LEMMA TakeHead ==
    ASSUME NEW S, NEW q \in Seq(S), q # <<>>, IsInjective(q)
    PROVE  /\ Head(q) \in S /\ Tail(q) \in Seq(S) /\ IsInjective(Tail(q))
           /\ Range(q) = Range(Tail(q)) \cup {Head(q)}
           /\ Head(q) \notin Range(Tail(q))
           /\ Len(q) = Len(Tail(q)) + 1 /\ Len(Tail(q)) \in Nat
<1>1. /\ Head(q) \in S /\ Tail(q) \in Seq(S) /\ Len(Tail(q)) = Len(q) - 1
      /\ \A i \in 1..Len(Tail(q)) : Tail(q)[i] = q[i + 1]
  OBVIOUS
<1>2. Head(q) = q[1]
  OBVIOUS
<1>3. /\ Len(q) \in Nat /\ Len(Tail(q)) \in Nat /\ DOMAIN q = 1..Len(q)
      /\ DOMAIN Tail(q) = 1..Len(Tail(q)) /\ Len(q) = Len(Tail(q)) + 1
  BY <1>1
<1>4. \A i \in 1..Len(Tail(q)) : i + 1 \in 1..Len(q) /\ i + 1 # 1
  BY <1>3
<1>5. \A i \in 1..Len(q) : i = 1 \/ \E j \in 1..Len(Tail(q)) : i = j + 1
  <2> SUFFICES ASSUME NEW i \in 1..Len(q), i # 1
               PROVE  \E j \in 1..Len(Tail(q)) : i = j + 1
    OBVIOUS
  <2>1. i - 1 \in 1..Len(Tail(q)) /\ i = (i - 1) + 1
    BY <1>3
  <2> QED  BY <2>1
<1>6. 1 \in 1..Len(q)
  BY <1>3
<1>7. IsInjective(Tail(q))
  <2> SUFFICES ASSUME NEW i \in 1..Len(Tail(q)), NEW j \in 1..Len(Tail(q)),
                      Tail(q)[i] = Tail(q)[j]
               PROVE  i = j
    BY <1>3 DEF IsInjective
  <2>1. i + 1 = j + 1
    BY <1>1, <1>3, <1>4 DEF IsInjective
  <2> QED  BY <2>1
<1>8. Range(q) = Range(Tail(q)) \cup {Head(q)}
  <2>1. Head(q) \in Range(q)
    BY <1>2, <1>3, <1>6 DEF Range
  <2>2. ASSUME NEW i \in 1..Len(Tail(q)) PROVE Tail(q)[i] \in Range(q)
    BY <1>1, <1>3, <1>4 DEF Range
  <2>3. ASSUME NEW j \in 1..Len(Tail(q)) PROVE q[j + 1] \in Range(Tail(q))
    <3>1. q[j + 1] = Tail(q)[j]
      BY <1>1
    <3> QED  BY <3>1, <1>3 DEF Range
  <2>4. ASSUME NEW i \in 1..Len(q) PROVE q[i] \in Range(Tail(q)) \cup {Head(q)}
    <3>1. CASE i = 1
      BY <3>1, <1>2
    <3>2. CASE i # 1
      <4>1. PICK j \in 1..Len(Tail(q)) : i = j + 1
        BY <3>2, <1>5
      <4> QED  BY <4>1, <2>3
    <3> QED  BY <3>1, <3>2
  <2>5. Range(Tail(q)) \subseteq Range(q)
    BY <2>2, <1>3 DEF Range
  <2>6. Range(q) \subseteq Range(Tail(q)) \cup {Head(q)}
    BY <2>4, <1>3 DEF Range
  <2> QED  BY <2>1, <2>5, <2>6
<1>9. Head(q) \notin Range(Tail(q))
  BY <1>1, <1>2, <1>3, <1>4, <1>6 DEF Range, IsInjective
<1> QED  BY <1>1, <1>3, <1>7, <1>8, <1>9

\* pump() keeps every task of the queue it is given and of the ready ones,
\* counts the ones it admits, and leaves no executor idle.
LEMMA PumpKeeps ==
    ASSUME NEW st \in States, NEW q \in Seq(Tasks), NEW a \in Nat, NEW limit \in Nat \ {0},
           ready \in Seq(Tasks), IsInjective(q), IsInjective(ready),
           Range(q) \cap Range(ready) = {},
           pump(st, q, a, limit)
    PROVE  /\ queue' \in Seq(Tasks) /\ ready' \in Seq(Tasks)
           /\ IsInjective(queue') /\ IsInjective(ready')
           /\ Range(queue') \cap Range(ready') = {}
           /\ Range(queue') \cup Range(ready') = Range(q) \cup Range(ready)
           /\ Range(ready) \subseteq Range(ready')
           /\ active' \in Nat /\ active' >= a
           /\ active' = a + (Len(ready') - Len(ready))
           /\ state' \in States
           /\ st \in {"running", "stopping"} /\ queue' # <<>> => active' >= limit
           /\ active' > a => active' <= limit
           /\ active' = a => ready' = ready
           /\ state' = IF st = "stopping" /\ active' = 0 THEN "stopped" ELSE st
           /\ st \in {"created", "stopped"} => queue' = q /\ ready' = ready /\ active' = a
           /\ st = "stopping" /\ active' = 0 => queue' = <<>>
<1> DEFINE n == Room(st, q, a, limit)
<1>1. Len(q) \in Nat /\ Len(ready) \in Nat
  OBVIOUS
<1>2. n \in 0..Len(q)
  BY <1>1 DEF Room
<1>3. /\ queue' = SubSeq(q, n + 1, Len(q))
      /\ ready' = ready \o SubSeq(q, 1, n)
      /\ active' = a + n
      /\ state' = finishDrainIfIdle(st, queue', active')
  BY DEF pump
<1>4. st \in {"created", "stopped"} => n = 0
  BY DEF Room
<1>5. st \in {"running", "stopping"} => n = Len(q) \/ a + n >= limit
  BY <1>1 DEF Room
<1>6. n > 0 => a + n <= limit
  BY <1>1 DEF Room
<1> HIDE DEF n
<1>7. /\ queue' \in Seq(Tasks) /\ ready' \in Seq(Tasks)
      /\ IsInjective(queue') /\ IsInjective(ready')
      /\ Range(queue') \cap Range(ready') = {}
      /\ Range(queue') \cup Range(ready') = Range(q) \cup Range(ready)
      /\ Range(ready) \subseteq Range(ready')
      /\ Len(queue') = Len(q) - n
      /\ Len(ready') = Len(ready) + n
  BY <1>2, <1>3, MovePrefix
<1>8. queue' = <<>> <=> Len(queue') = 0
  BY <1>7
<1>9. st \in {"running", "stopping"} /\ queue' # <<>> => active' >= limit
  BY <1>1, <1>2, <1>3, <1>5, <1>7, <1>8
<1>10. st = "stopping" /\ active' = 0 => queue' = <<>>
  BY <1>9
<1>11. state' = IF st = "stopping" /\ active' = 0 THEN "stopped" ELSE st
  BY <1>3, <1>10 DEF finishDrainIfIdle
<1>12. st \in {"created", "stopped"} => queue' = q /\ ready' = ready /\ active' = a
  <2> SUFFICES ASSUME st \in {"created", "stopped"}
               PROVE  queue' = q /\ ready' = ready /\ active' = a
    OBVIOUS
  <2>1. n = 0
    BY <1>4
  <2>2. queue' = q
    BY <1>3, <2>1, WholeSeq
  <2>3. ready' = ready
    BY <1>3, <2>1, WholeSeq
  <2> QED  BY <2>1, <2>2, <2>3, <1>3
<1>13. active' \in Nat /\ active' >= a /\ active' = a + (Len(ready') - Len(ready))
  <2>1. n \in Nat
    BY <1>1, <1>2
  <2>2. Len(ready') - Len(ready) = n
    BY <2>1, <1>1, <1>7
  <2>3. active' = a + n
    BY <1>3
  <2> QED  BY <2>1, <2>2, <2>3
<1>14. state' \in States
  BY <1>11 DEF States
<1>15. active' > a => active' <= limit
  BY <1>1, <1>2, <1>3, <1>6
<1>16. active' = a => ready' = ready
  <2> SUFFICES ASSUME active' = a PROVE ready' = ready
    OBVIOUS
  <2>1. n = 0
    BY <1>1, <1>2, <1>3
  <2> QED  BY <1>3, <2>1, WholeSeq
<1> QED  BY <1>7, <1>9, <1>10, <1>11, <1>12, <1>13, <1>14, <1>15, <1>16

\* A step that ends with pump() preserves the invariant when the queue q it
\* pumps from, the ready tasks and the new sets account for every task.
LEMMA PumpPreserves ==
    ASSUME TypeOK, TasksAccounted,
           NEW st \in States, NEW q \in Seq(Tasks), NEW a \in Nat,
           executorsCount' \in Nat \ {0},
           pump(st, q, a, executorsCount'),
           executing' \in SUBSET Tasks, finished' \in SUBSET Tasks,
           accepted' \in Seq(Tasks), rejected' \in SUBSET Tasks,
           expired' \in SUBSET Contexts, aborted' \in SUBSET Contexts,
           stops' \in [Stoppers -> {"idle", "waiting", "drained", "failed"}],
           \A s \in Stoppers : stops'[s] = "drained" => state' = "stopped",
           IsInjective(q), IsInjective(accepted'),
           Range(q) \cap Range(ready) = {},
           (Range(q) \cup Range(ready)) \cap executing' = {},
           finished' \cap (Range(q) \cup Range(ready) \cup executing') = {},
           rejected' \cap Range(accepted') = {},
           Range(accepted') = Range(q) \cup Range(ready) \cup executing' \cup finished',
           a = Len(ready) + Cardinality(executing'),
           st = "created" => a = 0,
           st = "stopped" => a = 0 /\ q = <<>>
    PROVE  PoolInv'
<1>1. ready \in Seq(Tasks) /\ IsInjective(ready)
  BY DEF TypeOK, TasksAccounted
<1>2. /\ queue' \in Seq(Tasks) /\ ready' \in Seq(Tasks)
      /\ IsInjective(queue') /\ IsInjective(ready')
      /\ Range(queue') \cap Range(ready') = {}
      /\ Range(queue') \cup Range(ready') = Range(q) \cup Range(ready)
      /\ active' \in Nat /\ active' >= a
      /\ active' = a + (Len(ready') - Len(ready))
      /\ state' \in States
      /\ st \in {"running", "stopping"} /\ queue' # <<>> => active' >= executorsCount'
      /\ state' = IF st = "stopping" /\ active' = 0 THEN "stopped" ELSE st
      /\ st \in {"created", "stopped"} => queue' = q /\ ready' = ready /\ active' = a
      /\ st = "stopping" /\ active' = 0 => queue' = <<>>
  BY <1>1, PumpKeeps
<1>3. TypeOK'
  BY <1>2 DEF TypeOK
<1>4. active' = Len(ready') + Cardinality(executing')
  <2>1. IsFiniteSet(executing')
    BY PoolAssumption, FS_Subset
  <2>2. Cardinality(executing') \in Nat
    BY <2>1, FS_CardinalityType
  <2>3. Len(ready) \in Nat /\ Len(ready') \in Nat
    BY <1>1, <1>2
  <2>4. active' = a + (Len(ready') - Len(ready))
    BY <1>2
  <2> QED  BY <2>2, <2>3, <2>4
<1>5. TasksAccounted'
  <2>1. /\ Range(queue') \cap (Range(ready') \cup executing') = {}
        /\ Range(ready') \cap executing' = {}
        /\ finished' \cap (Range(queue') \cup Range(ready') \cup executing') = {}
        /\ Range(accepted') = Range(queue') \cup Range(ready') \cup executing' \cup finished'
    BY <1>2
  <2> QED  BY <1>2, <1>4, <2>1 DEF TasksAccounted, Admitted
<1>6. NoIdleExecutor'
  BY <1>2 DEF NoIdleExecutor, States
<1>7. state' = "created" => active' = 0
  BY <1>2 DEF States
<1>8. state' = "stopped" => active' = 0 /\ queue' = <<>>
  BY <1>2 DEF States
<1> QED  BY <1>3, <1>5, <1>6, <1>7, <1>8 DEF PoolInv

-----------------------------------------------------------------------------

\* The facts about the current state that PumpPreserves asks for.
LEMMA InvFacts ==
    ASSUME PoolInv
    PROVE  /\ state \in States /\ active \in Nat /\ executorsCount \in Nat \ {0}
           /\ queue \in Seq(Tasks) /\ ready \in Seq(Tasks) /\ accepted \in Seq(Tasks)
           /\ IsInjective(queue) /\ IsInjective(ready) /\ IsInjective(accepted)
           /\ Range(queue) \cap Range(ready) = {}
           /\ (Range(queue) \cup Range(ready)) \cap executing = {}
           /\ finished \cap (Range(queue) \cup Range(ready) \cup executing) = {}
           /\ rejected \cap Range(accepted) = {}
           /\ Range(accepted) = Range(queue) \cup Range(ready) \cup executing \cup finished
           /\ active = Len(ready) + Cardinality(executing)
           /\ executing \in SUBSET Tasks /\ finished \in SUBSET Tasks
           /\ rejected \in SUBSET Tasks
           /\ expired \in SUBSET Contexts /\ aborted \in SUBSET Contexts
           /\ stops \in [Stoppers -> {"idle", "waiting", "drained", "failed"}]
           /\ state = "created" => active = 0
           /\ state = "stopped" => active = 0 /\ queue = <<>>
           /\ \A s \in Stoppers : stops[s] = "drained" => state = "stopped"
BY DEF PoolInv, TypeOK, TasksAccounted, Admitted

\* The constructor establishes the invariant.
LEMMA InitEstablishes ==
    ASSUME CoreInit
    PROVE  PoolInv
<1>1. \A n \in Counts : normalizeExecutorsCount(n) \in Nat \ {0}
  BY PoolAssumption DEF normalizeExecutorsCount
<1>2. TypeOK
  BY <1>1 DEF CoreInit, TypeOK, States
<1>3. Range(<<>>) = {} /\ IsInjective(<<>>) /\ Len(<<>>) = 0
  BY DEF Range, IsInjective
<1>4. Cardinality({}) = 0
  BY FS_EmptySet
<1>5. TasksAccounted
  BY <1>3, <1>4 DEF CoreInit, TasksAccounted, Admitted
<1> QED  BY <1>2, <1>5 DEF CoreInit, PoolInv, NoIdleExecutor

\* start() preserves the invariant.
LEMMA StartPreserves ==
    ASSUME PoolInv, Start
    PROVE  PoolInv'
<1>1. /\ pump("running", queue, active, executorsCount') /\ executorsCount' = executorsCount
      /\ state = "created"
      /\ UNCHANGED <<executing, finished, expired, aborted, accepted, rejected, stops>>
  BY DEF Start
<1>2. \A s \in Stoppers : stops'[s] # "drained"
  BY <1>1, InvFacts
<1> QED  BY <1>1, <1>2, InvFacts, PumpPreserves DEF PoolInv, States

\* resize() preserves the invariant.
LEMMA ResizePreserves ==
    ASSUME PoolInv, NEW n \in Counts, Resize(n)
    PROVE  PoolInv'
<1>1. executorsCount' \in Nat \ {0}
  BY PoolAssumption DEF Resize, normalizeExecutorsCount
<1>2. /\ pump(state, queue, active, executorsCount')
      /\ state \in {"created", "running"}
      /\ UNCHANGED <<executing, finished, expired, aborted, accepted, rejected, stops>>
  BY DEF Resize
<1>3. \A s \in Stoppers : stops'[s] # "drained"
  BY <1>2, InvFacts
<1> QED  BY <1>1, <1>2, <1>3, InvFacts, PumpPreserves DEF PoolInv

\* addTask() preserves the invariant when it adds the task to the queue once.
LEMMA AcceptPreserves ==
    ASSUME PoolInv, NEW t \in Tasks, NEW q \in Seq(Tasks), Accept(t, q),
           IsInjective(q), Range(q) = Range(queue) \cup {t}
    PROVE  PoolInv'
<1>1. /\ pump(state, q, active, executorsCount') /\ executorsCount' = executorsCount
      /\ state \in {"created", "running"}
      /\ t \notin Range(accepted) /\ t \notin rejected
      /\ accepted' = Append(accepted, t)
      /\ UNCHANGED <<executing, finished, expired, aborted, rejected, stops>>
  BY DEF Accept
<1>2. \A s \in Stoppers : stops'[s] # "drained"
  BY <1>1, InvFacts
<1>3. /\ accepted' \in Seq(Tasks) /\ IsInjective(accepted')
      /\ Range(accepted') = Range(accepted) \cup {t}
  BY <1>1, InvFacts, AppendOnce
<1>4. t \notin Range(queue) \cup Range(ready) \cup executing \cup finished
  BY <1>1, InvFacts
<1>5. /\ Range(q) \cap Range(ready) = {}
      /\ (Range(q) \cup Range(ready)) \cap executing' = {}
      /\ finished' \cap (Range(q) \cup Range(ready) \cup executing') = {}
      /\ rejected' \cap Range(accepted') = {}
      /\ Range(accepted') = Range(q) \cup Range(ready) \cup executing' \cup finished'
  BY <1>1, <1>3, <1>4, InvFacts
<1>6. TypeOK /\ TasksAccounted
  BY DEF PoolInv
<1> QED  BY <1>1, <1>2, <1>3, <1>5, <1>6, InvFacts, PumpPreserves

\* addTask() that throws preserves the invariant.
LEMMA RejectPreserves ==
    ASSUME PoolInv, NEW t \in Tasks, Reject(t)
    PROVE  PoolInv'
BY DEF Reject, PoolInv, TypeOK, TasksAccounted, Admitted, NoIdleExecutor

\* run() preserves the invariant.
LEMMA RunPreserves ==
    ASSUME PoolInv, Run
    PROVE  PoolInv'
<1> DEFINE t == Head(ready)
<1>1. /\ ready # <<>> /\ ready' = Tail(ready) /\ executing' = executing \cup {t}
      /\ UNCHANGED <<state, queue, finished, active, executorsCount, expired,
                     aborted, accepted, rejected, stops>>
  BY DEF Run
<1>2. /\ t \in Tasks /\ ready' \in Seq(Tasks) /\ IsInjective(ready')
      /\ Range(ready) = Range(ready') \cup {t} /\ t \notin Range(ready')
      /\ Len(ready) = Len(ready') + 1 /\ Len(ready') \in Nat
  BY <1>1, InvFacts, TakeHead
<1> HIDE DEF t
<1>3. t \notin executing
  BY <1>2, InvFacts
<1>4. /\ Cardinality(executing') = Cardinality(executing) + 1
      /\ Cardinality(executing) \in Nat
  <2>1. IsFiniteSet(executing)
    BY InvFacts, PoolAssumption, FS_Subset
  <2> QED  BY <1>1, <1>3, <2>1, FS_AddElement, FS_CardinalityType
<1>5. active' = Len(ready') + Cardinality(executing')
  BY <1>1, <1>2, <1>4, InvFacts
<1>6. TypeOK'
  BY <1>1, <1>2 DEF PoolInv, TypeOK
<1>7. TasksAccounted'
  <2>1. /\ Range(queue') \cap (Range(ready') \cup executing') = {}
        /\ Range(ready') \cap executing' = {}
        /\ finished' \cap (Range(queue') \cup Range(ready') \cup executing') = {}
        /\ rejected' \cap Range(accepted') = {}
        /\ Range(accepted') = Range(queue') \cup Range(ready') \cup executing' \cup finished'
    BY <1>1, <1>2, <1>3, InvFacts
  <2> QED  BY <1>1, <1>2, <1>5, <2>1, InvFacts DEF TasksAccounted, Admitted
<1> QED  BY <1>1, <1>6, <1>7 DEF PoolInv, NoIdleExecutor

\* taskFinished() preserves the invariant.
LEMMA FinishPreserves ==
    ASSUME PoolInv, NEW t \in Tasks, Finish(t)
    PROVE  PoolInv'
<1>1. /\ t \in executing /\ executing' = executing \ {t} /\ finished' = finished \cup {t}
      /\ pump(state, queue, active - 1, executorsCount') /\ executorsCount' = executorsCount
      /\ UNCHANGED <<expired, aborted, accepted, rejected, stops>>
  BY DEF Finish
<1>2. /\ Cardinality(executing') = Cardinality(executing) - 1
      /\ Cardinality(executing) \in Nat /\ Cardinality(executing) # 0
  <2>1. IsFiniteSet(executing)
    BY InvFacts, PoolAssumption, FS_Subset
  <2>2. Cardinality(executing) # 0
    BY <1>1, <2>1, FS_EmptySet
  <2> QED  BY <1>1, <2>1, <2>2, FS_RemoveElement, FS_CardinalityType
<1>3. Len(ready) \in Nat
  BY InvFacts
<1>4. /\ active - 1 \in Nat /\ active # 0
      /\ active - 1 = Len(ready) + Cardinality(executing')
  <2>1. active = Len(ready) + Cardinality(executing)
    BY InvFacts
  <2> QED  BY <1>2, <1>3, <2>1
<1>5. state \notin {"created", "stopped"}
  BY <1>4, InvFacts
<1>6. \A s \in Stoppers : stops'[s] # "drained"
  BY <1>1, <1>5, InvFacts
<1>7. /\ (Range(queue) \cup Range(ready)) \cap executing' = {}
      /\ finished' \cap (Range(queue) \cup Range(ready) \cup executing') = {}
      /\ Range(accepted') = Range(queue) \cup Range(ready) \cup executing' \cup finished'
  BY <1>1, InvFacts
<1>8. TypeOK /\ TasksAccounted
  BY DEF PoolInv
<1> QED  BY <1>1, <1>4, <1>5, <1>6, <1>7, <1>8, InvFacts, PumpPreserves

\* The firing of a signal preserves the invariant when the cancel() callbacks
\* only rearrange the queue.
LEMMA FirePreserves ==
    ASSUME PoolInv, NEW c \in Contexts, NEW q \in Seq(Tasks), Fire(c, q),
           IsInjective(q), Range(q) = Range(queue), queue = <<>> => q = <<>>
    PROVE  PoolInv'
<1>1. /\ pump(state, q, active, executorsCount') /\ executorsCount' = executorsCount
      /\ aborted' = aborted \cup {c}
      /\ UNCHANGED <<executing, finished, expired, accepted, rejected, stops>>
  BY DEF Fire
<1>2. \A s \in Stoppers : stops'[s] = "drained" => state' = "stopped"
  <2> SUFFICES ASSUME state = "stopped" PROVE state' = "stopped"
    BY <1>1, InvFacts
  <2> QED  BY <1>1 DEF pump, finishDrainIfIdle
<1>3. TypeOK /\ TasksAccounted
  BY DEF PoolInv
<1> QED  BY <1>1, <1>2, <1>3, InvFacts, PumpPreserves

\* stop() preserves the invariant, whether it is the first call or not.
LEMMA StopPreserves ==
    ASSUME PoolInv, NEW s \in Stoppers, Stop(s)
    PROVE  PoolInv'
<1>1. /\ stops' = [stops EXCEPT ![s] = IF state' = "stopped" THEN "drained" ELSE "waiting"]
      /\ UNCHANGED <<executing, finished, executorsCount, expired, aborted, accepted,
                     rejected>>
  BY DEF Stop
<1>2. stops' \in [Stoppers -> {"idle", "waiting", "drained", "failed"}]
  BY <1>1, InvFacts
<1>3. TypeOK /\ TasksAccounted
  BY DEF PoolInv
<1>4. CASE state \in {"created", "running"}
  <2>1. pump("stopping", queue, active, executorsCount')
    BY <1>1, <1>4 DEF Stop
  <2>2. \A r \in Stoppers : stops'[r] = "drained" => state' = "stopped"
    BY <1>1, <1>4, InvFacts
  <2> QED  BY <1>1, <1>2, <1>3, <2>1, <2>2, InvFacts, PumpPreserves DEF States
<1>5. CASE state \notin {"created", "running"}
  <2>1. UNCHANGED <<state, queue, ready, active>>
    BY <1>5 DEF Stop
  <2>2. \A r \in Stoppers : stops'[r] = "drained" => state' = "stopped"
    BY <1>1, <2>1, InvFacts
  <2> QED
    BY <1>1, <1>2, <2>1, <2>2 DEF PoolInv, TypeOK, TasksAccounted, Admitted, NoIdleExecutor
<1> QED  BY <1>4, <1>5

\* Every step the disciplines share preserves the invariant.
LEMMA CorePreserves ==
    ASSUME PoolInv, CoreNext
    PROVE  PoolInv'
<1>1. ASSUME NEW c \in Contexts, Expire(c) PROVE PoolInv'
  BY <1>1 DEF Expire, taskVars, PoolInv, TypeOK, TasksAccounted, Admitted, NoIdleExecutor
<1>2. ASSUME NEW s \in Stoppers, StopReturns(s) PROVE PoolInv'
  BY <1>2
  DEF StopReturns, taskVars, PoolInv, TypeOK, TasksAccounted, Admitted, NoIdleExecutor
<1>3. ASSUME NEW s \in Stoppers, StopTimesOut(s) PROVE PoolInv'
  BY <1>3
  DEF StopTimesOut, taskVars, PoolInv, TypeOK, TasksAccounted, Admitted, NoIdleExecutor
<1> QED
  BY <1>1, <1>2, <1>3, StartPreserves, ResizePreserves, RejectPreserves, RunPreserves,
     FinishPreserves, StopPreserves
  DEF CoreNext

\* Stuttering preserves it.
LEMMA StutterPreserves ==
    ASSUME PoolInv, UNCHANGED vars
    PROVE  PoolInv'
BY DEF vars, taskVars, PoolInv, TypeOK, TasksAccounted, Admitted, NoIdleExecutor

\* A drained pool, and a stop() that returned normally, has settled all it took.
LEMMA InvImpliesDrainedMeansDone == PoolInv => DrainedMeansDone
<1> SUFFICES ASSUME PoolInv, state = "stopped"
             PROVE  Range(accepted) = finished
  BY InvFacts DEF DrainedMeansDone
<1>1. active = 0 /\ queue = <<>>
  BY InvFacts
<1>2. IsFiniteSet(executing)
  BY InvFacts, PoolAssumption, FS_Subset
<1>3. Cardinality(executing) \in Nat /\ Len(ready) \in Nat
  BY <1>2, InvFacts, FS_CardinalityType
<1>4. active = Len(ready) + Cardinality(executing)
  BY InvFacts
<1>5. Cardinality(executing) = 0 /\ Len(ready) = 0
  BY <1>1, <1>3, <1>4
<1>6. executing = {} /\ ready = <<>>
  BY <1>2, <1>5, InvFacts, FS_EmptySet
<1>7. Range(<<>>) = {}
  BY DEF Range
<1> QED  BY <1>1, <1>6, <1>7, InvFacts

\* Rearranging a duplicate-free sequence by a bijection of its positions
\* keeps its elements, as moveToFront and the heap's fix do.
LEMMA PermutedQueue ==
    ASSUME NEW S, NEW q \in Seq(S), IsInjective(q),
           NEW p \in Bijection(1..Len(q), 1..Len(q))
    PROVE  LET r == [i \in 1..Len(q) |-> q[p[i]]]
           IN  /\ r \in Seq(S) /\ IsInjective(r) /\ Range(r) = Range(q)
               /\ q = <<>> => r = <<>>
<1> DEFINE r == [i \in 1..Len(q) |-> q[p[i]]]
<1>1. Len(q) \in Nat /\ DOMAIN q = 1..Len(q) /\ \A i \in 1..Len(q) : q[i] \in S
  OBVIOUS
<1>2. /\ \A i \in 1..Len(q) : p[i] \in 1..Len(q)
      /\ \A i, j \in 1..Len(q) : p[i] = p[j] => i = j
      /\ \A j \in 1..Len(q) : \E i \in 1..Len(q) : p[i] = j
  BY DEF Bijection, Injection, Surjection, IsInjective
<1>3. DOMAIN r = 1..Len(q) /\ \A i \in 1..Len(q) : r[i] = q[p[i]]
  OBVIOUS
<1>4. r \in Seq(S) /\ Len(r) = Len(q)
  BY <1>1, <1>2
<1>5. IsInjective(r)
  <2>1. ASSUME NEW i \in 1..Len(q), NEW j \in 1..Len(q), r[i] = r[j] PROVE i = j
    <3>1. q[p[i]] = q[p[j]] /\ p[i] \in DOMAIN q /\ p[j] \in DOMAIN q
      BY <1>1, <1>2, <1>3, <2>1
    <3>2. p[i] = p[j]
      BY <3>1 DEF IsInjective
    <3> QED  BY <1>2, <3>2
  <2> QED  BY <1>3, <2>1 DEF IsInjective
<1>6. Range(r) = Range(q)
  <2>1. ASSUME NEW x \in Range(r) PROVE x \in Range(q)
    <3>1. PICK i \in 1..Len(q) : x = q[p[i]]
      BY <1>3, <2>1 DEF Range
    <3> QED  BY <1>1, <1>2, <3>1 DEF Range
  <2>2. ASSUME NEW x \in Range(q) PROVE x \in Range(r)
    <3>1. PICK j \in 1..Len(q) : x = q[j]
      BY <1>1, <2>2 DEF Range
    <3>2. PICK i \in 1..Len(q) : p[i] = j
      BY <1>2
    <3>3. i \in DOMAIN r /\ x = r[i]
      BY <1>3, <3>1, <3>2
    <3> QED  BY <3>3 DEF Range
  <2> QED  BY <2>1, <2>2
<1>7. q = <<>> => r = <<>>
  BY <1>4
<1> QED  BY <1>4, <1>5, <1>6, <1>7

(***************************************************************************)
(* The refinement: every step that the pools share is a step of DrainPool, *)
(* and no step admits work beyond executorsCount.                          *)
(***************************************************************************)


\* A duplicate-free sequence has as many elements as positions.
LEMMA InjectiveLength ==
    ASSUME NEW S, NEW q \in Seq(S), IsInjective(q)
    PROVE  IsFiniteSet(Range(q)) /\ Cardinality(Range(q)) = Len(q)
<1>1. Len(q) \in Nat /\ q \in [1..Len(q) -> S] /\ DOMAIN q = 1..Len(q)
  OBVIOUS
<1>2. q \in Bijection(1..Len(q), Range(q))
  BY <1>1 DEF Bijection, Injection, Surjection, IsInjective, Range
<1>3. IsFiniteSet(1..Len(q)) /\ Cardinality(1..Len(q)) = Len(q)
  BY <1>1, FS_Interval
<1> QED  BY <1>2, <1>3, FS_Bijection DEF ExistsBijection

\* #active is the number of admitted callbacks.
LEMMA ActiveCounts == PoolInv => Cardinality(Admitted) = active
<1> SUFFICES ASSUME PoolInv PROVE Cardinality(Admitted) = active
  OBVIOUS
<1>1. IsFiniteSet(Range(ready)) /\ Cardinality(Range(ready)) = Len(ready)
  BY InvFacts, InjectiveLength
<1>2. IsFiniteSet(executing)
  BY InvFacts, PoolAssumption, FS_Subset
<1>3. Range(ready) \cap executing = {}
  BY InvFacts
<1>4. /\ IsFiniteSet(Range(ready) \cup executing)
      /\ Cardinality(Range(ready) \cup executing)
            = Cardinality(Range(ready)) + Cardinality(executing)
              - Cardinality(Range(ready) \cap executing)
  BY <1>1, <1>2, FS_Union
<1>5. Cardinality(Range(ready) \cap executing) = 0
  BY <1>3, FS_EmptySet
<1>6. Cardinality(executing) \in Nat /\ Len(ready) \in Nat
  BY <1>2, FS_CardinalityType, InvFacts
<1>7. Cardinality(Range(ready) \cup executing) = Len(ready) + Cardinality(executing)
  BY <1>1, <1>4, <1>5, <1>6
<1> QED  BY <1>4, <1>7, InvFacts DEF Admitted

-----------------------------------------------------------------------------

\* The part of the invariant after a step that the refinement needs.
LEMMA StartedIsAccepted ==
    ASSUME PoolInv'
    PROVE  /\ (Admitted \cup finished)' \subseteq Range(accepted)'
           /\ (Admitted \cup finished)' \ finished' = Admitted'
           /\ Cardinality(Admitted') = active'
<1>1. TasksAccounted' /\ TypeOK'
  BY DEF PoolInv
<1>2. (PoolInv => Cardinality(Admitted) = active)'
  BY ActiveCounts, PTL
<1> QED  BY <1>1, <1>2 DEF TasksAccounted

\* pump() starts work only as DrainPool allows.
LEMMA PumpAdmits ==
    ASSUME PoolInv, PoolInv',
           NEW st \in States, NEW q \in Seq(Tasks), NEW a \in Nat,
           pump(st, q, a, executorsCount'),
           IsInjective(q), Range(q) \cap Range(ready) = {},
           executing' \subseteq executing, finished \subseteq finished',
           executing \cup finished = executing' \cup finished'
    PROVE  /\ Promise!Admit
           /\ Admitted' \ Admitted # {} => active' <= executorsCount'
<1>1. ready \in Seq(Tasks) /\ IsInjective(ready) /\ executorsCount' \in Nat \ {0}
  BY DEF PoolInv, TypeOK, TasksAccounted
<1>2. /\ Range(ready) \subseteq Range(ready')
      /\ active' \in Nat /\ active' >= a
      /\ active' > a => active' <= executorsCount'
      /\ active' = a => ready' = ready
  BY <1>1, PumpKeeps
<1>3. Admitted' = Range(ready') \cup executing' /\ Admitted = Range(ready) \cup executing
  BY DEF Admitted
<1>4. CASE active' = a
  <2>1. ready' = ready
    BY <1>2, <1>4
  <2>2. Admitted' \subseteq Admitted /\ Admitted' \cup finished' = Admitted \cup finished
    BY <1>3, <2>1
  <2> QED  BY <2>2, StartedIsAccepted DEF Promise!Admit
<1>5. CASE active' > a
  <2>1. active' <= executorsCount'
    BY <1>2, <1>5
  <2>2. Admitted \cup finished \subseteq Admitted' \cup finished'
    BY <1>2, <1>3
  <2>3. Cardinality((Admitted' \cup finished') \ finished') <= executorsCount'
    BY <2>1, StartedIsAccepted
  <2>4. Admitted' \cup finished' \subseteq Range(accepted')
    BY StartedIsAccepted
  <2> QED
    BY <2>1, <2>2, <2>3, <2>4 DEF Promise!Admit, Promise!Cardinality, Cardinality
<1> QED  BY <1>2, <1>4, <1>5

\* The pool is drained exactly when it is closing and everything has settled.
LEMMA DrainedIffDone ==
    ASSUME PoolInv', state' \in {"stopping", "stopped"}
    PROVE  (state' = "stopped") <=> (Range(accepted') = finished')
<1>1. state' = "stopped" => Range(accepted') = finished'
  <2>1. (PoolInv => DrainedMeansDone)'
    BY InvImpliesDrainedMeansDone, PTL
  <2> QED  BY <2>1 DEF DrainedMeansDone
<1>2. ASSUME Range(accepted') = finished' PROVE state' = "stopped"
  <2>1. Admitted' = {}
    BY <1>2 DEF PoolInv, TasksAccounted
  <2>2. active' = 0
    BY <2>1, StartedIsAccepted, FS_EmptySet
  <2> QED  BY <2>2 DEF PoolInv, NoIdleExecutor
<1> QED  BY <1>1, <1>2

-----------------------------------------------------------------------------

\* What a step of the pool may be to DrainPool, and what it may admit.
Refines ==
    /\ Promise!Next \/ UNCHANGED Promise!vars
    /\ Admitted' \ Admitted # {} => active' <= executorsCount'

\* start() and resize() configure an open pool.
LEMMA ConfigureRefines ==
    ASSUME PoolInv, PoolInv', state \in {"created", "running"},
           NEW st \in {"created", "running"}, NEW q \in Seq(Tasks),
           pump(st, q, active, executorsCount'),
           IsInjective(q), Range(q) = Range(queue),
           UNCHANGED <<executing, finished, accepted>>
    PROVE  Refines
<1>1. Range(q) \cap Range(ready) = {} /\ active \in Nat
  BY InvFacts
<1>2. Promise!Admit /\ (Admitted' \ Admitted # {} => active' <= executorsCount')
  BY <1>1, PumpAdmits DEF States
<1>3. state' = st
  BY DEF pump, finishDrainIfIdle
<1>4. executorsCount' \in Nat \ {0}
  BY DEF PoolInv, TypeOK
<1>5. Promise!Configure
  BY <1>2, <1>3, <1>4 DEF Promise!Configure
<1> QED  BY <1>2, <1>5 DEF Refines, Promise!Next

\* A step that keeps the state, the accepted and the started tasks and the
\* limit is invisible.
LEMMA InvisibleRefines ==
    ASSUME state' = state, accepted' = accepted, executorsCount' = executorsCount,
           finished' = finished, Admitted' = Admitted
    PROVE  Refines
BY DEF Refines, Promise!vars

\* run() moves an admitted task from ready to executing.
LEMMA RunRefines ==
    ASSUME PoolInv, Run
    PROVE  Refines
<1>1. Range(ready) = Range(Tail(ready)) \cup {Head(ready)}
  BY InvFacts, TakeHead DEF Run
<1>2. Admitted' = Admitted
  BY <1>1 DEF Run, Admitted
<1> QED  BY <1>2, InvisibleRefines DEF Run

\* A settling callback may let the next ones start or complete the drain.
LEMMA FinishRefines ==
    ASSUME PoolInv, PoolInv', NEW t \in Tasks, Finish(t)
    PROVE  Refines
<1>1. /\ t \in executing /\ executing' = executing \ {t} /\ finished' = finished \cup {t}
      /\ pump(state, queue, active - 1, executorsCount')
      /\ executorsCount' = executorsCount /\ accepted' = accepted
  BY DEF Finish
<1>2. active \in Nat /\ active # 0
  <2>1. t \in Admitted
    BY <1>1 DEF Admitted
  <2>2. Cardinality(Admitted) = active /\ active \in Nat
    BY ActiveCounts, InvFacts
  <2>3. IsFiniteSet(Admitted)
    <3>1. Admitted \subseteq Tasks
      <4>1. Range(ready) \subseteq Tasks
        BY InvFacts DEF Range
      <4> QED  BY <4>1, InvFacts DEF Admitted
    <3> QED  BY <3>1, PoolAssumption, FS_Subset
  <2> QED  BY <2>1, <2>2, <2>3, FS_EmptySet
<1>3. state \in {"running", "stopping"}
  BY <1>2, InvFacts DEF States
<1>4. Promise!Admit /\ (Admitted' \ Admitted # {} => active' <= executorsCount')
  <2>1. active - 1 \in Nat
    BY <1>2
  <2> QED  BY <1>1, <1>3, <2>1, InvFacts, PumpAdmits
<1>5. state' = state \/ (state = "stopping" /\ state' = "stopped")
  BY <1>1 DEF pump, finishDrainIfIdle
<1>6. t \in (Admitted \cup finished) \ finished
  BY <1>1, InvFacts DEF Admitted
<1>7. (state' = "stopped") <=>
        (state \notin {"created", "running"} /\ Range(accepted) = finished')
  <2>1. CASE state = "running"
    BY <2>1, <1>5
  <2>2. CASE state = "stopping"
    BY <2>2, <1>1, <1>5, DrainedIffDone
  <2> QED  BY <1>3, <2>1, <2>2
<1>8. Promise!Finish(t)
  BY <1>1, <1>3, <1>4, <1>5, <1>6, <1>7 DEF Promise!Finish
<1> QED  BY <1>4, <1>8 DEF Refines, Promise!Next

\* The first stop() closes the pool; later ones are invisible.
LEMMA StopRefines ==
    ASSUME PoolInv, PoolInv', NEW s \in Stoppers, Stop(s)
    PROVE  Refines
<1>1. UNCHANGED <<executing, finished, executorsCount, accepted>>
  BY DEF Stop
<1>2. CASE state \in {"created", "running"}
  <2>1. pump("stopping", queue, active, executorsCount')
    BY <1>1, <1>2 DEF Stop
  <2>2. Promise!Admit /\ (Admitted' \ Admitted # {} => active' <= executorsCount')
    BY <1>1, <2>1, InvFacts, PumpAdmits DEF States
  <2>3. state' \in {"stopping", "stopped"}
    BY <2>1 DEF pump, finishDrainIfIdle
  <2>4. (state' = "stopped") <=> (Range(accepted) = finished)
    BY <1>1, <2>3, DrainedIffDone
  <2>5. Promise!Close
    BY <1>1, <1>2, <2>2, <2>3, <2>4 DEF Promise!Close
  <2> QED  BY <2>2, <2>5 DEF Refines, Promise!Next
<1>3. CASE state \notin {"created", "running"}
  <2>1. UNCHANGED <<state, queue, ready, active>>
    BY <1>3 DEF Stop
  <2> QED  BY <1>1, <2>1, InvisibleRefines DEF Admitted
<1> QED  BY <1>2, <1>3

\* addTask() is the acceptance of one task by an open pool.
LEMMA AcceptRefines ==
    ASSUME PoolInv, PoolInv', NEW t \in Tasks, NEW q \in Seq(Tasks), Accept(t, q),
           IsInjective(q), Range(q) = Range(queue) \cup {t}
    PROVE  Refines
<1>1. /\ pump(state, q, active, executorsCount') /\ executorsCount' = executorsCount
      /\ state \in {"created", "running"} /\ t \notin Range(accepted)
      /\ accepted' = Append(accepted, t)
      /\ UNCHANGED <<executing, finished>>
  BY DEF Accept
<1>2. Range(accepted') = Range(accepted) \cup {t}
  BY <1>1, InvFacts, AppendOnce
<1>3. Range(q) \cap Range(ready) = {} /\ active \in Nat
  BY <1>1, InvFacts
<1>4. Promise!Admit /\ (Admitted' \ Admitted # {} => active' <= executorsCount')
  BY <1>1, <1>3, InvFacts, PumpAdmits
<1>5. state' = state
  BY <1>1 DEF pump, finishDrainIfIdle
<1>6. Promise!Accept(t)
  BY <1>1, <1>2, <1>4, <1>5 DEF Promise!Accept
<1> QED  BY <1>4, <1>6 DEF Refines, Promise!Next

\* A cancellation admits nothing in a draining pool: no executor was idle.
LEMMA FireRefines ==
    ASSUME PoolInv, PoolInv', NEW c \in Contexts, NEW q \in Seq(Tasks), Fire(c, q),
           IsInjective(q), Range(q) = Range(queue), queue = <<>> => q = <<>>
    PROVE  Refines
<1>1. /\ pump(state, q, active, executorsCount') /\ executorsCount' = executorsCount
      /\ UNCHANGED <<executing, finished, accepted>>
  BY DEF Fire
<1>2. CASE state \in {"created", "running"}
  BY <1>1, <1>2, ConfigureRefines
<1>3. CASE state \in {"stopping", "stopped"}
  <2>1. Room(state, q, active, executorsCount) = 0
    <3>1. CASE queue = <<>>
      BY <3>1, InvFacts DEF Room
    <3>2. CASE queue # <<>>
      <4>1. state = "stopping" /\ active >= executorsCount
        BY <1>3, <3>2 DEF PoolInv, NoIdleExecutor
      <4> QED  BY <4>1, InvFacts DEF Room
    <3> QED  BY <3>1, <3>2
  <2>2. active' = active + 0
    BY <1>1, <2>1 DEF pump
  <2>3. active' = active
    BY <2>2, InvFacts
  <2>4. ready' = ready
    <3>1. Range(q) \cap Range(ready) = {}
      BY InvFacts
    <3> QED  BY <1>1, <2>3, <3>1, InvFacts, PumpKeeps
  <2>5. state' = state
    <3>1. state = "stopping" => active' # 0
      BY <2>3 DEF PoolInv, NoIdleExecutor
    <3> QED  BY <1>1, <2>2, <3>1 DEF pump, Room, finishDrainIfIdle
  <2> QED  BY <1>1, <2>4, <2>5, InvisibleRefines DEF Admitted
<1> QED  BY <1>2, <1>3, InvFacts DEF States

\* Every step the disciplines share is a step of DrainPool.
LEMMA CoreRefines ==
    ASSUME PoolInv, PoolInv', CoreNext
    PROVE  Refines
<1>1. ASSUME Start PROVE Refines
  BY <1>1, InvFacts, ConfigureRefines DEF Start
<1>2. ASSUME NEW n \in Counts, Resize(n) PROVE Refines
  BY <1>2, InvFacts, ConfigureRefines DEF Resize
<1>3. ASSUME NEW t \in Tasks, Reject(t) PROVE Refines
  BY <1>3, InvisibleRefines DEF Reject, Admitted
<1>4. ASSUME NEW c \in Contexts, Expire(c) PROVE Refines
  BY <1>4, InvisibleRefines DEF Expire, taskVars, Admitted
<1>5. ASSUME NEW s \in Stoppers, StopReturns(s) \/ StopTimesOut(s) PROVE Refines
  BY <1>5, InvisibleRefines DEF StopReturns, StopTimesOut, taskVars, Admitted
<1> QED
  BY <1>1, <1>2, <1>3, <1>4, <1>5, RunRefines, FinishRefines, StopRefines DEF CoreNext

\* The initial state of a pool is one of DrainPool.
LEMMA InitRefines == CoreInit => Promise!Init
<1> SUFFICES ASSUME CoreInit PROVE Promise!Init
  OBVIOUS
<1>1. executorsCount \in Nat \ {0}
  BY PoolAssumption DEF CoreInit, normalizeExecutorsCount
<1>2. Range(<<>>) = {}
  BY DEF Range
<1> QED  BY <1>1, <1>2 DEF CoreInit, Promise!Init, Admitted
=============================================================================
