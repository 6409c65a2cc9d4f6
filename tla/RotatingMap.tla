---------------------------- MODULE RotatingMap -----------------------------
(***************************************************************************)
(* The two-generation, sharded map of pending requests (src/runtime/store/ *)
(* rotating-map.ts).  A key lives in one generation of the shard that its  *)
(* hash selects; a timer rotates every shard that shrank after a burst.    *)
(* Every operation is one synchronous step.                                *)
(***************************************************************************)
EXTENDS Naturals, FiniteSets

CONSTANTS
    Keys, Values,
    None,        \* no entry
    Shards,
    Shard,       \* the shard that the hash of a key selects, [Keys -> Shards]
    MinCapacity, \* #minCapacity
    SHRINK_FACTOR \* 4 in the code; less lets few keys make a shard rotate

MapAssumption ==
    /\ None \notin Values /\ Shard \in [Keys -> Shards]
    /\ MinCapacity \in Nat /\ SHRINK_FACTOR \in Nat

VARIABLES
    current,       \* per shard, the entry of a key in the young generation
    previous,      \* per shard, the entry of a key in the old generation
    highWaterMark, \* per shard
    timer,         \* the rotation timer is armed
    started, stopped,
    answer         \* what the last operation returned

vars == <<current, previous, highWaterMark, timer, started, stopped, answer>>

Empty == [k \in Keys |-> None]
Size(generation) == Cardinality({k \in Keys : generation[k] # None})
Answer(value, found) == [value |-> value, found |-> found]

Init ==
    /\ current = [s \in Shards |-> Empty]
    /\ previous = [s \in Shards |-> Empty]
    /\ highWaterMark = [s \in Shards |-> 0]
    /\ timer = FALSE /\ started = FALSE /\ stopped = FALSE
    /\ answer = Answer(None, FALSE)

\* shard(): the hash of a key is any function of it.
shard(k) == Shard[k]

\* The entry of k, looked up in the young generation first.
Lookup(k) ==
    LET s == shard(k) IN
    IF current[s][k] # None THEN current[s][k] ELSE previous[s][k]

Set(k, v) ==
    /\ current' = IF Lookup(k) = None
                  THEN [current EXCEPT ![shard(k)][k] = v] ELSE current
    /\ answer' = Answer(None, Lookup(k) # None)
    /\ UNCHANGED <<previous, highWaterMark, timer, started, stopped>>

GetOrCreate(k, v) ==
    /\ current' = IF Lookup(k) = None
                  THEN [current EXCEPT ![shard(k)][k] = v] ELSE current
    /\ answer' = IF Lookup(k) = None THEN Answer(v, FALSE) ELSE Answer(Lookup(k), TRUE)
    /\ UNCHANGED <<previous, highWaterMark, timer, started, stopped>>

Get(k) ==
    /\ answer' = Answer(Lookup(k), Lookup(k) # None)
    /\ UNCHANGED <<current, previous, highWaterMark, timer, started, stopped>>

Pop(k) ==
    LET s == shard(k) IN
    /\ answer' = Answer(Lookup(k), Lookup(k) # None)
    /\ IF current[s][k] # None
       THEN current' = [current EXCEPT ![s][k] = None] /\ UNCHANGED previous
       ELSE previous' = [previous EXCEPT ![s][k] = None] /\ UNCHANGED current
    /\ UNCHANGED <<highWaterMark, timer, started, stopped>>

\* start() and stop(); a second start() and one after stop() throw.
Start ==
    /\ ~started /\ ~stopped
    /\ started' = TRUE /\ timer' = TRUE
    /\ UNCHANGED <<current, previous, highWaterMark, stopped, answer>>

Stop ==
    /\ stopped' = TRUE /\ timer' = FALSE
    /\ UNCHANGED <<current, previous, highWaterMark, started, answer>>

\* rotateShard(): the shard shrank, or was never looked at.
Total(s) == Size(current[s]) + Size(previous[s])

Mark(s) == IF Total(s) > highWaterMark[s] THEN Total(s) ELSE highWaterMark[s]

shouldRotate(s) ==
    /\ highWaterMark[s] = 0 \/ Total(s) * SHRINK_FACTOR < highWaterMark[s]
    /\ Mark(s) >= MinCapacity

\* Mutant: the young generation replaces the old one.
ReplacedPrevious(s) == current[s]

Combined(s) ==
    [k \in Keys |-> IF current[s][k] # None THEN current[s][k] ELSE previous[s][k]]

\* The timer fires, rotates every shard and is armed again.
Rotate ==
    /\ timer
    /\ current' = [s \in Shards |-> IF shouldRotate(s) THEN Empty ELSE current[s]]
    /\ previous' = [s \in Shards |-> IF shouldRotate(s) THEN Combined(s) ELSE previous[s]]
    /\ highWaterMark' = [s \in Shards |-> IF shouldRotate(s) THEN Total(s) ELSE Mark(s)]
    /\ UNCHANGED <<timer, started, stopped, answer>>

Next ==
    \/ \E k \in Keys :
        \/ \E v \in Values : Set(k, v) \/ GetOrCreate(k, v)
        \/ Get(k)
        \/ Pop(k)
    \/ Start \/ Stop \/ Rotate

Spec == Init /\ [][Next]_vars

(***************************************************************************)
(* Properties                                                              *)
(***************************************************************************)

TypeOK ==
    /\ current \in [Shards -> [Keys -> Values \cup {None}]]
    /\ previous \in [Shards -> [Keys -> Values \cup {None}]]
    /\ highWaterMark \in [Shards -> Nat]
    /\ timer \in BOOLEAN /\ started \in BOOLEAN /\ stopped \in BOOLEAN
    /\ answer \in [value : Values \cup {None}, found : BOOLEAN]

\* No key has an entry in both generations, or in a shard other than its
\* own: the lookup order then hides nothing, and pop() leaves no older entry
\* behind that would come back to life.
OneEntryPerKey ==
    \A s \in Shards, k \in Keys :
        /\ current[s][k] = None \/ previous[s][k] = None
        /\ s # Shard[k] => current[s][k] = None /\ previous[s][k] = None

\* The two generations of all shards behave as one map: rotation and
\* stop() never expire or drop an entry, and a key in either generation is a
\* duplicate (rotating-map.ts:21-24).
Promise == INSTANCE KeyedMap WITH map <- [k \in Keys |-> Lookup(k)]
ImplementsKeyedMap == Promise!Spec
=============================================================================
