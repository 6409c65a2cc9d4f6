--------------------------- MODULE MCQueuedSources ---------------------------
(***************************************************************************)
(* The sources that queue their requests for a slot, custom and Kafka, and *)
(* the rotating map in which they keep pending requests.  A behaviour is   *)
(* one of a single scene: the two sources share the variables of           *)
(* QueuedSource, what the scene does not use stays in its initial state.   *)
(*                                                                         *)
(* For TLC three requests compete for one slot, or two requests with the   *)
(* same stream ID have a slot each, and results come for the shared ID.    *)
(***************************************************************************)
EXTENDS Integers, FiniteSets

CONSTANTS
    Requests, StreamIds, StreamId, Deliveries, Target, None, Starts,
    Concurrencies,
    Crowd,       \* Crowd[c]: the requests that come when there are c slots
    Keys, Entries, Shards, KeyShard, MinCapacity, SHRINK_FACTOR,
    r3           \* for TLC

\* Every request carries a stream ID and every result is for one.
ASSUME QueuesAssumption ==
    /\ StreamId \in [Requests -> StreamIds] /\ Target \in [Deliveries -> StreamIds]
    /\ IsFiniteSet(Requests) /\ None \notin Requests
    /\ Concurrencies \subseteq Nat

\* The values of the constants for TLC.  Three keys share a shard, which then
\* rotates with entries in both of its generations; the other shard stays
\* empty (MapKeepsPromise is for any keys in any shards).
FirstStreamId == CHOOSE s \in StreamIds : TRUE
TwoShareId == [r \in Requests |-> IF r = r3 THEN CHOOSE s \in StreamIds : s # FirstStreamId
                                            ELSE FirstStreamId]
SharedTarget == [d \in Deliveries |-> FirstStreamId]
ThreeForOneSlot == [c \in Concurrencies |-> IF c = 1 THEN Requests ELSE Requests \ {r3}]
FirstShard == CHOOSE h \in Shards : TRUE
AllInFirst == [k \in Keys |-> FirstShard]

VARIABLES
    scene,   \* the component whose behaviour this is
    \* QueuedSource
    hasResult, stage, failure, cancelled, pending, registered, completed, retiring,
    callbackOf, delivered, activeRequests, concurrency, active, waiters, started,
    stopped, tasksAborted, starts,
    \* CustomSource and KafkaSource
    open, producer, stop, stopping,
    \* RotatingMap
    current, previous, highWaterMark, timer, mapStarted, mapStopped, answer

Custom == INSTANCE CustomSource
Kafka == INSTANCE KafkaSource
Map == INSTANCE RotatingMap WITH
    Values <- Entries, Shard <- KeyShard, started <- mapStarted, stopped <- mapStopped

ASSUME MapAssumption == Map!MapAssumption

queueVars == <<hasResult, stage, failure, cancelled, pending, registered, completed, retiring,
               callbackOf, delivered, activeRequests, concurrency, active, waiters, started,
               stopped, tasksAborted, starts>>
customVars == <<queueVars, open, producer, stop>>
kafkaVars == <<queueVars, stopping>>
mapVars == <<current, previous, highWaterMark, timer, mapStarted, mapStopped, answer>>
sceneVars == <<scene, queueVars, open, producer, stop, stopping, mapVars>>

SceneInit ==
    /\ scene \in {"custom", "kafka", "map"}
    /\ Map!Init /\ Custom!Init /\ Kafka!Init
    /\ scene = "map" => ~hasResult /\ concurrency = CHOOSE c \in Concurrencies : TRUE

Crowded == \A r \in Requests \ Crowd[concurrency] : UNCHANGED <<stage[r], cancelled[r]>>

SceneNext ==
    \/ scene = "custom" /\ Custom!Next /\ Crowded /\ UNCHANGED <<scene, stopping, mapVars>>
    \/ scene = "kafka" /\ Kafka!Next /\ Crowded
        /\ UNCHANGED <<scene, open, producer, stop, mapVars>>
    \/ scene = "map" /\ Map!Next /\ UNCHANGED <<scene, customVars, stopping>>

\* The fairness of the two sources, each in its scene.
CustomFairness ==
    /\ \A r \in Requests :
        /\ WF_customVars(scene = "custom" /\ Custom!acquire(r))
        /\ WF_customVars(scene = "custom" /\ Custom!handleTraced(r))
    /\ \A d \in Deliveries :
        WF_customVars(scene = "custom" /\ Custom!consumeResult(d) /\ callbackOf[d] # None)
    /\ WF_customVars(scene = "custom" /\ Custom!ConsumerStopped)
    /\ WF_customVars(scene = "custom" /\ Custom!ProducerStopped)
    /\ WF_customVars(scene = "custom" /\ Custom!Stopped)
    /\ WF_customVars(scene = "custom" /\ producer = "cancelled" /\ Custom!ProducerEnds)

KafkaFairness ==
    /\ \A r \in Requests :
        /\ WF_kafkaVars(scene = "kafka" /\ Kafka!acquire(r))
        /\ WF_kafkaVars(scene = "kafka" /\ Kafka!handleTraced(r))
    /\ \A d \in Deliveries :
        WF_kafkaVars(scene = "kafka" /\ Kafka!consumeResult(d) /\ callbackOf[d] # None)
    /\ WF_kafkaVars(scene = "kafka" /\ Kafka!Stopped)

SceneSpec == SceneInit /\ [][SceneNext]_sceneVars /\ CustomFairness /\ KafkaFairness

\* The slots are used and never overrun: while a request is queued, the slots
\* are taken or a woken request is about to take one, as long as no request was
\* cancelled; and a wake-up of the Kafka source never outlives its request.
SlotsServeQueue ==
    /\ Custom!SlotsServeQueue /\ Custom!WithinConcurrency
    /\ Kafka!QueueIsLive

\* A request that waits for its result can be found under its stream ID,
\* whatever requests with the same ID were refused or have ended; its callbacks
\* are over when it ends, and a stopped custom source has nothing in flight.
PendingWhileWaiting ==
    /\ Custom!PendingWhileWaiting /\ Custom!CallbacksBeforeEnd
    /\ scene = "custom" => Custom!StopMeansQuiet

\* Once admission is closed, every request ends: queued, consuming, waiting
\* for a result that never comes, or retiring.
StoppedRequestsEnd == stopped ~> (Custom!Drained \/ ~stopped)

\* The two generations of all shards of the rotating map behave as one map:
\* rotation and stop() drop no entry, and a key of either generation is a
\* duplicate.
ImplementsKeyedMap == Map!ImplementsKeyedMap
=============================================================================
