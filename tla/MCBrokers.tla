----------------------------- MODULE MCBrokers ------------------------------
(***************************************************************************)
(* The process towards the systems that redeliver: the native Kafka        *)
(* consumer as its endpoint runs it and with checkpoints of the            *)
(* application, the Kafka endpoints with their connections, the Temporal   *)
(* connector, and a message on its way through a Temporal endpoint. A      *)
(* behaviour is one of a single scene; the other components stay in their  *)
(* initial state.                                                          *)
(***************************************************************************)
EXTENDS Integers, TLC

CONSTANTS Partitions, Records, Batch, MaxGen, Endpoints, Clients, Queues,
          Schedules, Messages, Foreign, Calls, MaxAttempts, MaxCrashes

VARIABLES
    scene,   \* the component whose behaviour this is
    \* KafkaConsumer
    owned, position, fetched, paused, stored, committed, acked,
    generation, lease, delivered, restores, commits, tasks, failure,
    stopping, cancelled, run,
    \* KafkaEndpoint
    endpointStarted, starting, dsStopping, abandoned, admin, stopCall,
    goal, sup, initial, fatal, consumer, endpointLive, quit, aborted,
    binding, epStop,
    \* TemporalConnector
    connectorStarted, admission, connection, worker, kept, op, step, todo,
    error, last,
    \* TemporalEndpoint
    hasResult, call, sinkGauge, wf, attempt, messageLive, act, gauge,
    pending, settled, output, crashes

Symmetry == Permutations(Endpoints) \cup Permutations(Calls)

Consumer == INSTANCE KafkaConsumer WITH
    Restoring <- FALSE, Owned <- TRUE
Restoring == INSTANCE KafkaConsumer WITH
    Records <- Batch, Restoring <- TRUE, Owned <- FALSE
Endpoint == INSTANCE KafkaEndpoint WITH
    started <- endpointStarted, live <- endpointLive
Connector == INSTANCE TemporalConnector WITH
    started <- connectorStarted
Message == INSTANCE TemporalEndpoint WITH
    EndThrows <- FALSE, live <- messageLive

consumerVars == <<owned, position, fetched, paused, stored, committed, acked,
                  generation, lease, delivered, restores, commits, tasks,
                  failure, stopping, cancelled, run>>
endpointVars == <<endpointStarted, starting, dsStopping, abandoned, admin,
                  stopCall, goal, sup, initial, fatal, consumer, endpointLive,
                  quit, aborted, binding, epStop>>
connectorVars == <<connectorStarted, admission, connection, worker, kept, op,
                   step, todo, error, last>>
messageVars == <<hasResult, call, sinkGauge, wf, attempt, messageLive, act,
                 gauge, pending, settled, output, crashes>>
sceneVars == <<scene, consumerVars, endpointVars, connectorVars, messageVars>>

SceneInit ==
    /\ scene \in {"consumer", "restoring", "endpoints", "connector", "message"}
    /\ \/ scene = "consumer" /\ Consumer!Init
       \/ scene # "consumer" /\ Restoring!Init
    /\ Endpoint!Init
    /\ Connector!Init
    /\ Message!Init
    /\ scene # "message" => ~hasResult

SceneNext ==
    \/ scene = "consumer" /\ Consumer!Next /\ UNCHANGED <<scene, endpointVars, connectorVars, messageVars>>
    \/ scene = "restoring" /\ Restoring!Next /\ UNCHANGED <<scene, endpointVars, connectorVars, messageVars>>
    \/ scene = "endpoints" /\ Endpoint!Next /\ UNCHANGED <<scene, consumerVars, connectorVars, messageVars>>
    \/ scene = "connector" /\ Connector!Next /\ UNCHANGED <<scene, consumerVars, endpointVars, messageVars>>
    \/ scene = "message" /\ Message!Next /\ UNCHANGED <<scene, consumerVars, endpointVars, connectorVars>>

SceneSpec ==
    /\ SceneInit /\ [][SceneNext]_sceneVars

ASSUME BrokersAssumption ==
    /\ Endpoint!ClientsAssumption
    /\ Message!TemporalAssumption

\* At least once, on the broker: the group's offset never passes a record that
\* no handler acknowledged, through batches, seeks, commits and rebalances.
CommittedIsAcknowledged == Consumer!CommittedIsAcknowledged

\* At least once, in the process: behind the position of an open assignment
\* every record was acknowledged or is held by a delivery of its lease, and a
\* partition without a delivery is not left paused.
NothingSkipped == Consumer!NothingSkipped /\ Consumer!NoStuckPartition

\* The work of two assignments never mixes: a partition opens for the current
\* generation only, when no commit of an older one is pending, and has one
\* delivery per lease.
AssignmentsSeparate == Consumer!OpensCurrent /\ Consumer!DeliveriesSerialized

\* Connections have owners and are released: an endpoint owns every client
\* that was not disconnected, a stopped data source has none left, a call of
\* the Temporal connector that was fulfilled did all of its work and one that
\* was rejected holds nothing, and no connection is closed under a worker.
ClientsReleased ==
    /\ Endpoint!ClientsOwned /\ Endpoint!QuietWhenStopped
    /\ Connector!FulfilledIsDone /\ Connector!RejectedIsReleased
    /\ Connector!WorkersHaveConnection

\* A result reaches the Temporal sink only after an attempt that the server
\* waited for has succeeded with a result of the pipeline; an attempt that
\* waits can get its result; and nobody waits for a foreign workflow.
AnswerIsReal ==
    Message!AnswerIsReal /\ Message!WaiterIsRegistered /\ Message!ForeignIsRefused
=============================================================================
