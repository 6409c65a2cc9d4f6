------------------------------ MODULE MCSinks -------------------------------
(***************************************************************************)
(* The sinks: gRPC sessions, single requests of every protocol, and the    *)
(* Kafka producer with its recovery. A behaviour is one of a single scene; *)
(* the others stay in their initial state.                                 *)
(***************************************************************************)
EXTENDS Integers

CONSTANTS Values, Slots, MaxWrites, Requests, Sends, Producers

\* Slots and producers are numbered from 1: 0 stands for none of them.
ASSUME SinksAssumption ==
    /\ Slots \subseteq Nat \ {0} /\ Producers \subseteq Nat \ {0}
    /\ MaxWrites \in Nat

VARIABLES
    scene,   \* the component whose behaviour this is
    \* GrpcSinkSession
    kind, pending, phase, closing, ready, value, slotOf, done, sending,
    writes, ended, sessionResponse, receiving, winner, sessionCancelled,
    failed, sessionGauge, stop, tasks, quiet,
    \* SinkRequest
    protocol, sink, client, stage, requestResponse, failure, threw,
    requestCancelled, counted, rejected, requestGauge,
    \* KafkaSink
    life, accepting, producer, state, recovery, failing, step, send, used,
    calls, wait

Session == INSTANCE GrpcSinkSession WITH
    response <- sessionResponse, cancelled <- sessionCancelled,
    gauge <- sessionGauge
Request == INSTANCE SinkRequest WITH
    response <- requestResponse, cancelled <- requestCancelled,
    gauge <- requestGauge
Kafka == INSTANCE KafkaSink

sessionVars == <<kind, pending, phase, closing, ready, value, slotOf, done,
                 sending, writes, ended, sessionResponse, receiving, winner,
                 sessionCancelled, failed, sessionGauge, stop, tasks, quiet>>
requestVars == <<protocol, sink, client, stage, requestResponse, failure, threw,
                 requestCancelled, counted, rejected, requestGauge>>
kafkaVars == <<life, accepting, producer, state, recovery, failing, step,
               send, used, calls, wait>>
sceneVars == <<scene, sessionVars, requestVars, kafkaVars>>

SceneInit ==
    /\ scene \in {"session", "request", "kafka"}
    /\ Session!Init
    /\ Request!Init
    /\ Kafka!Init
    /\ scene # "session" => kind = "client"
    /\ scene # "request" => protocol = "http"

SceneNext ==
    \/ scene = "session" /\ Session!Next /\ UNCHANGED <<scene, requestVars, kafkaVars>>
    \/ scene = "request" /\ Request!Next /\ UNCHANGED <<scene, sessionVars, kafkaVars>>
    \/ scene = "kafka" /\ Kafka!Next /\ UNCHANGED <<scene, sessionVars, requestVars>>

SceneSpec ==
    /\ SceneInit /\ [][SceneNext]_sceneVars
    /\ \/ scene = "session" /\ Session!Fairness
       \/ scene = "request" /\ Request!Fairness
       \/ scene = "kafka" /\ Kafka!Fairness

\* A stream ID has one session at a time, and it ends in order: the request
\* stream after its writes, the response after the values, endRequest() after
\* all handlers, and the clients after the sessions that stop() found.
SessionEndsInOrder ==
    /\ Session!OneSession /\ Session!EndAfterWrites /\ Session!ResponseAfterValues
    /\ Session!EndRequestIsLast /\ Session!StopDrainsSessions

\* A single request ends clean, however its steps fail: its response is closed
\* before endRequest(); it is counted as an error exactly when a step threw,
\* but for the endRequest() of HTTP, which rejects consume() instead; and the
\* HTTP client is closed only under requests that were cancelled.
RequestEndsClean ==
    /\ Request!ResponseClosedBeforeEnd /\ Request!FailureIsCounted
    /\ Request!ClientOutlivesRequests

\* The Kafka sink has one connected producer, two while a recovery replaces
\* it, none once it has stopped, and flushes it after the last callback,
\* although recoveries race with other failures and with stop().
ProducersOwned ==
    /\ Kafka!CurrentIsConnected /\ Kafka!OneRecovery /\ Kafka!NoProducerLeak
    /\ Kafka!FlushAfterCallbacks

\* Every value that a sink accepted is answered for: each consume() call of a
\* session settles, each accepted delivery of the Kafka sink calls back and
\* each sendSync() settles.
ValuesSettle ==
    /\ scene = "session" => Session!ValuesSettle
    /\ scene = "kafka" => Kafka!AcceptedCallsBack /\ Kafka!SendSyncSettles
=============================================================================
