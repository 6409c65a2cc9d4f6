----------------------------- MODULE KafkaSink ------------------------------
(***************************************************************************)
(* KafkaDataSink of src/datasink/kafka/confluent.ts: deliveries share one  *)
(* producer; a delivery that fails replaces it (recoverProducer()), once   *)
(* for all deliveries that fail on it; stop() drains the accepted          *)
(* deliveries, flushes and disconnects.  Every delivery ends with its      *)
(* onDelivery callback; sendSync() waits for it or for its context.        *)
(*                                                                         *)
(* The producers are the environment: a connect, a send or a disconnect    *)
(* settles at any time, either way.                                        *)
(***************************************************************************)
EXTENDS Integers, FiniteSets

CONSTANTS
    Sends,      \* SinkMessage.send() and sendSync() calls
    Producers   \* producers, 1..n in the order of their creation

VARIABLES
    life,       \* start() and stop() of the data sink
    accepting,  \* #deliveries accepts
    producer,   \* #producer, or 0
    state,      \* of each producer: "new", "connecting", "connected" or "closed"
    recovery,   \* #producerRecovery: 0, or the replacement it connects
    failing,    \* the producer that the recovery replaces
    step,       \* what the recovery waits for: "connect", "retire" or "discard"
    send,       \* stage of each delivery
    used,       \* the producer a delivery was sent with, or 0
    calls,      \* how often its onDelivery was called
    wait        \* its sendSync(): "none", "waiting", "delivered", "failed" or "cancelled"

sinkVars == <<life, accepting, producer>>
recoveryVars == <<state, recovery, failing, step>>
sendVars == <<send, used, calls, wait>>
vars == <<sinkVars, recoveryVars, sendVars>>

Fresh == {p \in Producers : state[p] = "new" /\ \A q \in Producers : q < p => state[q] # "new"}

Init ==
    /\ life = "new"
    /\ accepting = TRUE
    /\ producer = 0 /\ recovery = 0 /\ failing = 0 /\ step = "connect"
    /\ state = [p \in Producers |-> "new"]
    /\ send = [m \in Sends |-> "new"]
    /\ used = [m \in Sends |-> 0]
    /\ calls = [m \in Sends |-> 0]
    /\ wait = [m \in Sends |-> "none"]

(***************************************************************************)
(* start()                                                                 *)
(***************************************************************************)

\* The admin client looks up the topics of the enabled endpoints.
Start ==
    /\ life = "new"
    /\ life' = "admin"
    /\ UNCHANGED <<accepting, producer, recoveryVars, sendVars>>

\* The admin client has disconnected: start() fails, or connects a producer.
AdminDone ==
    /\ life = "admin"
    /\ \/ life' = "new" /\ UNCHANGED state
       \/ /\ life' = "connecting"
          /\ \E p \in Fresh : state' = [state EXCEPT ![p] = "connecting"]
    /\ UNCHANGED <<accepting, producer, recovery, failing, step, sendVars>>

\* The producer has connected and the endpoints are active, or it is given up.
StartDone ==
    /\ life = "connecting"
    /\ \E p \in Producers :
        /\ state[p] = "connecting"
        /\ \/ /\ life' = "started" /\ producer' = p
              /\ state' = [state EXCEPT ![p] = "connected"]
           \/ /\ life' = "new" /\ producer' = 0
              /\ state' = [state EXCEPT ![p] = "closed"]
    /\ UNCHANGED <<accepting, recovery, failing, step, sendVars>>

(***************************************************************************)
(* send() and recoverProducer()                                            *)
(***************************************************************************)

\* A handler sends, synchronously or not.  A handler that is still running
\* when the registry has stopped is refused without its callback; sendSync()
\* catches that and rejects.
Send(m) ==
    /\ send[m] = "new" /\ life \notin {"new", "admin", "connecting"}
    /\ \E sync \in BOOLEAN, aborted \in BOOLEAN :
        /\ wait' = [wait EXCEPT ![m] =
                        CASE ~sync -> "none"
                          [] sync /\ ~accepting -> "failed"
                          [] sync /\ accepting -> IF aborted THEN "cancelled" ELSE "waiting"]
        /\ send' = [send EXCEPT ![m] =
                        IF ~accepting THEN "refused" ELSE IF aborted THEN "failed" ELSE "partition"]
    /\ UNCHANGED <<sinkVars, recoveryVars, used, calls>>

\* The partition is chosen: the delivery uses the producer of this moment.
Partitioned(m) ==
    /\ send[m] = "partition"
    /\ \/ /\ producer # 0
          /\ send' = [send EXCEPT ![m] = "sending"]
          /\ used' = [used EXCEPT ![m] = producer]
       \/ send' = [send EXCEPT ![m] = "failed"] /\ UNCHANGED used   \* or it is out of range
    /\ UNCHANGED <<sinkVars, recoveryVars, calls, wait>>

Delivered(m) ==
    /\ send[m] = "sending" /\ state[used[m]] = "connected"
    /\ send' = [send EXCEPT ![m] = "delivered"]
    /\ UNCHANGED <<sinkVars, recoveryVars, used, calls, wait>>

\* Mutant: a failure of an older producer is not reported.
DeliveryFailsQuietly(m) ==
    /\ send[m] = "sending"
    /\ send' = [send EXCEPT ![m] = IF producer # used[m] THEN "done" ELSE "failed"]
    /\ UNCHANGED <<sinkVars, recoveryVars, used, calls, wait>>

\* The send is rejected: the first failure of the current producer replaces
\* it, a later one waits for that, and one of an older producer does nothing.
DeliveryFails(m) ==
    /\ send[m] = "sending"
    /\ IF life # "started" \/ producer # used[m]
       THEN send' = [send EXCEPT ![m] = "failed"] /\ UNCHANGED recoveryVars
       ELSE /\ send' = [send EXCEPT ![m] = "recovering"]
            /\ \/ recovery # 0 /\ UNCHANGED recoveryVars
               \/ /\ recovery = 0
                  /\ \E p \in Fresh :
                      /\ state' = [state EXCEPT ![p] = "connecting"]
                      /\ recovery' = p /\ failing' = used[m] /\ step' = "connect"
    /\ UNCHANGED <<sinkVars, used, calls, wait>>

\* The recovery settles, for every delivery that waits for it.
Recovered ==
    /\ recovery' = 0 /\ failing' = 0 /\ step' = "connect"
    /\ send' = [m \in Sends |-> IF send[m] = "recovering" THEN "failed" ELSE send[m]]

\* Mutant: the replacement becomes the producer whatever happened meanwhile.
ReplacementConnectedAlways ==
    /\ recovery # 0 /\ step = "connect"
    /\ state' = [state EXCEPT ![recovery] = "connected"]
    /\ producer' = recovery /\ step' = "retire"
    /\ UNCHANGED <<life, accepting, recovery, failing, sendVars>>

\* The replacement has connected: it takes the place of the failed producer,
\* unless the sink has been stopped meanwhile.
ReplacementConnected ==
    /\ recovery # 0 /\ step = "connect"
    /\ state' = [state EXCEPT ![recovery] = "connected"]
    /\ IF life = "started" /\ producer = failing
       THEN producer' = recovery /\ step' = "retire"
       ELSE step' = "discard" /\ UNCHANGED producer
    /\ UNCHANGED <<life, accepting, recovery, failing, sendVars>>

\* The replacement is rejected by its connect().  Nobody disconnects it, as
\* start() does: a producer whose connect() failed is taken to hold nothing.
ReplacementFails ==
    /\ recovery # 0 /\ step = "connect"
    /\ state' = [state EXCEPT ![recovery] = "closed"]
    /\ Recovered
    /\ UNCHANGED <<sinkVars, used, calls, wait>>

\* The failed producer, or the replacement that was not used, has disconnected.
FailedDisconnected ==
    /\ recovery # 0 /\ step # "connect"
    /\ state' = [state EXCEPT ![IF step = "retire" THEN failing ELSE recovery] = "closed"]
    /\ Recovered
    /\ UNCHANGED <<sinkVars, used, calls, wait>>

\* onDelivery: the handler's callback and its result, or the end of the wait.
Callback(m) ==
    /\ send[m] \in {"delivered", "failed"}
    /\ send' = [send EXCEPT ![m] = "done"]
    /\ calls' = [calls EXCEPT ![m] = @ + 1]
    /\ wait' = [wait EXCEPT ![m] = IF @ = "waiting" THEN send[m] ELSE @]
    /\ UNCHANGED <<sinkVars, recoveryVars, used>>

\* The context of sendSync() is cancelled while it waits.
Abort(m) ==
    /\ wait[m] = "waiting"
    /\ wait' = [wait EXCEPT ![m] = "cancelled"]
    /\ UNCHANGED <<sinkVars, recoveryVars, send, used, calls>>

(***************************************************************************)
(* stop()                                                                  *)
(***************************************************************************)

\* The endpoints become inactive; handlers that run may still send.
Stop ==
    /\ life = "started"
    /\ life' = "stopping"
    /\ UNCHANGED <<accepting, producer, recoveryVars, sendVars>>

StopAdmission ==
    /\ life = "stopping"
    /\ life' = "draining"
    /\ accepting' = FALSE
    /\ UNCHANGED <<producer, recoveryVars, sendVars>>

Accepted == {m \in Sends : send[m] \notin {"new", "refused", "done"}}

Drained ==
    /\ life = "draining" /\ Accepted = {}
    /\ life' = "flushing"
    /\ UNCHANGED <<accepting, producer, recoveryVars, sendVars>>

\* The finally block: the producer disconnects.
Disconnect ==
    /\ life' = "disconnecting"
    /\ producer' = 0
    /\ state' = [state EXCEPT ![producer] = "closed"]
    /\ UNCHANGED <<accepting, recovery, failing, step, sendVars>>

DrainTimesOut == life = "draining" /\ Disconnect
Flushed == life = "flushing" /\ Disconnect

Stopped ==
    /\ life = "disconnecting"
    /\ life' = "stopped"
    /\ UNCHANGED <<accepting, producer, recoveryVars, sendVars>>

Deliver(m) == Partitioned(m) \/ Delivered(m) \/ DeliveryFails(m) \/ Callback(m)
Recover == ReplacementConnected \/ ReplacementFails \/ FailedDisconnected

Next ==
    \/ Start \/ AdminDone \/ StartDone \/ Stop \/ StopAdmission \/ Drained \/ DrainTimesOut \/ Flushed \/ Stopped
    \/ \E m \in Sends : Send(m) \/ Deliver(m) \/ Abort(m)
    \/ Recover

\* Producers settle what they are asked, and callbacks return.
Fairness ==
    /\ WF_vars(Recover) /\ WF_vars(StopAdmission) /\ WF_vars(Drained) /\ WF_vars(Flushed)
    /\ WF_vars(Stopped)
    /\ \A m \in Sends : WF_vars(Deliver(m))

Spec == Init /\ [][Next]_vars
FairSpec == Spec /\ Fairness

(***************************************************************************)
(* Properties                                                              *)
(***************************************************************************)

\* Types; onDelivery is called at most once for a message.
TypeOK ==
    /\ life \in {"new", "admin", "connecting", "started", "stopping", "draining", "flushing",
                 "disconnecting", "stopped"}
    /\ producer \in Producers \cup {0} /\ recovery \in Producers \cup {0}
    /\ state \in [Producers -> {"new", "connecting", "connected", "closed"}]
    /\ send \in [Sends -> {"new", "refused", "partition", "sending", "recovering", "delivered",
                           "failed", "done"}]
    /\ calls \in [Sends -> 0..1]
    /\ wait \in [Sends -> {"none", "waiting", "delivered", "failed", "cancelled"}]

\* The producer that deliveries use is connected; a recovery never leaves them
\* with one that it disconnected.
CurrentIsConnected == producer # 0 => state[producer] = "connected"

\* Deliveries that fail together replace their producer once: outside a
\* recovery there is one connected producer, and two while one replaces it.
OneRecovery ==
    Cardinality({p \in Producers : state[p] \in {"connecting", "connected"}}) <=
        IF recovery # 0 THEN 2 ELSE 1

\* No connection outlives stop(): once it has returned and no recovery is
\* left, every producer has disconnected, whenever the recovery began.
NoProducerLeak ==
    life = "stopped" /\ recovery = 0 => \A p \in Producers : state[p] \in {"new", "closed"}

\* The producer is flushed only after every accepted delivery has called back.
FlushAfterCallbacks == life = "flushing" => Accepted = {}

\* Every accepted delivery calls back, also when its producer fails, is
\* replaced or the sink stops.
AcceptedCallsBack == \A m \in Sends : m \in Accepted ~> calls[m] = 1

\* Every sendSync() settles: with the delivery, or with its context.
SendSyncSettles == \A m \in Sends : wait[m] = "waiting" ~> wait[m] # "waiting"
=============================================================================
