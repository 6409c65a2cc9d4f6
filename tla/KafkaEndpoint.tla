--------------------------- MODULE KafkaEndpoint ----------------------------
(***************************************************************************)
(* KafkaDataSource and KafkaSourceEndpoint of                              *)
(* src/datasource/kafka/confluent.ts: who owns the native clients while    *)
(* the source starts, reconnects, fails, is cancelled and stops.           *)
(*                                                                         *)
(* Native connect and disconnect settle in their own time and may fail;    *)
(* a client is live from its creation until a disconnect succeeds.  The    *)
(* consumer's run() is KafkaConsumer.tla seen from outside: it ends by a   *)
(* failure or after stop().  start() and stop() of the data source are     *)
(* called one after the other, as ServiceRuntime does, except that a start *)
(* whose caller gave up may still be running when stop() comes.            *)
(***************************************************************************)
EXTENDS Integers

CONSTANTS
    Endpoints,
    Clients     \* names of native consumers; a dead one's name is used again

None == 0
ClientsAssumption == None \notin Clients

VARIABLES
    started,    \* #started of the data source
    starting,   \* startOwned(): "none", "admin", "closing", "endpoints" or "cleanup"
    dsStopping, \* #stopping of the data source
    abandoned,  \* the context of start() was cancelled
    admin,      \* #admin is a live client
    stopCall,   \* stop() or stopAdmission(): "none", "join", "admin", "endpoints"
    goal,       \* which of the two it is: "stop" or "admission"
    sup,        \* #run of an endpoint: where startConsumer() and supervise() are
    initial,    \* the connection is the one of startConsumer()
    fatal,      \* the consumer failed with a KafkaCheckpointError
    consumer,   \* #consumer
    live,       \* native consumers that were not disconnected
    quit,       \* consumer.stop() was called
    aborted,    \* the reconnect signal
    binding,    \* the endpoint consumer: "off", "on" or "draining"
    epStop      \* endpoint.stop(): "idle", its phases, "ok" or "failed"

sourceVars == <<started, starting, dsStopping, abandoned, admin, stopCall, goal>>
endpointVars == <<sup, initial, fatal, consumer, live, quit, aborted, binding>>
vars == <<sourceVars, endpointVars, epStop>>

Init ==
    /\ started = FALSE /\ starting = "none" /\ dsStopping = FALSE
    /\ abandoned = FALSE /\ admin = FALSE /\ stopCall = "none" /\ goal = "stop"
    /\ sup = [e \in Endpoints |-> "none"]
    /\ initial = [e \in Endpoints |-> FALSE]
    /\ fatal = [e \in Endpoints |-> FALSE]
    /\ consumer = [e \in Endpoints |-> None]
    /\ live = [e \in Endpoints |-> {}]
    /\ quit = [e \in Endpoints |-> FALSE]
    /\ aborted = [e \in Endpoints |-> FALSE]
    /\ binding = [e \in Endpoints |-> "off"]
    /\ epStop = [e \in Endpoints |-> "idle"]

\* checkActive() of startOwned()
Active == ~abandoned /\ ~dsStopping

\* The context that start() of an endpoint hands to its consumer is live.
OwnerActive(e) == ~abandoned /\ ~aborted[e]

Connecting(e) == sup[e] \in {"connect", "subscribe", "abandon"}

(***************************************************************************)
(* startOwned()                                                            *)
(***************************************************************************)

StartSource ==
    /\ ~started /\ starting = "none" /\ stopCall = "none"
    /\ started' = TRUE /\ dsStopping' = FALSE /\ abandoned' = FALSE
    /\ admin' = TRUE
    /\ starting' = "admin"
    /\ UNCHANGED <<stopCall, goal, endpointVars, epStop>>

\* start() returns to its caller at once; startOwned() goes on.  The context
\* may also end later, while the consumers run.
CallerGivesUp ==
    /\ started /\ ~abandoned
    /\ abandoned' = TRUE
    /\ UNCHANGED <<started, starting, dsStopping, admin, stopCall, goal, endpointVars, epStop>>

\* admin.connect(), createTopic() and partitionCount(), each followed by
\* checkActive().
AdminReady ==
    /\ starting = "admin" /\ Active
    /\ starting' = "closing"
    /\ UNCHANGED <<started, dsStopping, abandoned, admin, stopCall, goal, endpointVars, epStop>>

\* closeAdmin() succeeded.
AdminClosed ==
    /\ starting = "closing"
    /\ admin' = FALSE
    /\ starting' = IF Active THEN "endpoints" ELSE "cleanup"
    /\ UNCHANGED <<started, dsStopping, abandoned, stopCall, goal, endpointVars, epStop>>

\* endpoint.start(): the reconnect controller is new, the binding is started
\* and startConsumer() begins.
StartEndpoint(e) ==
    /\ starting = "endpoints" /\ sup[e] = "none" /\ binding[e] = "off" /\ Active
    /\ aborted' = [aborted EXCEPT ![e] = FALSE]
    /\ binding' = [binding EXCEPT ![e] = "on"]
    /\ sup' = [sup EXCEPT ![e] = "restore"]
    /\ initial' = [initial EXCEPT ![e] = TRUE]
    /\ UNCHANGED <<sourceVars, fatal, consumer, live, quit, epStop>>

StartupDone ==
    /\ starting = "endpoints" /\ \A e \in Endpoints : binding[e] = "on"
    /\ starting' = "none"
    /\ UNCHANGED <<started, dsStopping, abandoned, admin, stopCall, goal, endpointVars, epStop>>

\* A step of startOwned() fails, by itself or by checkActive().
StartupFails ==
    /\ starting \in {"admin", "closing", "endpoints"}
    /\ starting' = "cleanup"
    /\ UNCHANGED <<started, dsStopping, abandoned, admin, stopCall, goal, endpointVars, epStop>>

\* The cleanup has settled: what it could not release keeps the source
\* started, for a later stop().
Cleanup ==
    /\ starting = "cleanup"
    /\ \A e \in Endpoints : epStop[e] \in {"ok", "failed"}
    /\ admin' \in {admin, FALSE}
    /\ started' = (admin' \/ \E e \in Endpoints : epStop[e] = "failed")
    /\ starting' = "none"
    /\ epStop' = [e \in Endpoints |-> "idle"]
    /\ UNCHANGED <<dsStopping, abandoned, stopCall, goal, endpointVars>>

(***************************************************************************)
(* startConsumer() and supervise()                                         *)
(***************************************************************************)

\* #run goes to a state in which no client is created or given up.
To(e, where) ==
    /\ sup' = [sup EXCEPT ![e] = where]
    /\ UNCHANGED <<initial, fatal, consumer, live, quit>>

\* connectCurrentConsumer(): checkActive() and a new client.
NewClient(e) ==
    /\ sup' = [sup EXCEPT ![e] = "connect"]
    /\ \E c \in Clients \ live[e] :
        /\ consumer' = [consumer EXCEPT ![e] = c]
        /\ live' = [live EXCEPT ![e] = @ \cup {c}]
    /\ quit' = [quit EXCEPT ![e] = FALSE]
    /\ fatal' = [fatal EXCEPT ![e] = FALSE]
    /\ UNCHANGED initial

\* restoreCheckpoint() of the endpoint returned, or failed.
Restored(e) ==
    /\ sup[e] = "restore"
    /\ \/ Active /\ OwnerActive(e) /\ NewClient(e)
       \/ To(e, "done")
    /\ UNCHANGED <<sourceVars, aborted, binding, epStop>>

\* connect() or subscribe() settled, and checkActive().
Connected(e) ==
    /\ sup[e] \in {"connect", "subscribe"}
    /\ \/ /\ OwnerActive(e) /\ (initial[e] => ~dsStopping)
          /\ To(e, IF sup[e] = "connect" THEN "subscribe" ELSE "ready")
       \/ To(e, "abandon")
    /\ UNCHANGED <<sourceVars, aborted, binding, epStop>>

\* disconnectConsumer() succeeded.
Released(e) ==
    /\ live' = [live EXCEPT ![e] = @ \ {consumer[e]}]
    /\ consumer' = [consumer EXCEPT ![e] = None]

\* Mutant: the supervisor reconnects although the cleanup failed.
AbandonedRetries(e) ==
    /\ sup[e] = "abandon"
    /\ Released(e) \/ UNCHANGED <<consumer, live>>
    /\ sup' = [sup EXCEPT ![e] = IF initial[e] \/ ~OwnerActive(e) THEN "done" ELSE "delay"]
    /\ UNCHANGED <<sourceVars, initial, fatal, quit, aborted, binding, epStop>>

\* The failed connection was cleaned up, or not: then it stays owned and the
\* supervisor gives up.
Abandoned(e) ==
    /\ sup[e] = "abandon"
    /\ Released(e) \/ UNCHANGED <<consumer, live>>
    /\ sup' = [sup EXCEPT ![e] = IF initial[e] \/ ~OwnerActive(e) \/ consumer'[e] # None
                                 THEN "done" ELSE "delay"]
    /\ UNCHANGED <<sourceVars, initial, fatal, quit, aborted, binding, epStop>>

\* The connection is returned to supervise(), which runs the consumer unless
\* it was stopped meanwhile.  A first connection is then left to stop().
Ready(e) ==
    /\ sup[e] = "ready"
    /\ IF initial[e]
       THEN To(e, IF OwnerActive(e) /\ ~dsStopping THEN "run" ELSE "done")
       ELSE To(e, IF aborted[e] THEN "release" ELSE "run")
    /\ UNCHANGED <<sourceVars, aborted, binding, epStop>>

\* run() settled: after stop(), or with an error of the transport or of the
\* checkpoint.
RunEnded(e) ==
    /\ sup[e] = "run"
    /\ fatal' \in {fatal, [fatal EXCEPT ![e] = TRUE]}
    /\ sup' = [sup EXCEPT ![e] = "release"]
    /\ initial' = [initial EXCEPT ![e] = FALSE]
    /\ UNCHANGED <<sourceVars, consumer, live, quit, aborted, binding, epStop>>

\* The disconnect of supervise() settled.  A failed one ends the supervisor,
\* which keeps the client for stop().
SupervisorReleases(e) ==
    /\ sup[e] = "release"
    /\ \/ /\ Released(e)
          /\ sup' = [sup EXCEPT ![e] = IF fatal[e] \/ aborted[e] THEN "done" ELSE "delay"]
       \/ /\ UNCHANGED <<consumer, live>>
          /\ sup' = [sup EXCEPT ![e] = "done"]
    /\ UNCHANGED <<sourceVars, initial, fatal, quit, aborted, binding, epStop>>

\* reconnectDelay() is over: its timer fired, or the signal was aborted.
Reconnect(e) ==
    /\ sup[e] = "delay"
    /\ IF OwnerActive(e) THEN NewClient(e) ELSE To(e, "done")
    /\ UNCHANGED <<sourceVars, aborted, binding, epStop>>

(***************************************************************************)
(* endpoint.stop(), for a cleanup, for stop() and, in part, stopAdmission() *)
(***************************************************************************)

\* stopAdmission() of the endpoint stops a consumer that is connected.
StopConsumer(e) ==
    quit' = [quit EXCEPT ![e] = @ \/ (consumer[e] # None /\ ~Connecting(e) /\ sup[e] # "none")]

StopEndpoint(e) ==
    /\ starting = "cleanup" \/ stopCall = "endpoints"
    /\ epStop[e] = "idle"
    /\ epStop' = [epStop EXCEPT ![e] = "admission"]
    /\ aborted' = [aborted EXCEPT ![e] = TRUE]
    /\ binding' = [binding EXCEPT ![e] = IF @ = "on" THEN "draining" ELSE @]
    /\ StopConsumer(e)
    /\ UNCHANGED <<sourceVars, sup, initial, fatal, consumer, live>>

\* consumer.stop() returns when run() has ended.
AdmissionStopped(e) ==
    /\ epStop[e] = "admission" /\ (quit[e] => sup[e] # "run")
    /\ epStop' = [epStop EXCEPT ![e] = IF stopCall = "endpoints" /\ goal = "admission"
                                       THEN "ok" ELSE "binding"]
    /\ UNCHANGED <<sourceVars, endpointVars>>

\* binding.stop(): its requests are drained.
BindingStopped(e) ==
    /\ epStop[e] = "binding"
    /\ binding' = [binding EXCEPT ![e] = "off"]
    /\ epStop' = [epStop EXCEPT ![e] = "run"]
    /\ UNCHANGED <<sourceVars, sup, initial, fatal, consumer, live, quit, aborted>>

\* The supervisor is done and no client is left.
EndpointStopped(e) ==
    /\ epStop[e] = "run" /\ sup[e] \in {"none", "done"}
    /\ consumer[e] = None
    /\ sup' = [sup EXCEPT ![e] = "none"]
    /\ epStop' = [epStop EXCEPT ![e] = "ok"]
    /\ UNCHANGED <<sourceVars, initial, fatal, consumer, live, quit, aborted, binding>>

\* The disconnect of endpoint.stop() succeeded.
StopReleases(e) ==
    /\ epStop[e] = "run" /\ sup[e] \in {"none", "done"}
    /\ consumer[e] # None
    /\ Released(e)
    /\ UNCHANGED <<sourceVars, sup, initial, fatal, quit, aborted, binding, epStop>>

\* A deadline, or a disconnect that failed.
EndpointStopFails(e) ==
    /\ epStop[e] \in {"admission", "binding", "run"}
    /\ epStop' = [epStop EXCEPT ![e] = "failed"]
    /\ UNCHANGED <<sourceVars, endpointVars>>

(***************************************************************************)
(* stop() and stopAdmission() of the data source                           *)
(***************************************************************************)

StopSource ==
    /\ started /\ stopCall = "none"
    /\ stopCall' = "join" /\ goal' \in {"stop", "admission"}
    /\ dsStopping' = TRUE
    /\ UNCHANGED <<started, starting, abandoned, admin, endpointVars, epStop>>

\* joinStartup(): a failed startup may have released everything.
Joined ==
    /\ stopCall = "join" /\ starting = "none"
    /\ stopCall' = IF goal = "stop" THEN "admin" ELSE "endpoints"
    /\ UNCHANGED <<started, starting, dsStopping, abandoned, admin, goal, endpointVars, epStop>>

StopClosesAdmin ==
    /\ stopCall = "admin"
    /\ admin' = FALSE
    /\ stopCall' = "endpoints"
    /\ UNCHANGED <<started, starting, dsStopping, abandoned, goal, endpointVars, epStop>>

\* stop() returns when every endpoint has stopped.
Stopped ==
    /\ stopCall = "endpoints" /\ \A e \in Endpoints : epStop[e] = "ok"
    /\ stopCall' = "none"
    /\ started' = (started /\ goal = "admission")
    /\ epStop' = [e \in Endpoints |-> "idle"]
    /\ UNCHANGED <<starting, dsStopping, abandoned, admin, goal, endpointVars>>

\* stop() throws and may be called again: a deadline while it joins the
\* startup or closes the admin client, or a failed endpoint.  The other
\* endpoints, whose stop() the code leaves running, are let settle first.
StopThrows ==
    /\ \/ stopCall \in {"join", "admin"}
       \/ /\ stopCall = "endpoints" /\ \A e \in Endpoints : epStop[e] \in {"ok", "failed"}
          /\ \E e \in Endpoints : epStop[e] = "failed"
    /\ stopCall' = "none"
    /\ epStop' = [e \in Endpoints |-> IF stopCall = "endpoints" THEN "idle" ELSE epStop[e]]
    /\ UNCHANGED <<started, starting, dsStopping, abandoned, admin, goal, endpointVars>>

Supervise(e) ==
    \/ Restored(e) \/ Connected(e) \/ Abandoned(e) \/ Ready(e)
    \/ SupervisorReleases(e) \/ Reconnect(e)

EndpointStops(e) ==
    StopEndpoint(e) \/ AdmissionStopped(e) \/ BindingStopped(e) \/ EndpointStopped(e) \/ StopReleases(e)

Next ==
    \/ StartSource \/ CallerGivesUp \/ AdminReady \/ AdminClosed \/ StartupDone \/ StartupFails
    \/ Cleanup \/ StopSource \/ Joined \/ StopClosesAdmin \/ Stopped \/ StopThrows
    \/ \E e \in Endpoints :
        StartEndpoint(e) \/ Supervise(e) \/ RunEnded(e) \/ EndpointStops(e) \/ EndpointStopFails(e)

\* Native calls settle and a consumer that was asked to stop ends its run();
\* nothing is assumed of deadlines and failures.
Fairness ==
    /\ WF_vars(AdminReady \/ AdminClosed \/ StartupDone \/ StartupFails) /\ WF_vars(Cleanup)
    /\ WF_vars(Joined) /\ WF_vars(StopClosesAdmin) /\ WF_vars(Stopped) /\ WF_vars(StopThrows)
    /\ \A e \in Endpoints :
        /\ WF_vars(StartEndpoint(e)) /\ WF_vars(Supervise(e)) /\ WF_vars(EndpointStops(e))
        /\ WF_vars(quit[e] /\ RunEnded(e))

Spec == Init /\ [][Next]_vars
FairSpec == Spec /\ Fairness

(***************************************************************************)
(* Properties                                                              *)
(***************************************************************************)

\* Types, and the client a supervisor works with exists.
TypeOK ==
    /\ <<started, dsStopping, abandoned, admin>> \in BOOLEAN \X BOOLEAN \X BOOLEAN \X BOOLEAN
    /\ starting \in {"none", "admin", "closing", "endpoints", "cleanup"}
    /\ stopCall \in {"none", "join", "admin", "endpoints"}
    /\ \A e \in Endpoints :
        /\ sup[e] \in {"none", "restore", "connect", "subscribe", "abandon", "ready", "run",
                       "release", "delay", "done"}
        /\ consumer[e] # None => consumer[e] \in live[e]
        /\ sup[e] \in {"connect", "subscribe", "ready", "run"} => consumer[e] # None

\* No native consumer is lost: the endpoint owns every client that was not
\* disconnected, through failed cleanups, reconnects and cancelled starts.
ClientsOwned == \A e \in Endpoints : live[e] \subseteq {consumer[e]}

\* A data source that is not started, hence may be started again, has left
\* nothing behind: no client, no supervisor, no admin, no open binding.
QuietWhenStopped ==
    ~started =>
        /\ ~admin
        /\ \A e \in Endpoints : live[e] = {} /\ sup[e] = "none" /\ binding[e] = "off"
=============================================================================
