----------------------------- MODULE HttpSource -----------------------------
(***************************************************************************)
(* The HTTP data source of src/datasource/http/node-http.ts with one       *)
(* endpoint: the listener, the requests, and a shutdown that closes        *)
(* admission, then the listener, then waits for the accepted requests      *)
(* until its deadline and cancels the rest.                                *)
(***************************************************************************)
EXTENDS SourceRequest

VARIABLES
    dedicated,   \* usededicatedListener, else the service's listener is used
    life,        \* the data source: "new", "listening" (awaited), "up", "failed"
    started,     \* #started of the endpoint consumer
    stop,        \* how far stop() is
    expired,     \* the context of stop() is cancelled or past its deadline
    tasksAborted, \* cancel() of the registry
    connections  \* requests whose response has not ended

lifeVars == <<dedicated, life, started, stop, expired, tasksAborted>>
vars == <<requestVars, lifeVars, connections>>

Init ==
    /\ RequestInit
    /\ dedicated \in BOOLEAN
    /\ life = "new"
    /\ started = FALSE
    /\ stop = "none"
    /\ expired = FALSE
    /\ tasksAborted = FALSE
    /\ connections = {}

Active(r) == stage[r] \notin {"new", "rejected", "done"}
Aborted(r) == cancelled[r] \/ tasksAborted

(***************************************************************************)
(* start()                                                                 *)
(***************************************************************************)

Start ==
    /\ life = "new"
    /\ life' = IF dedicated THEN "listening" ELSE "up"
    /\ started' = TRUE
    /\ UNCHANGED <<requestVars, dedicated, stop, expired, tasksAborted, connections>>

Listening ==
    /\ life = "listening"
    /\ life' = "up"
    /\ UNCHANGED <<requestVars, dedicated, started, stop, expired, tasksAborted,
                   connections>>

\* listen() fails or is cancelled: the endpoints are stopped again, for good.
ListenFails ==
    /\ life = "listening"
    /\ life' = "failed"
    /\ started' = FALSE
    /\ UNCHANGED <<requestVars, dedicated, stop, expired, tasksAborted, connections>>

(***************************************************************************)
(* Requests                                                                *)
(***************************************************************************)

\* A request reaches the endpoint through the listener, which may still
\* deliver one while it closes: admitted, or answered with status 503.
serveHttp(r) ==
    /\ stage[r] = "new"
    /\ dedicated => life = "up" /\ stop \in {"none", "closing"}
    /\ IF started
       THEN Goto(r, "begin") /\ connections' = connections \cup {r}
       ELSE Goto(r, "rejected") /\ UNCHANGED connections
    /\ UNCHANGED <<hasResult, failure, cancelled, pending, activeRequests, resultVars,
                   lifeVars>>

\* requestCancellation(): the peer goes before the response has ended.
Disconnect(r) ==
    /\ r \in connections
    /\ connections' = connections \ {r}
    /\ cancelled' = [cancelled EXCEPT ![r] = TRUE]
    /\ UNCHANGED <<hasResult, stage, failure, pending, activeRequests, resultVars,
                   lifeVars>>

\* The handler, or a callback of it, ends the response.
ResponseEnds(r) ==
    /\ r \in connections
    /\ connections' = connections \ {r}
    /\ UNCHANGED <<requestVars, lifeVars>>

\* complete(): the request's context is cancelled when it is served.
Complete(r) ==
    /\ Goto(r, "done")
    /\ cancelled' = [cancelled EXCEPT ![r] = TRUE]

BeginFails(r) ==
    /\ stage[r] = "begin"
    /\ Complete(r)
    /\ UNCHANGED <<hasResult, failure, pending, activeRequests, resultVars>>

\* A duplicate stream ID is an error of the request like any other.
BeginsRefused(r) ==
    /\ stage[r] = "begin" /\ hasResult /\ ~Free(r)
    /\ onRequestStart
    /\ failure' = [failure EXCEPT ![r] = "error"]
    /\ Goto(r, "end")
    /\ UNCHANGED <<hasResult, cancelled, pending, resultVars>>

ConsumedWithoutResult(r) ==
    /\ stage[r] = "consume" /\ ~hasResult
    /\ Goto(r, "end")
    /\ UNCHANGED <<hasResult, failure, cancelled, pending, activeRequests, resultVars>>

\* endRequest() settled, with an error or not.
Ended(r) ==
    /\ stage[r] = "end"
    /\ onRequestEnd
    /\ Complete(r)
    /\ Forget(r)
    /\ UNCHANGED <<hasResult, pending>>

waitForDoneOrCancellation(r) == Awaited(r, Aborted(r))

serveAccepted(r) ==
    /\ \/ BeginFails(r) \/ BeginsRefused(r)
       \/ (hasResult => Free(r)) /\ Begins(r)
       \/ ConsumeFails(r)
       \/ hasResult /\ Consumed(r)
       \/ ConsumedWithoutResult(r)
       \/ waitForDoneOrCancellation(r) \/ Quiesced(r) \/ Retired(r)
       \/ Ended(r)
    /\ UNCHANGED <<lifeVars, connections>>

results(r) ==
    /\ Register(r) \/ Done(r)
    /\ UNCHANGED <<lifeVars, connections>>

consumeResult(d) ==
    /\ hasResult
    /\ Deliver(d) \/ CallbackEnds(d)
    /\ UNCHANGED <<lifeVars, connections>>

(***************************************************************************)
(* stop()                                                                  *)
(***************************************************************************)

\* stopAdmission(), called by the runtime before stop() or by stop() itself.
StopAdmission ==
    /\ life = "up" /\ stop = "none"
    /\ started' = FALSE
    /\ stop' = "closing"
    /\ UNCHANGED <<requestVars, dedicated, life, expired, tasksAborted, connections>>

\* closeServer() is done when no connection is left; the service's listener
\* is not closed by the source.
ServerClosed ==
    /\ stop = "closing"
    /\ dedicated => connections = {}
    /\ stop' = "draining"
    /\ UNCHANGED <<requestVars, dedicated, life, started, expired, tasksAborted,
                   connections>>

\* Mutant: the connections of a closing listener are left to their peers.
ExpireKeepsConnections ==
    /\ stop \in {"closing", "draining"} /\ ~expired
    /\ expired' = TRUE
    /\ UNCHANGED <<requestVars, dedicated, life, started, stop, tasksAborted, connections>>

\* The deadline passes or stop() is cancelled: a listener that is closing
\* cuts its connections.
Expire ==
    /\ stop \in {"closing", "draining"} /\ ~expired
    /\ expired' = TRUE
    /\ IF dedicated /\ stop = "closing"
       THEN /\ connections' = {}
            /\ cancelled' = [r \in Requests |-> cancelled[r] \/ r \in connections]
       ELSE UNCHANGED <<connections, cancelled>>
    /\ UNCHANGED <<hasResult, stage, failure, pending, activeRequests, resultVars,
                   dedicated, life, started, stop, tasksAborted>>

Drained ==
    /\ stop = "draining"
    /\ \A r \in Requests : ~Active(r)
    /\ stop' = "stopped"
    /\ UNCHANGED <<requestVars, dedicated, life, started, expired, tasksAborted,
                   connections>>

\* drainAcceptedTasks() cancels what is left at the deadline, and returns.
DrainExpired ==
    /\ stop = "draining" /\ expired
    /\ tasksAborted' = TRUE
    /\ stop' = "stopped"
    /\ UNCHANGED <<requestVars, dedicated, life, started, expired, connections>>

Next ==
    \/ Start \/ Listening \/ ListenFails
    \/ StopAdmission \/ ServerClosed \/ Expire \/ Drained \/ DrainExpired
    \/ \E r \in Requests :
        serveHttp(r) \/ Disconnect(r) \/ ResponseEnds(r) \/ serveAccepted(r) \/ results(r)
    \/ \E d \in Deliveries : consumeResult(d)

\* Application promises settle and reactions run; the context of a shutdown
\* has a deadline, as the generated executable gives it one (README.md, lines
\* 55 and 56).  No peer must disconnect, no response must end and no result
\* must come.
Fairness ==
    /\ \A r \in Requests : WF_vars(serveAccepted(r))
    /\ \A d \in Deliveries : WF_vars(CallbackEnds(d) /\ UNCHANGED <<lifeVars, connections>>)
    /\ WF_vars(ServerClosed) /\ WF_vars(Expire) /\ WF_vars(Drained \/ DrainExpired)

Spec == Init /\ [][Next]_vars
FairSpec == Spec /\ Fairness

(***************************************************************************)
(* Properties                                                              *)
(***************************************************************************)

\* The type invariant.
TypeOK ==
    /\ stage \in [Requests -> {"new", "rejected", "begin", "consume", "wait", "retire",
                               "retired", "end", "done"}]
    /\ failure \in [Requests -> {"none", "cancelled", "error"}]
    /\ pending \in [StreamIds -> Requests \cup {None}]
    /\ callbackOf \in [Deliveries -> Requests \cup {None}]
    /\ activeRequests \in Nat
    /\ connections \subseteq {r \in Requests : Active(r) \/ stage[r] = "done"}
    /\ life \in {"new", "listening", "up", "failed"}
    /\ stop \in {"none", "closing", "draining", "stopped"}

\* When stop() has returned, every request that is still being served has
\* been cancelled: the deadline never leaves a request running undisturbed.
StopLeavesOnlyCancelled ==
    stop = "stopped" => \A r \in Requests : Active(r) => Aborted(r)
=============================================================================
