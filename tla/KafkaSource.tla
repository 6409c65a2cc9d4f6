---------------------------- MODULE KafkaSource -----------------------------
(***************************************************************************)
(* The endpoint consumer of src/datasource/kafka/confluent.ts: records     *)
(* that become requests.  A request's signal is aborted when its partition *)
(* assignment is lost, and all of them when the endpoint stops, which also *)
(* aborts the reconnect signal their contexts derive from.  The consumer   *)
(* that delivers the records is in KafkaConsumer.tla, the endpoint that    *)
(* owns it in KafkaEndpoint.tla.                                           *)
(***************************************************************************)
EXTENDS QueuedSource

CONSTANTS Starts   \* bound on start()

VARIABLES
    stopping,  \* a stop() call waits for the drain
    starts     \* calls of start(), for the bound

lifeVars == <<started, stopped, tasksAborted, stopping, starts>>
vars == <<queuedVars, stopping, starts>>

Init == QueuedInit /\ stopping = FALSE /\ starts = 0

\* start(), refused while tasks of the last run are active.
Start ==
    /\ ~started /\ Drained /\ ~stopping /\ starts < Starts
    /\ starts' = starts + 1
    /\ started' = TRUE /\ stopped' = FALSE /\ tasksAborted' = FALSE
    /\ UNCHANGED <<requestVars, slotVars, stopping>>

handle(r) ==
    /\ starts > 0
    /\ Handle(r)
    /\ UNCHANGED <<stopping, starts>>

\* A woken waiter removes its wake-up function, if it is still queued.
Unqueued(r) ==
    LET i == CHOOSE j \in 1..Len(waiters) : waiters[j] = r IN
    IF r \in Range(waiters)
    THEN SubSeq(waiters, 1, i - 1) \o SubSeq(waiters, i + 1, Len(waiters)) ELSE waiters

acquire(r) ==
    /\ stage[r] = "acquire"
    /\ AcquireFrom(r, Unqueued(r))
    /\ UNCHANGED <<hasResult, failure, cancelled, pending, activeRequests, resultVars,
                   lifeVars>>

\* consumeMessage() without a result stream: done() was called, so only a
\* signal that is aborted already makes waitForResult() fail.
ConsumedWithoutResult(r) ==
    /\ stage[r] = "consume" /\ ~hasResult
    /\ completed' = [completed EXCEPT ![r] = TRUE]
    /\ failure' = [failure EXCEPT ![r] = IF Aborted(r) THEN "cancelled" ELSE @]
    /\ Goto(r, "end")
    /\ UNCHANGED <<hasResult, cancelled, pending, activeRequests, registered, retiring,
                   callbackOf, delivered>>

waitForResult(r) == Awaited(r, Aborted(r))

handleTraced(r) ==
    /\ \/ /\ \/ Begins(r) \/ ConsumeFails(r) \/ waitForResult(r) \/ Quiesced(r)
             \/ Retired(r)
             \/ hasResult /\ Consumed(r)
             \/ ConsumedWithoutResult(r)
          /\ UNCHANGED slotVars
       \/ BeginFails(r)
       \/ Refused(r)
       \/ Ended(r)
    /\ UNCHANGED lifeVars

\* The record's assignment is lost.  The abort listener wakes a waiter, whose
\* wake-up function stays in #waiters until its turn comes.
revoke(r) ==
    /\ ~cancelled[r] /\ stage[r] # "done"
    /\ cancelled' = [cancelled EXCEPT ![r] = TRUE]
    /\ stage' = [stage EXCEPT ![r] = IF @ = "queued" THEN "acquire" ELSE @]
    /\ UNCHANGED <<hasResult, failure, pending, activeRequests, resultVars, slotVars,
                   lifeVars>>

results(r) ==
    /\ Register(r) \/ Done(r)
    /\ UNCHANGED <<slotVars, lifeVars>>

consumeResult(d) ==
    /\ hasResult
    /\ Deliver(d) \/ CallbackEnds(d)
    /\ UNCHANGED <<slotVars, lifeVars>>

\* stopAdmission() of the endpoint aborts the requests, that of its consumer
\* wakes the waiters.
StopAdmission ==
    /\ started
    /\ started' = FALSE /\ stopped' = TRUE /\ tasksAborted' = TRUE
    /\ WakeAll
    /\ UNCHANGED <<hasResult, failure, cancelled, pending, activeRequests, resultVars,
                   active, stopping, starts>>

\* stop(), after a stopAdmission() or not, and again after a deadline.
Stop ==
    /\ started \/ stopped
    /\ ~stopping
    /\ stopping' = TRUE
    /\ IF started
       THEN /\ started' = FALSE /\ stopped' = TRUE /\ tasksAborted' = TRUE
            /\ WakeAll
            /\ UNCHANGED <<hasResult, failure, cancelled, pending, activeRequests,
                           resultVars, active, starts>>
       ELSE UNCHANGED <<queuedVars, starts>>

Stopped ==
    /\ stopping /\ Drained
    /\ stopping' = FALSE
    /\ UNCHANGED <<queuedVars, starts>>

\* waitForKafkaShutdown() gives up; the registry, cancelled now, keeps what
\* is active for the next stop().
StopTimeout ==
    /\ stopping
    /\ stopping' = FALSE
    /\ UNCHANGED <<queuedVars, starts>>

Next ==
    \/ Start \/ StopAdmission \/ Stop \/ Stopped \/ StopTimeout
    \/ \E r \in Requests :
        handle(r) \/ acquire(r) \/ handleTraced(r) \/ revoke(r) \/ results(r)
    \/ \E d \in Deliveries : consumeResult(d)

\* Application promises settle and promise reactions run.
Fairness ==
    /\ \A r \in Requests : WF_vars(acquire(r)) /\ WF_vars(handleTraced(r))
    /\ \A d \in Deliveries : WF_vars(CallbackEnds(d) /\ UNCHANGED <<slotVars, lifeVars>>)
    /\ WF_vars(Stopped)

Spec == Init /\ [][Next]_vars
FairSpec == Spec /\ Fairness

(***************************************************************************)
(* Properties                                                              *)
(***************************************************************************)

\* The type invariant; a queued request can be woken.
TypeOK ==
    /\ stage \in [Requests -> {"new", "acquire", "queued", "begin", "refuse", "consume",
                               "wait", "retire", "retired", "end", "done"}]
    /\ failure \in [Requests -> {"none", "cancelled", "error"}]
    /\ pending \in [StreamIds -> Requests \cup {None}]
    /\ registered \in [Requests -> {"unset", "set", "removed"}]
    /\ callbackOf \in [Deliveries -> Requests \cup {None}]
    /\ activeRequests \in Nat /\ active \in Nat
    /\ {r \in Requests : stage[r] = "queued"} \subseteq Range(waiters)

\* A wake-up function is queued at most once and never outlives its request:
\* a wake given to it would be lost for the requests behind it.
QueueIsLive ==
    /\ IsInjective(waiters)
    /\ \A w \in Range(waiters) : stage[w] \in {"queued", "acquire"}
=============================================================================
