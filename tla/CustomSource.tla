---------------------------- MODULE CustomSource ----------------------------
(***************************************************************************)
(* The custom data source of src/datasource/localsource/custom.ts: an      *)
(* application producer whose values become requests, and the stop of the  *)
(* endpoint, which drains the requests before it stops the producer and    *)
(* can be called again when its deadline passed.                           *)
(***************************************************************************)
EXTENDS QueuedSource

CONSTANTS Starts   \* bound on start()

VARIABLES
    open,      \* #started of the endpoint
    producer,  \* "idle", "running", "cancelled" or "ended"
    stop,      \* the await at which stop() of the endpoint stands
    starts     \* calls of start(), for the bound

lifeVars == <<open, producer, stop, starts>>
consumerVars == <<started, stopped, tasksAborted>>
vars == <<queuedVars, lifeVars>>

Init ==
    /\ QueuedInit
    /\ open = FALSE
    /\ producer = "idle"
    /\ stop = "none"
    /\ starts = 0

\* start() of the endpoint and its consumer, with new registries.
Start ==
    /\ ~open /\ ~started /\ stop = "none" /\ starts < Starts
    /\ starts' = starts + 1
    /\ open' = TRUE /\ started' = TRUE
    /\ stopped' = FALSE /\ tasksAborted' = FALSE
    /\ producer' = "running"
    /\ UNCHANGED <<requestVars, slotVars, stop>>

\* The producer hands a value over; it may do so until its start() settled.
consume(r) ==
    /\ producer \in {"running", "cancelled"}
    /\ Handle(r)
    /\ UNCHANGED lifeVars

ProducerEnds ==
    /\ producer \in {"running", "cancelled"}
    /\ producer' = "ended"
    /\ UNCHANGED <<queuedVars, open, stop, starts>>

\* A waiter has no abort listener: it notices its signal when it is woken.
acquire(r) ==
    /\ stage[r] = "acquire"
    /\ AcquireFrom(r, waiters)
    /\ UNCHANGED <<hasResult, failure, cancelled, pending, activeRequests, resultVars,
                   consumerVars, lifeVars>>

\* consumeMessage() of a request without a result stream ends the request.
ConsumedWithoutResult(r) ==
    /\ stage[r] = "consume" /\ ~hasResult
    /\ Goto(r, "end")
    /\ UNCHANGED <<hasResult, failure, cancelled, pending, activeRequests, resultVars>>

handleTraced(r) ==
    /\ \/ /\ \/ Begins(r) \/ ConsumeFails(r) \/ Awaited(r, Aborted(r)) \/ Quiesced(r)
             \/ Retired(r)
             \/ hasResult /\ Consumed(r)
             \/ ConsumedWithoutResult(r)
          /\ UNCHANGED slotVars
       \/ BeginFails(r)
       \/ Refused(r)
       \/ Ended(r)
    /\ UNCHANGED <<consumerVars, lifeVars>>

results(r) ==
    /\ Register(r) \/ Done(r) \/ Cancel(r)
    /\ UNCHANGED <<slotVars, consumerVars, lifeVars>>

consumeResult(d) ==
    /\ hasResult
    /\ Deliver(d) \/ CallbackEnds(d)
    /\ UNCHANGED <<slotVars, consumerVars, lifeVars>>

(***************************************************************************)
(* stop()                                                                  *)
(***************************************************************************)

\* The consumer stops first, unless an earlier stop() got that far.
Stop ==
    /\ open /\ stop = "none"
    /\ IF started
       THEN /\ stop' = "draining"
            /\ stopped' = TRUE /\ tasksAborted' = TRUE
            /\ WakeAll
            /\ UNCHANGED producer
       ELSE /\ stop' = "producer"
            /\ producer' = IF producer = "running" THEN "cancelled" ELSE producer
            /\ UNCHANGED <<stage, concurrency, waiters, stopped, tasksAborted>>
    /\ UNCHANGED <<hasResult, failure, cancelled, pending, activeRequests, resultVars,
                   active, started, open, starts>>

\* The requests have drained: the producer's signal is aborted and its
\* stop() is called.
ConsumerStopped ==
    /\ stop = "draining" /\ Drained
    /\ started' = FALSE
    /\ stop' = "producer"
    /\ producer' = IF producer = "running" THEN "cancelled" ELSE producer
    /\ UNCHANGED <<requestVars, slotVars, stopped, tasksAborted, open, starts>>

\* The producer's stop() settled; an error is kept until its task drained.
ProducerStopped ==
    /\ stop = "producer"
    /\ stop' \in {"producerDrain", "producerFailed"}
    /\ UNCHANGED <<queuedVars, open, producer, starts>>

Stopped ==
    /\ stop \in {"producerDrain", "producerFailed"} /\ producer = "ended"
    /\ open' = (stop = "producerFailed")
    /\ stop' = "none"
    /\ UNCHANGED <<queuedVars, producer, starts>>

\* A deadline rejects stop(), which leaves the endpoint to a later stop().
StopTimeout ==
    /\ stop \in {"draining", "producerDrain", "producerFailed"}
    /\ stop' = "none"
    /\ UNCHANGED <<queuedVars, open, producer, starts>>

Idle ==
    /\ starts = Starts /\ ~open
    /\ UNCHANGED vars

Next ==
    \/ Start \/ ProducerEnds \/ Stop \/ ConsumerStopped \/ ProducerStopped \/ Stopped
    \/ StopTimeout \/ Idle
    \/ \E r \in Requests : consume(r) \/ acquire(r) \/ handleTraced(r) \/ results(r)
    \/ \E d \in Deliveries : consumeResult(d)

\* Application promises settle and promise reactions run.  Nothing makes a
\* handler report a result, and nothing makes the owner call stop().
Fairness ==
    /\ \A r \in Requests : WF_vars(acquire(r)) /\ WF_vars(handleTraced(r))
    /\ \A d \in Deliveries :
        WF_vars(CallbackEnds(d) /\ UNCHANGED <<slotVars, consumerVars, lifeVars>>)
    /\ WF_vars(ConsumerStopped) /\ WF_vars(ProducerStopped) /\ WF_vars(Stopped)
    /\ WF_vars(producer = "cancelled" /\ ProducerEnds)

Spec == Init /\ [][Next]_vars
FairSpec == Spec /\ Fairness

(***************************************************************************)
(* Properties                                                              *)
(***************************************************************************)

\* The type invariant.
TypeOK ==
    /\ stage \in [Requests -> {"new", "acquire", "queued", "begin", "refuse", "consume",
                               "wait", "retire", "retired", "end", "done"}]
    /\ failure \in [Requests -> {"none", "cancelled", "error"}]
    /\ pending \in [StreamIds -> Requests \cup {None}]
    /\ registered \in [Requests -> {"unset", "set", "removed"}]
    /\ callbackOf \in [Deliveries -> Requests \cup {None}]
    /\ activeRequests \in Nat /\ active \in Nat
    /\ Range(waiters) = {r \in Requests : stage[r] = "queued"}
    /\ producer \in {"idle", "running", "cancelled", "ended"}
    /\ stop \in {"none", "draining", "producer", "producerDrain", "producerFailed"}
=============================================================================
