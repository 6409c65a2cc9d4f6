----------------------------- MODULE GrpcSource -----------------------------
(***************************************************************************)
(* One endpoint of the gRPC data source of src/datasource/grpc/grpc-js.ts  *)
(* in one of its four modes: the calls the data source tracks, their       *)
(* handlers, which reserve the stream ID until endRequest() is done, and   *)
(* the shutdown.  The listener that data sources share is in GrpcHost.tla. *)
(***************************************************************************)
EXTENDS SourceRequest

CONSTANTS
    Modes,     \* some of "unary", "client", "server" and "bidi" streaming
    MaxWrites  \* bound on the writes of one call that are not delivered yet

VARIABLES
    mode,       \* the mode of the endpoint; never changes
    holds,      \* requests that reserved their stream ID (the local `pending`)
    response,   \* per request: a unary response was given to its sender
    tail,       \* per request: writes of the streaming sender in delivery
    sending,    \* #active of the streaming sender
    answered,   \* per request: the last answer, "none", "ok" or "error"
    admitting,  \* #admitting
    calls,      \* #calls: calls that were not completed or cancelled
    stop        \* stopListening(): "none", "draining" or "stopped"

senderVars == <<response, tail, sending, answered>>
sourceVars == <<mode, admitting, stop>>
vars == <<requestVars, holds, senderVars, calls, sourceVars>>

Init ==
    /\ RequestInit
    /\ mode \in Modes
    /\ holds = {}
    /\ response = [r \in Requests |-> FALSE]
    /\ tail = [r \in Requests |-> 0]
    /\ sending = [r \in Requests |-> FALSE]
    /\ answered = [r \in Requests |-> "none"]
    /\ admitting = TRUE
    /\ calls = {}
    /\ stop = "none"

Streams == mode \in {"server", "bidi"}       \* responses
StreamsIn == mode \in {"client", "bidi"}     \* requests
Active(r) == stage[r] \notin {"new", "rejected", "done"}

(***************************************************************************)
(* Calls                                                                   *)
(***************************************************************************)

\* trackHandler(): the call is tracked and its handler begins, or it is
\* answered with UNAVAILABLE.
Call(r) ==
    /\ stage[r] = "new"
    /\ IF admitting
       THEN /\ Goto(r, "begin")
            /\ calls' = calls \cup {r}
            /\ sending' = [sending EXCEPT ![r] = Streams]
       ELSE Goto(r, "rejected") /\ UNCHANGED <<calls, sending>>
    /\ UNCHANGED <<hasResult, failure, cancelled, pending, activeRequests, resultVars,
                   holds, response, tail, answered, sourceVars>>

\* The event "cancelled" aborts the handler's context and releases the call.
ClientCancels(r) ==
    /\ r \in calls
    /\ cancelled' = [cancelled EXCEPT ![r] = TRUE]
    /\ calls' = calls \ {r}
    /\ UNCHANGED <<hasResult, stage, failure, pending, activeRequests, resultVars, holds,
                   senderVars, sourceVars>>

\* The handler's answer was sent: callback, "finish" or "error".
Release(r) ==
    /\ stage[r] = "done" /\ r \in calls
    /\ calls' = calls \ {r}
    /\ UNCHANGED <<requestVars, holds, senderVars, sourceVars>>

(***************************************************************************)
(* handleCall()                                                            *)
(***************************************************************************)

localVars == <<holds, senderVars>>

BeginFails(r) ==
    /\ stage[r] = "begin"
    /\ Goto(r, "done")
    /\ sending' = [sending EXCEPT ![r] = FALSE]
    /\ answered' = [answered EXCEPT ![r] = "error"]
    /\ UNCHANGED <<hasResult, failure, cancelled, pending, activeRequests, resultVars,
                   holds, response, tail>>

\* beginRequest() settled and the stream ID is free: every mode reserves it.
Reserve(r) ==
    /\ stage[r] = "begin" /\ Free(r)
    /\ onRequestStart
    /\ Hold(r) /\ holds' = holds \cup {r}
    /\ Goto(r, IF StreamsIn THEN "recv" ELSE "consume")
    /\ UNCHANGED <<hasResult, failure, cancelled, resultVars, senderVars>>

\* The error "duplicate key" goes to endRequest().
Duplicate(r) ==
    /\ stage[r] = "begin" /\ ~Free(r)
    /\ onRequestStart
    /\ failure' = [failure EXCEPT ![r] = "error"]
    /\ Goto(r, "end")
    /\ UNCHANGED <<hasResult, cancelled, pending, resultVars, localVars>>

\* A message of a client's stream, or its end.
Receive(r) ==
    /\ stage[r] = "recv"
    /\ \/ Goto(r, "consume") /\ ~cancelled[r]
       \/ Goto(r, "eof")
    /\ UNCHANGED <<hasResult, failure, cancelled, pending, activeRequests, resultVars,
                   localVars>>

ConsumedMessage(r) ==
    /\ stage[r] = "consume"
    /\ Goto(r, IF StreamsIn THEN "recv" ELSE "eof")
    /\ UNCHANGED <<hasResult, failure, cancelled, pending, activeRequests, resultVars,
                   localVars>>

\* eof() settled, with a result to await.
EofAwaits(r) ==
    /\ stage[r] = "eof" /\ hasResult
    /\ Goto(r, "wait")
    /\ UNCHANGED <<hasResult, failure, cancelled, pending, activeRequests, resultVars,
                   localVars>>

\* eof() settled, without a result: client streaming sends an empty message.
EofEnds(r) ==
    /\ stage[r] = "eof" /\ ~hasResult
    /\ Retire(r)
    /\ response' = [response EXCEPT ![r] = @ \/ mode = "client"]
    /\ UNCHANGED <<hasResult, failure, holds, tail, sending, answered>>

\* Reading, consumeMessage() or eof() fails.
Fails(r) ==
    /\ stage[r] \in {"recv", "consume", "eof"}
    /\ failure' = [failure EXCEPT ![r] = "error"]
    /\ Retire(r)
    /\ UNCHANGED <<hasResult, localVars>>

\* After retire(), which also released the callbacks; the stream ID stays
\* reserved while endRequest() runs.
RetiredKeeps(r) ==
    /\ stage[r] = "retired"
    /\ failure' = [failure EXCEPT ![r] = IF @ = "cancelled" /\ completed[r] THEN "none" ELSE @]
    /\ Goto(r, "end")
    /\ UNCHANGED <<hasResult, cancelled, pending, activeRequests, resultVars, localVars>>

\* endRequest() settled; its error is the request's if there was none.  A
\* streaming sender is closed.
EndRequest(r) ==
    /\ stage[r] = "end"
    /\ \/ UNCHANGED failure
       \/ failure[r] = "none" /\ failure' = [failure EXCEPT ![r] = "error"]
    /\ sending' = [sending EXCEPT ![r] = FALSE]
    /\ Goto(r, "close")
    /\ UNCHANGED <<hasResult, cancelled, pending, activeRequests, resultVars, holds,
                   response, tail, answered>>

\* close() settled when the last write did: onRequestEnd(), the reservation
\* is given up, and the call is answered.
Closed(r) ==
    /\ stage[r] = "close" /\ tail[r] = 0
    /\ onRequestEnd
    /\ pending' = IF r \in holds THEN [pending EXCEPT ![StreamId[r]] = None] ELSE pending
    /\ holds' = holds \ {r}
    /\ answered' = [answered EXCEPT ![r] =
            IF failure[r] = "none" /\ (mode = "unary" => response[r]) THEN "ok" ELSE "error"]
    /\ Goto(r, "done")
    /\ Forget(r)
    /\ UNCHANGED <<hasResult, cancelled, response, tail, sending>>

waitForResult(r) == Awaited(r, cancelled[r])

\* The parts of handleCall(), the same in the four modes: up to the reserved
\* stream ID, the body of its try, and its finally.
Admission(r) == BeginFails(r) \/ Reserve(r) \/ Duplicate(r)

Body(r) ==
    \/ Receive(r) \/ ConsumedMessage(r) \/ EofAwaits(r) \/ EofEnds(r) \/ Fails(r)
    \/ waitForResult(r) /\ UNCHANGED localVars

Finally(r) ==
    \/ Quiesced(r) /\ UNCHANGED localVars
    \/ RetiredKeeps(r) \/ EndRequest(r) \/ Closed(r)

handleCall(r) ==
    /\ Admission(r) \/ Body(r) \/ Finally(r)
    /\ UNCHANGED <<calls, sourceVars>>

(***************************************************************************)
(* Results and senders                                                     *)
(***************************************************************************)

\* done() completes the result, except in unary mode.
results(r) ==
    /\ \/ Register(r)
       \/ mode # "unary" /\ Done(r)
    /\ UNCHANGED <<localVars, calls, sourceVars>>

consumeResult(d) ==
    /\ hasResult
    /\ Deliver(d) \/ CallbackEnds(d)
    /\ UNCHANGED <<localVars, calls, sourceVars>>

\* UnarySender.send(), by the handler, a callback or whoever kept the sender:
\* the first value is the response and completes the result.
SendUnary(r) ==
    /\ ~Streams /\ ~response[r]
    /\ r \in holds /\ stage[r] # "retired"
    /\ response' = [response EXCEPT ![r] = TRUE]
    /\ completed' = [completed EXCEPT ![r] = TRUE]
    /\ UNCHANGED <<hasResult, stage, failure, cancelled, pending, activeRequests,
                   registered, retiring, callbackOf, delivered, holds, tail, sending,
                   answered, calls, sourceVars>>

\* StreamingSender.send(), by whoever got the sender from consumeMessage() or
\* a callback and kept it; refused once closed.
Write(r) ==
    /\ r \in holds /\ sending[r] /\ tail[r] < MaxWrites
    /\ tail' = [tail EXCEPT ![r] = @ + 1]
    /\ UNCHANGED <<requestVars, holds, response, sending, answered, calls, sourceVars>>

Written(r) ==
    /\ tail[r] > 0
    /\ tail' = [tail EXCEPT ![r] = @ - 1]
    /\ UNCHANGED <<requestVars, holds, response, sending, answered, calls, sourceVars>>

(***************************************************************************)
(* stop()                                                                  *)
(***************************************************************************)

Stop ==
    /\ stop = "none"
    /\ admitting' = FALSE
    /\ stop' = "draining"
    /\ UNCHANGED <<requestVars, localVars, calls, mode>>

Idle ==
    /\ stop = "draining" /\ calls = {}
    /\ stop' = "stopped"
    /\ UNCHANGED <<requestVars, localVars, calls, mode, admitting>>

\* The deadline passes: every tracked call is cancelled, which releases it
\* and answers its client; the handlers end on their own.
StopDeadline ==
    /\ stop = "draining" /\ calls # {}
    /\ cancelled' = [r \in Requests |-> cancelled[r] \/ r \in calls]
    /\ calls' = {}
    /\ stop' = "stopped"
    /\ UNCHANGED <<hasResult, stage, failure, pending, activeRequests, resultVars,
                   localVars, mode, admitting>>

Next ==
    \/ Stop \/ Idle \/ StopDeadline
    \/ \E r \in Requests :
        \/ Call(r) \/ ClientCancels(r) \/ Release(r)
        \/ handleCall(r) \/ results(r)
        \/ SendUnary(r) \/ Write(r) \/ Written(r)
    \/ \E d \in Deliveries : consumeResult(d)

\* Application promises settle and writes are flushed or fail.  No client
\* must cancel, no result must come, and no deadline must pass.
Fairness ==
    /\ \A r \in Requests :
        /\ WF_vars(handleCall(r) /\ stage[r] # "recv")
        /\ WF_vars(handleCall(r) /\ stage[r] = "recv" /\ cancelled[r])
        /\ WF_vars(Release(r)) /\ WF_vars(Written(r))
    /\ \A d \in Deliveries : WF_vars(CallbackEnds(d) /\ UNCHANGED <<localVars, calls,
                                                                    sourceVars>>)
    /\ WF_vars(Idle)

Spec == Init /\ [][Next]_vars
FairSpec == Spec /\ Fairness

(***************************************************************************)
(* Properties                                                              *)
(***************************************************************************)

\* The type invariant.
TypeOK ==
    /\ mode \in Modes
    /\ stage \in [Requests -> {"new", "rejected", "begin", "recv", "consume", "eof", "wait",
                               "retire", "retired", "end", "close", "done"}]
    /\ failure \in [Requests -> {"none", "cancelled", "error"}]
    /\ pending \in [StreamIds -> Requests \cup {None}]
    /\ callbackOf \in [Deliveries -> Requests \cup {None}]
    /\ holds \subseteq {r \in Requests : Active(r)}
    /\ tail \in [Requests -> 0..MaxWrites]
    /\ answered \in [Requests -> {"none", "ok", "error"}]
    /\ calls \subseteq {r \in Requests : Active(r) \/ stage[r] = "done"}

\* "All four source RPC modes reserve each active `streamId` until EndRequest
\* finishes, including requests without a result stream" (README.md:62-63):
\* an accepted request is the one its stream ID leads to until it is done,
\* whatever duplicates were refused meanwhile.
ReservedUntilEnded ==
    \A r \in Requests :
        /\ r \in holds => pending[StreamId[r]] = r
        /\ stage[r] \in {"recv", "consume", "eof", "wait", "retire", "retired"} => r \in holds

\* A streamed call is only ended when every write that its sender accepted
\* has been delivered, and no write follows, although handlers, callbacks
\* and detached branches send while the request ends.
WritesBeforeEnd ==
    \A r \in Requests : stage[r] = "done" => tail[r] = 0

\* A unary call succeeds only with a response, also when its result was
\* completed while the call was being cancelled.
UnaryAnswerHasResponse ==
    \A r \in Requests : mode = "unary" /\ answered[r] = "ok" => response[r]

\* When the shutdown has returned, every handler that still runs has been
\* cancelled.
StopLeavesOnlyCancelled ==
    stop = "stopped" => \A r \in Requests : Active(r) => cancelled[r]
=============================================================================
