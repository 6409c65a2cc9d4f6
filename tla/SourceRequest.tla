--------------------------- MODULE SourceRequest ----------------------------
(***************************************************************************)
(* What the request of every data source has in common: the correlation    *)
(* of results with the pending request of their stream ID, and the result  *)
(* object that is retired before EndRequest.  The source modules extend    *)
(* this one with the life of a request in their endpoint.                  *)
(*                                                                         *)
(* A handler is application code: its promises settle with or without an   *)
(* error, it may register a result callback and may report a result done.  *)
(* The message IDs within one request are one ID here, for which the       *)
(* handler registers one callback.                                         *)
(***************************************************************************)
EXTENDS Integers

CONSTANTS
    Requests, StreamIds,
    StreamId,    \* [Requests -> StreamIds], the ID carried by the context
    Deliveries,  \* results that the pipeline delivers, each once
    Target,      \* [Deliveries -> StreamIds]
    None

VARIABLES
    hasResult,   \* the input stream has a result stream; never changes
    stage,       \* per request, the await at which its handler stands
    failure,     \* per request: "none", "cancelled" while waiting, or "error"
    cancelled,   \* per request: its own context was cancelled
    pending,     \* the request that holds a stream ID
    registered,  \* per request: its callback is "unset", "set" or "removed"
    completed,   \* per request: done() was called
    retiring,    \* per request: retire() was called
    callbackOf,  \* per delivery, the request whose callback is running
    delivered,   \* deliveries that were made
    activeRequests \* the gauge of onRequestStart and onRequestEnd

resultVars == <<registered, completed, retiring, callbackOf, delivered>>
requestVars == <<hasResult, stage, failure, cancelled, pending, activeRequests, resultVars>>

RequestInit ==
    /\ hasResult \in BOOLEAN
    /\ stage = [r \in Requests |-> "new"]
    /\ failure = [r \in Requests |-> "none"]
    /\ cancelled = [r \in Requests |-> FALSE]
    /\ pending = [s \in StreamIds |-> None]
    /\ registered = [r \in Requests |-> "unset"]
    /\ completed = [r \in Requests |-> FALSE]
    /\ retiring = [r \in Requests |-> FALSE]
    /\ callbackOf = [d \in Deliveries |-> None]
    /\ delivered = {}
    /\ activeRequests = 0

Running(r) == {d \in Deliveries : callbackOf[d] = r}

Goto(r, s) == stage' = [stage EXCEPT ![r] = s]

\* The endpoint's active_requests gauge.
onRequestStart == activeRequests' = activeRequests + 1
onRequestEnd == activeRequests' = activeRequests - 1

(***************************************************************************)
(* The result object                                                       *)
(***************************************************************************)

\* setResultCallback(), while the message is consumed or its result awaited.
Register(r) ==
    /\ stage[r] \in {"recv", "consume", "eof", "wait"} /\ registered[r] = "unset"
    /\ registered' = [registered EXCEPT ![r] = "set"]
    /\ UNCHANGED <<hasResult, stage, failure, cancelled, pending, activeRequests, completed,
                   retiring, callbackOf, delivered>>

\* done(), from the handler or a callback of it.
Done(r) ==
    /\ stage[r] \in {"recv", "consume", "eof", "wait", "retire"} /\ ~completed[r]
    /\ completed' = [completed EXCEPT ![r] = TRUE]
    /\ UNCHANGED <<hasResult, stage, failure, cancelled, pending, activeRequests,
                   registered, retiring, callbackOf, delivered>>

\* Mutant: a request that retires still accepts results.
AcceptsRetiring(r) == r # None /\ registered[r] = "set"

\* beginCallback(): the request is pending, not retiring, and has a callback.
Accepts(r) == r # None /\ ~retiring[r] /\ registered[r] = "set"

\* consumeResult(): a late result, or one without a callback, is dropped.
Deliver(d) ==
    /\ d \notin delivered
    /\ delivered' = delivered \cup {d}
    /\ LET r == pending[Target[d]] IN
       callbackOf' = IF Accepts(r) THEN [callbackOf EXCEPT ![d] = r] ELSE callbackOf
    /\ UNCHANGED <<hasResult, stage, failure, cancelled, pending, activeRequests,
                   registered, completed, retiring>>

\* The callback settles; true removes it, unless another one did already.
CallbackEnds(d) ==
    /\ callbackOf[d] # None
    /\ callbackOf' = [callbackOf EXCEPT ![d] = None]
    /\ \/ UNCHANGED registered
       \/ registered' = [registered EXCEPT ![callbackOf[d]] = "removed"]
    /\ UNCHANGED <<hasResult, stage, failure, cancelled, pending, activeRequests, completed,
                   retiring, delivered>>

\* The context of a request is cancelled by its peer or deadline.
Cancel(r) ==
    /\ stage[r] # "done" /\ ~cancelled[r]
    /\ cancelled' = [cancelled EXCEPT ![r] = TRUE]
    /\ UNCHANGED <<hasResult, stage, failure, pending, activeRequests, resultVars>>

\* The result object is garbage once its request has ended.
Forget(r) ==
    /\ failure' = [failure EXCEPT ![r] = "none"]
    /\ registered' = [registered EXCEPT ![r] = "unset"]
    /\ completed' = [completed EXCEPT ![r] = FALSE]
    /\ retiring' = [retiring EXCEPT ![r] = FALSE]
    /\ UNCHANGED <<callbackOf, delivered>>

(***************************************************************************)
(* The handler.  After a step the request stands at its next await; the    *)
(* step that leaves endRequest() is completed by the source.               *)
(***************************************************************************)

Free(r) == pending[StreamId[r]] = None
Hold(r) == pending' = [pending EXCEPT ![StreamId[r]] = r]
Drop(r) == pending' = [pending EXCEPT ![StreamId[r]] = None]

\* Mutant: a request with an active stream ID takes its entry over.
BeginsTakesOver(r) ==
    /\ stage[r] = "begin"
    /\ onRequestStart
    /\ Hold(r) /\ Goto(r, "consume")
    /\ UNCHANGED <<hasResult, failure, cancelled, resultVars>>

\* beginRequest() settled: the request is counted, and its result becomes
\* pending unless a request with the same stream ID is.
Begins(r) ==
    /\ stage[r] = "begin"
    /\ onRequestStart
    /\ \/ ~hasResult /\ UNCHANGED pending /\ Goto(r, "consume")
       \/ hasResult /\ Free(r) /\ Hold(r) /\ Goto(r, "consume")
       \/ hasResult /\ ~Free(r) /\ UNCHANGED pending /\ Goto(r, "refuse")
    /\ UNCHANGED <<hasResult, failure, cancelled, resultVars>>

\* retire() marks the result; the handler goes on when no callback runs.
Retire(r) ==
    /\ Goto(r, "retire")
    /\ retiring' = [retiring EXCEPT ![r] = TRUE]
    /\ UNCHANGED <<hasResult, cancelled, pending, activeRequests, registered, completed,
                   callbackOf, delivered>>

\* consumeMessage() settled without an error and there is a result to await.
Consumed(r) ==
    /\ stage[r] = "consume"
    /\ Goto(r, "wait")
    /\ UNCHANGED <<hasResult, failure, cancelled, pending, activeRequests, resultVars>>

ConsumeFails(r) ==
    /\ stage[r] = "consume"
    /\ failure' = [failure EXCEPT ![r] = "error"]
    /\ IF hasResult THEN Retire(r)
       ELSE Goto(r, "end") /\ UNCHANGED <<hasResult, cancelled, pending, activeRequests,
                                          resultVars>>

\* Mutant: the signal is not listened to.
AwaitedUnheard(r, aborted) ==
    /\ stage[r] = "wait" /\ completed[r]
    /\ UNCHANGED failure
    /\ Retire(r)

\* waitForResult() settles: with the result, or, when the signal is aborted,
\* with its reason; a signal that was aborted before wins over a result.
Awaited(r, aborted) ==
    /\ stage[r] = "wait"
    /\ \/ completed[r] /\ UNCHANGED failure
       \/ aborted /\ failure' = [failure EXCEPT ![r] = "cancelled"]
    /\ Retire(r)

\* No callback runs, or the last one resolved the promise of retire(); the
\* handler goes on in a later turn.
Quiesced(r) ==
    /\ stage[r] = "retire" /\ Running(r) = {}
    /\ Goto(r, "retired")
    /\ UNCHANGED <<hasResult, failure, cancelled, pending, activeRequests, resultVars>>

\* After retire(): a result that completed meanwhile wins after all, the
\* stream ID is free, and endRequest() is called.
Retired(r) ==
    /\ stage[r] = "retired"
    /\ failure' = [failure EXCEPT ![r] = IF @ = "cancelled" /\ completed[r] THEN "none" ELSE @]
    /\ Drop(r)
    /\ Goto(r, "end")
    /\ UNCHANGED <<hasResult, cancelled, activeRequests, resultVars>>

(***************************************************************************)
(* Properties of every source                                              *)
(***************************************************************************)

\* An active result callback finishes before EndRequest, and none starts
\* after it: the handler's state is not used by a callback once endRequest()
\* was called for it (README.md:67-68, retire()).
CallbacksBeforeEnd ==
    \A r \in Requests : stage[r] \in {"end", "close", "done"} => Running(r) = {}

\* A request that waits for its result can be found under its stream ID,
\* whatever requests with the same ID were refused or have ended.
PendingWhileWaiting ==
    \A r \in Requests :
        hasResult /\ stage[r] \in {"consume", "wait", "retire", "retired"}
            => pending[StreamId[r]] = r
=============================================================================
