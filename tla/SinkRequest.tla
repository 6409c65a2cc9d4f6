---------------------------- MODULE SinkRequest -----------------------------
(***************************************************************************)
(* A value that an endpoint consumer of a data sink delivers as one        *)
(* request: NodeHttpSinkEndpointConsumer, the unary and server-streaming   *)
(* consumers of the gRPC sink, CustomEndpointConsumer and                  *)
(* KafkaEndpointConsumer, with the metrics of DataSinkEndpoint and the     *)
(* stop of NodeHttpDataSink.                                               *)
(*                                                                         *)
(* All of them run beginRequest, consumeMessage and endRequest of their    *)
(* handler; the HTTP and gRPC ones call their client between the last two  *)
(* and hand the response to handleResponse.  protocol says which consumer  *)
(* a behaviour runs.  Kafka deliveries themselves are in KafkaSink.        *)
(***************************************************************************)
EXTENDS Integers

CONSTANTS Requests

VARIABLES
    protocol,   \* fixed in a behaviour
    sink,       \* "started", "draining", "closing" or "stopped"
    client,     \* the client of the sink is open
    stage,      \* what a consume() call waits for
    response,   \* the response of a request: "none", "open" or "closed"
    failure,    \* the error that consume() has recorded, requestError
    threw,      \* history: the steps of the request that threw
    cancelled,  \* its context, through the caller or the registry
    counted,    \* "no", "success" (messages_total) or "error" (request_error)
    rejected,   \* consume() was rejected
    gauge       \* active_requests

vars == <<protocol, sink, client, stage, response, failure, threw, cancelled, counted, rejected, gauge>>

Protocols == {"http", "unary", "server", "custom", "kafka"}
Calls == protocol \in {"http", "unary", "server"}
Active(r) == stage[r] \in {"consume", "call", "handle", "close", "end"}
Running(r) == Active(r) \/ stage[r] \in {"begin", "callback"}

Init ==
    /\ protocol \in Protocols
    /\ sink = "started" /\ client = TRUE
    /\ stage = [r \in Requests |-> "new"]
    /\ response = [r \in Requests |-> "none"]
    /\ failure = [r \in Requests |-> FALSE]
    /\ threw = [r \in Requests |-> {}]
    /\ cancelled = [r \in Requests |-> FALSE]
    /\ counted = [r \in Requests |-> "no"]
    /\ rejected = [r \in Requests |-> FALSE]
    /\ gauge = 0

To(r, s) == stage' = [stage EXCEPT ![r] = s]
Threw(r) == threw' = [threw EXCEPT ![r] = @ \cup {stage[r]}]
Fail(r) == failure' = [failure EXCEPT ![r] = TRUE] /\ Threw(r)
Succeed == UNCHANGED <<failure, threw>>

(***************************************************************************)
(* consume()                                                               *)
(***************************************************************************)

\* The HTTP and Kafka consumers drop a value once they are stopped.
Consume(r) ==
    /\ stage[r] = "new"
    /\ To(r, IF protocol \in {"http", "kafka"} /\ sink # "started" THEN "settled" ELSE "begin")
    /\ UNCHANGED <<protocol, sink, client, response, failure, threw, cancelled, counted, rejected,
                   gauge>>

BeginFails(r) ==
    /\ stage[r] = "begin"
    /\ To(r, "settled")
    /\ UNCHANGED <<protocol, sink, client, response, failure, threw, cancelled, counted, rejected,
                   gauge>>

Begun(r) ==
    /\ stage[r] = "begin"
    /\ To(r, "consume")
    /\ gauge' = gauge + 1
    /\ UNCHANGED <<protocol, sink, client, response, failure, threw, cancelled, counted, rejected>>

\* consumeMessage() returns; a handler that leaves no request fails.
Consumed(r) ==
    /\ stage[r] = "consume"
    /\ \/ To(r, IF Calls THEN "call" ELSE "end") /\ Succeed
       \/ To(r, "end") /\ Fail(r)
    /\ UNCHANGED <<protocol, sink, client, response, cancelled, counted, rejected, gauge>>

\* The client answers.  A server stream answers many times, and ends.
Answered(r) ==
    /\ stage[r] = "call" /\ client /\ ~cancelled[r]
    /\ \/ /\ To(r, "handle")
          /\ response' = [response EXCEPT ![r] = IF protocol = "http" THEN "open" ELSE @]
       \/ protocol = "server" /\ To(r, "end") /\ UNCHANGED response
    /\ UNCHANGED <<protocol, sink, client, failure, threw, cancelled, counted, rejected, gauge>>

CallFails(r) ==
    /\ stage[r] = "call"
    /\ To(r, "end") /\ Fail(r)
    /\ UNCHANGED <<protocol, sink, client, response, cancelled, counted, rejected, gauge>>

AfterHandle(ok) ==
    CASE protocol = "http" -> "close"
      [] protocol = "server" /\ ok -> "call"
      [] OTHER -> "end"

\* handleResponse() returns or throws.
Handled(r) ==
    /\ stage[r] = "handle"
    /\ \/ To(r, AfterHandle(TRUE)) /\ Succeed
       \/ To(r, AfterHandle(FALSE)) /\ Fail(r)
    /\ UNCHANGED <<protocol, sink, client, response, cancelled, counted, rejected, gauge>>

\* Mutant: a body that fails to close is not a failure of the request.
ClosedQuietly(r) ==
    /\ stage[r] = "close"
    /\ To(r, "end")
    /\ response' = [response EXCEPT ![r] = "closed"]
    /\ UNCHANGED failure
    /\ Threw(r) \/ UNCHANGED threw
    /\ UNCHANGED <<protocol, sink, client, cancelled, counted, rejected, gauge>>

\* response.close(): the body has ended or failed.
Closed(r) ==
    /\ stage[r] = "close"
    /\ To(r, "end")
    /\ response' = [response EXCEPT ![r] = "closed"]
    /\ Fail(r) \/ Succeed
    /\ UNCHANGED <<protocol, sink, client, cancelled, counted, rejected, gauge>>

\* onRequestEnd()
Count(r, error) ==
    /\ counted' = [counted EXCEPT ![r] = IF error THEN "error" ELSE "success"]
    /\ gauge' = gauge - 1

\* endRequest() returns or throws.  An error of endRequest() is a failure of
\* the request, but for HTTP, which counts the request without it and rejects
\* consume().
Ended(r) ==
    /\ stage[r] = "end"
    /\ \E throws \in BOOLEAN :
        /\ Count(r, failure[r] \/ (throws /\ protocol # "http"))
        /\ rejected' = [rejected EXCEPT ![r] = throws /\ protocol = "http"]
        /\ IF throws THEN Threw(r) ELSE UNCHANGED threw
    /\ To(r, IF protocol = "custom" THEN "callback" ELSE "settled")
    /\ UNCHANGED <<protocol, sink, client, response, failure, cancelled>>

\* The sink callback of the custom consumer.
CalledBack(r) ==
    /\ stage[r] = "callback"
    /\ To(r, "settled")
    /\ UNCHANGED <<protocol, sink, client, response, failure, threw, cancelled, counted, rejected,
                   gauge>>

\* The caller's context is cancelled.
Cancel(r) ==
    /\ Running(r) /\ ~cancelled[r]
    /\ cancelled' = [cancelled EXCEPT ![r] = TRUE]
    /\ UNCHANGED <<protocol, sink, client, stage, response, failure, threw, counted, rejected,
                   gauge>>

(***************************************************************************)
(* stop() of the HTTP sink; the Kafka sink goes on as KafkaSink says       *)
(***************************************************************************)

Stop ==
    /\ protocol \in {"http", "kafka"} /\ sink = "started"
    /\ sink' = "draining"
    /\ UNCHANGED <<protocol, client, stage, response, failure, threw, cancelled, counted, rejected,
                   gauge>>

\* drainAcceptedTasks(): every accepted request has settled, or the deadline
\* cancels those that have not.
Drained ==
    /\ protocol = "http" /\ sink = "draining"
    /\ cancelled' = [r \in Requests |-> cancelled[r] \/ Running(r)]
    /\ sink' = "closing"
    /\ UNCHANGED <<protocol, client, stage, response, failure, threw, counted, rejected, gauge>>

CloseClient ==
    /\ sink = "closing"
    /\ sink' = "stopped"
    /\ client' = FALSE
    /\ UNCHANGED <<protocol, stage, response, failure, threw, cancelled, counted, rejected, gauge>>

Step(r) ==
    \/ BeginFails(r) \/ Begun(r) \/ Consumed(r) \/ Answered(r) \/ CallFails(r) \/ Handled(r)
    \/ Closed(r) \/ Ended(r) \/ CalledBack(r)

Next ==
    \/ \E r \in Requests : Consume(r) \/ Step(r) \/ Cancel(r)
    \/ Stop \/ Drained \/ CloseClient

\* Handlers return; a client settles a cancelled call, and a response body.
Fairness ==
    \A r \in Requests :
        /\ WF_vars(stage[r] # "call" /\ Step(r))
        /\ WF_vars(cancelled[r] /\ CallFails(r))

Spec == Init /\ [][Next]_vars
FairSpec == Spec /\ Fairness

(***************************************************************************)
(* Properties                                                              *)
(***************************************************************************)

\* Types; only the HTTP client's responses have a body to close.
TypeOK ==
    /\ sink \in {"started", "draining", "closing", "stopped"}
    /\ stage \in [Requests -> {"new", "begin", "consume", "call", "handle", "close", "end",
                               "callback", "settled"}]
    /\ response \in [Requests -> {"none", "open", "closed"}]
    /\ counted \in [Requests -> {"no", "success", "error"}]
    /\ protocol # "http" => \A r \in Requests : response[r] = "none"

\* endRequest() never runs while the response body is open: its socket is
\* returned or destroyed also when handleResponse() threw.
ResponseClosedBeforeEnd == \A r \in Requests : stage[r] \in {"end", "settled"} => response[r] # "open"

\* The HTTP client is closed only when no accepted request is left that was
\* not told to stop.
ClientOutlivesRequests ==
    protocol = "http" /\ ~client => \A r \in Requests : Running(r) => cancelled[r]

\* A request is counted as an error exactly when a step of it threw, whichever
\* step that was and whatever the consumer did after it, with one exception: an
\* endRequest() of an HTTP handler that throws rejects consume(), and only that
\* does, while the request is counted by its other steps.
FailureIsCounted ==
    \A r \in Requests : counted[r] # "no" =>
        /\ counted[r] = "error" <=>
               \E t \in threw[r] : t = "end" => protocol # "http"
        /\ rejected[r] <=> protocol = "http" /\ "end" \in threw[r]
=============================================================================
