-------------------------- MODULE GrpcSinkSession ---------------------------
(***************************************************************************)
(* The streaming endpoint consumers of src/datasink/grpc/grpc-js.ts:       *)
(* values of one stream id share a session (StreamingSessionSlot), whose   *)
(* request stream they write, until it is done, fails or is cancelled; and *)
(* the drain of GrpcJsDataSink.stop().                                     *)
(*                                                                         *)
(* Client streaming and bidirectional streaming have the same control and  *)
(* differ in finishSession(); kind says which one a behaviour uses.  The   *)
(* transport and the application's handlers are the environment.           *)
(***************************************************************************)
EXTENDS Integers, FiniteSets

CONSTANTS
    Values,     \* consume() calls, all of one stream id
    Slots,      \* session slots, 1..n in the order of their creation
    MaxWrites   \* bound on unsettled writes of a session

VARIABLES
    kind,       \* "client" or "bidi", fixed in a behaviour
    pending,    \* #pending of the stream id: a slot, or 0
    phase,      \* what createSession() or finishSession() of a slot waits for
    closing,    \* #closing of the slot
    ready,      \* its ready promise: "no", "session" or "rejected"
    value,      \* a consume() call: "new", "waiting", "consuming", "settled"
    slotOf,     \* the slot that a call waits for or uses
    done,       \* the StreamingResultContext is done
    sending,    \* #active of the StreamSender
    writes,     \* its unsettled writes
    ended,      \* call.end() was called
    response,   \* client: "none", "value" or "error"
    receiving,  \* bidi: receiveResponses() is "running", "handling", "ended" or "failed"
    winner,     \* bidi: what ended the race, "done" or "responses"
    cancelled,  \* the context of the session
    failed,     \* failure of the session
    gauge,      \* active_requests of the endpoint
    stop,       \* GrpcJsDataSink.stop(): "none", "draining", "closed" or "timedOut"
    tasks,      \* the tracked tasks that the drain waits for
    quiet       \* no consume() call was running when stop() began

slotVars == <<closing, ready, done, sending, writes, ended, response, receiving, winner, cancelled,
              failed>>
stopVars == <<stop, tasks, quiet>>
vars == <<kind, pending, phase, slotVars, value, slotOf, gauge, stopVars>>

All(x) == [s \in Slots |-> x]

Init ==
    /\ kind \in {"client", "bidi"}
    /\ pending = 0
    /\ phase = All("none")
    /\ closing = All(FALSE) /\ ready = All("no") /\ done = All(FALSE)
    /\ sending = All(FALSE) /\ writes = All(0) /\ ended = All(FALSE)
    /\ response = All("none") /\ receiving = All("ended") /\ winner = All("done")
    /\ cancelled = All(FALSE) /\ failed = All(FALSE)
    /\ value = [v \in Values |-> "new"]
    /\ slotOf = [v \in Values |-> 0]
    /\ gauge = 0
    /\ stop = "none" /\ tasks = {} /\ quiet = TRUE

Consumers(s) == {v \in Values : value[v] = "consuming" /\ slotOf[v] = s}
Gone(s) == phase[s] \in {"none", "gone"}

(***************************************************************************)
(* consume()                                                               *)
(***************************************************************************)

\* A value opens the session of its stream id, joins it, or is refused
\* because the session is still completing.  ServiceRuntime stops the sinks
\* when no source delivers any more.
Consume(v) ==
    /\ value[v] = "new" /\ stop = "none"
    /\ \/ /\ pending = 0
          /\ \E s \in Slots :
              /\ phase[s] = "none" /\ \A r \in Slots : r < s => phase[r] # "none"
              /\ pending' = s
              /\ phase' = [phase EXCEPT ![s] = "beginning"]
              /\ slotOf' = [slotOf EXCEPT ![v] = s]
          /\ value' = [value EXCEPT ![v] = "waiting"]
       \/ /\ pending # 0
          /\ value' = [value EXCEPT ![v] = IF closing[pending] THEN "settled" ELSE "waiting"]
          /\ slotOf' = [slotOf EXCEPT ![v] = pending]
          /\ UNCHANGED <<pending, phase>>
    /\ UNCHANGED <<kind, slotVars, gauge, stopVars>>

\* The ready promise has settled: the handler is called if the session can
\* still take values.
Resume(v) ==
    LET s == slotOf[v] IN
    /\ value[v] = "waiting" /\ ready[s] # "no"
    /\ value' = [value EXCEPT ![v] =
                    IF ready[s] = "session" /\ ~closing[s] /\ ~done[s] /\ ~cancelled[s]
                    THEN "consuming" ELSE "settled"]
    /\ UNCHANGED <<kind, pending, phase, slotVars, slotOf, gauge, stopVars>>

\* The handler sends a request; a closed sender rejects it.
Send(v) ==
    LET s == slotOf[v] IN
    /\ value[v] = "consuming" /\ sending[s] /\ writes[s] < MaxWrites
    /\ writes' = [writes EXCEPT ![s] = @ + 1]
    /\ UNCHANGED <<kind, pending, phase, closing, ready, done, sending, ended, response,
                   receiving, winner, cancelled, failed, value, slotOf, gauge, stopVars>>

\* consumeMessage() returns, or throws, which ends the session.
Consumed(v) ==
    /\ value[v] = "consuming"
    /\ value' = [value EXCEPT ![v] = "settled"]
    /\ \E throws \in BOOLEAN : done' = [done EXCEPT ![slotOf[v]] = @ \/ throws]
    /\ UNCHANGED <<kind, pending, phase, closing, ready, sending, writes, ended, response,
                   receiving, winner, cancelled, failed, slotOf, gauge, stopVars>>

\* The application, which may keep the result context, calls done().
Done(s) ==
    /\ ready[s] = "session" /\ ~done[s] /\ \E v \in Values : slotOf[v] = s /\ value[v] # "waiting"
    /\ done' = [done EXCEPT ![s] = TRUE]
    /\ UNCHANGED <<kind, pending, phase, closing, ready, sending, writes, ended, response,
                   receiving, winner, cancelled, failed, value, slotOf, gauge, stopVars>>

Cancel(s) ==
    /\ ~Gone(s) /\ ~cancelled[s]
    /\ cancelled' = [cancelled EXCEPT ![s] = TRUE]
    /\ UNCHANGED <<kind, pending, phase, closing, ready, done, sending, writes, ended,
                   response, receiving, winner, failed, value, slotOf, gauge, stopVars>>

(***************************************************************************)
(* createSession()                                                         *)
(***************************************************************************)

\* beginRequest() failed.
BeginFails(s) ==
    /\ phase[s] = "beginning"
    /\ phase' = [phase EXCEPT ![s] = "gone"]
    /\ closing' = [closing EXCEPT ![s] = TRUE]
    /\ ready' = [ready EXCEPT ![s] = "rejected"]
    /\ pending' = 0
    /\ UNCHANGED <<kind, done, sending, writes, ended, response, receiving, winner,
                   cancelled, failed, value, slotOf, gauge, stopVars>>

\* beginRequest() returned: the request counts as active and the call is
\* created, which may fail.
Begun(s) ==
    /\ phase[s] = "beginning"
    /\ gauge' = gauge + 1
    /\ \/ /\ phase' = [phase EXCEPT ![s] = "open"]
          /\ ready' = [ready EXCEPT ![s] = "session"]
          /\ sending' = [sending EXCEPT ![s] = TRUE]
          /\ receiving' = [receiving EXCEPT ![s] = IF kind = "bidi" THEN "running" ELSE @]
          /\ UNCHANGED <<closing, failed>>
       \/ /\ phase' = [phase EXCEPT ![s] = "ending"]
          /\ ready' = [ready EXCEPT ![s] = "rejected"]
          /\ closing' = [closing EXCEPT ![s] = TRUE]
          /\ failed' = [failed EXCEPT ![s] = TRUE]
          /\ UNCHANGED <<sending, receiving>>
    /\ UNCHANGED <<kind, pending, done, writes, ended, response, winner, cancelled, value,
                   slotOf, stopVars>>

(***************************************************************************)
(* The transport                                                           *)
(***************************************************************************)

WriteSettles(s) ==
    /\ writes[s] > 0
    /\ writes' = [writes EXCEPT ![s] = @ - 1]
    /\ UNCHANGED <<kind, pending, phase, closing, ready, done, sending, ended, response,
                   receiving, winner, cancelled, failed, value, slotOf, gauge, stopVars>>

\* The response of a client stream; a value comes after the end of the stream.
Respond(s) ==
    /\ kind = "client" /\ ready[s] = "session" /\ ~Gone(s) /\ response[s] = "none"
    /\ \E r \in {"value", "error"} :
        /\ r = "value" => ended[s] /\ ~cancelled[s]
        /\ response' = [response EXCEPT ![s] = r]
    /\ UNCHANGED <<kind, pending, phase, closing, ready, done, sending, writes, ended,
                   receiving, winner, cancelled, failed, value, slotOf, gauge, stopVars>>

\* A response of a bidirectional stream is handled, or the stream ends; its
\* loop also ends when handleResponse() throws.
Receive(s) ==
    /\ \/ receiving[s] = "running"
          /\ receiving' \in {[receiving EXCEPT ![s] = r] : r \in {"handling", "ended", "failed"}}
       \/ receiving[s] = "handling"
          /\ receiving' \in {[receiving EXCEPT ![s] = r] : r \in {"running", "failed"}}
    /\ UNCHANGED <<kind, pending, phase, closing, ready, done, sending, writes, ended,
                   response, winner, cancelled, failed, value, slotOf, gauge, stopVars>>

(***************************************************************************)
(* finishSession()                                                         *)
(***************************************************************************)

\* The session is done, or all responses came: admission and the sender close.
Finishing(s) ==
    /\ phase[s] = "open"
    /\ \/ done[s] /\ winner' = [winner EXCEPT ![s] = "done"]
       \/ kind = "bidi" /\ receiving[s] = "ended" /\ winner' = [winner EXCEPT ![s] = "responses"]
    /\ phase' = [phase EXCEPT ![s] = "flushing"]
    /\ closing' = [closing EXCEPT ![s] = TRUE]
    /\ sending' = [sending EXCEPT ![s] = FALSE]
    /\ UNCHANGED <<kind, pending, ready, done, writes, ended, response, receiving,
                   cancelled, failed, value, slotOf, gauge, stopVars>>

\* The finally block begins.
Settle(s, failure) ==
    /\ phase' = [phase EXCEPT ![s] = "settling"]
    /\ closing' = [closing EXCEPT ![s] = TRUE]
    /\ done' = [done EXCEPT ![s] = TRUE]
    /\ failed' = [failed EXCEPT ![s] = failure]

\* The wait is cancelled, or the responses failed.
Broken(s) ==
    /\ phase[s] = "open"
    /\ cancelled[s] \/ (kind = "bidi" /\ receiving[s] = "failed")
    /\ Settle(s, TRUE)
    /\ UNCHANGED <<kind, pending, ready, sending, writes, ended, response, receiving,
                   winner, cancelled, value, slotOf, gauge, stopVars>>

\* sender.close(): call.end() once the accepted writes have settled.
Flushed(s) ==
    /\ phase[s] = "flushing" /\ writes[s] = 0
    /\ ended' = [ended EXCEPT ![s] = TRUE]
    /\ IF kind = "bidi" /\ winner[s] = "responses"
       THEN Settle(s, FALSE)
       ELSE phase' = [phase EXCEPT ![s] = "receiving"] /\ UNCHANGED <<closing, done,
                                                                      failed>>
    /\ UNCHANGED <<kind, pending, ready, sending, writes, response, receiving, winner,
                   cancelled, value, slotOf, gauge, stopVars>>

\* Client: the response and the values are there; a value is handled.
Responded(s) ==
    /\ kind = "client" /\ phase[s] = "receiving" /\ response[s] # "none" /\ Consumers(s) = {}
    /\ IF response[s] = "value"
       THEN phase' = [phase EXCEPT ![s] = "handling"] /\ UNCHANGED <<closing, done, failed>>
       ELSE Settle(s, TRUE)
    /\ UNCHANGED <<kind, pending, ready, sending, writes, ended, response, receiving,
                   winner, cancelled, value, slotOf, gauge, stopVars>>

\* Client: handleResponse() returned or threw.
Handled(s) ==
    /\ phase[s] = "handling"
    /\ \E failure \in BOOLEAN : Settle(s, failure)
    /\ UNCHANGED <<kind, pending, ready, sending, writes, ended, response, receiving,
                   winner, cancelled, value, slotOf, gauge, stopVars>>

\* Bidi: the responses have ended after done().
Received(s) ==
    /\ kind = "bidi" /\ phase[s] = "receiving" /\ receiving[s] \in {"ended", "failed"}
    /\ Settle(s, receiving[s] = "failed")
    /\ UNCHANGED <<kind, pending, ready, sending, writes, ended, response, receiving,
                   winner, cancelled, value, slotOf, gauge, stopVars>>

\* Mutant: endRequest() is called while values are still consumed.
SettledAtOnce(s) ==
    /\ phase[s] = "settling"
    /\ phase' = [phase EXCEPT ![s] = "ending"]
    /\ UNCHANGED <<kind, pending, slotVars, value, slotOf, gauge, stopVars>>

\* Consumers and responses have settled: endRequest() is called.
Settled(s) ==
    /\ phase[s] = "settling" /\ Consumers(s) = {} /\ receiving[s] \in {"ended", "failed"}
    /\ phase' = [phase EXCEPT ![s] = "ending"]
    /\ UNCHANGED <<kind, pending, slotVars, value, slotOf, gauge, stopVars>>

\* endRequest() has settled; the stream id is free again.
Ended(s) ==
    /\ phase[s] = "ending"
    /\ phase' = [phase EXCEPT ![s] = "gone"]
    /\ gauge' = gauge - 1
    /\ pending' = 0
    /\ UNCHANGED <<kind, slotVars, value, slotOf, stopVars>>

(***************************************************************************)
(* GrpcJsDataSink.stop()                                                   *)
(***************************************************************************)

\* createSession() runs until the session is ready, or has ended because the
\* call could not be created.
Creating(s) == phase[s] = "beginning" \/ (phase[s] = "ending" /\ ready[s] = "rejected")

\* #tasks: the running createSession() and finishSession() calls.
Tracked ==
    {<<s, "create">> : s \in {s \in Slots : Creating(s)}} \cup
    {<<s, "finish">> : s \in {s \in Slots : ~Gone(s) /\ ~Creating(s)}}

Stop ==
    /\ stop = "none"
    /\ stop' = "draining"
    /\ tasks' = Tracked
    /\ quiet' = \A v \in Values : value[v] \in {"new", "settled"}
    /\ UNCHANGED <<kind, pending, phase, slotVars, value, slotOf, gauge>>

\* The tasks that were running have settled: the clients are closed.
Stopped ==
    /\ stop = "draining" /\ tasks \cap Tracked = {}
    /\ stop' = "closed"
    /\ UNCHANGED <<kind, pending, phase, slotVars, value, slotOf, gauge, tasks, quiet>>

\* The deadline of stop() closes them all the same.
StopTimesOut ==
    /\ stop = "draining"
    /\ stop' = "timedOut"
    /\ UNCHANGED <<kind, pending, phase, slotVars, value, slotOf, gauge, tasks, quiet>>

Finish(s) ==
    \/ BeginFails(s) \/ Begun(s) \/ Finishing(s) \/ Broken(s) \/ Flushed(s) \/ Responded(s)
    \/ Handled(s) \/ Received(s) \/ Settled(s) \/ Ended(s)

Next ==
    \/ \E v \in Values : Consume(v) \/ Resume(v) \/ Send(v) \/ Consumed(v)
    \/ \E s \in Slots : Done(s) \/ Cancel(s) \/ WriteSettles(s) \/ Respond(s) \/ Receive(s) \/ Finish(s)
    \/ Stop \/ Stopped \/ StopTimesOut

\* Handlers settle; the transport of a cancelled call settles its writes and
\* its responses with an error.
Fairness ==
    /\ \A v \in Values : WF_vars(Resume(v)) /\ WF_vars(Consumed(v))
    /\ \A s \in Slots :
        /\ WF_vars(Finish(s)) /\ WF_vars(WriteSettles(s))
        /\ WF_vars(cancelled[s] /\ Respond(s))
        /\ WF_vars(receiving[s] = "handling" /\ Receive(s))
        /\ WF_vars((cancelled[s] \/ failed[s]) /\ Receive(s) /\ receiving'[s] = "failed")
    /\ WF_vars(Stopped)

Spec == Init /\ [][Next]_vars
FairSpec == Spec /\ Fairness

(***************************************************************************)
(* Properties                                                              *)
(***************************************************************************)

\* Types, and the writes of a session stay within the bound.
TypeOK ==
    /\ pending \in Slots \cup {0}
    /\ phase \in [Slots -> {"none", "beginning", "open", "flushing", "receiving", "handling",
                            "settling", "ending", "gone"}]
    /\ writes \in [Slots -> 0..MaxWrites]
    /\ value \in [Values -> {"new", "waiting", "consuming", "settled"}]
    /\ gauge \in 0..Cardinality(Slots)
    /\ stop \in {"none", "draining", "closed", "timedOut"}

\* A stream id has one session at a time: while one is completing, #pending
\* still holds it and no other begins.
OneSession == \A s \in Slots : ~Gone(s) <=> pending = s

\* endRequest() comes after everything else of the session: no handler of the
\* session is running when it is called, nor afterwards.
EndRequestIsLast ==
    \A s \in Slots : phase[s] \in {"ending", "gone"} =>
        Consumers(s) = {} /\ receiving[s] # "handling"

\* The request stream is half-closed only after every write that was accepted
\* has settled, and takes none afterwards.
EndAfterWrites == \A s \in Slots : ended[s] => writes[s] = 0

\* The response of a client stream is handled only after every value of the
\* session was consumed.
ResponseAfterValues == \A s \in Slots : phase[s] = "handling" => Consumers(s) = {}

\* The clients are closed only when no session is left, if no value was being
\* consumed when stop() began.
StopDrainsSessions == stop = "closed" /\ quiet => \A s \in Slots : Gone(s)

\* Every consume() call settles, whatever becomes of its session.
ValuesSettle == \A v \in Values : value[v] = "waiting" ~> value[v] = "settled"
=============================================================================
