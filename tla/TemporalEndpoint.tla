--------------------------- MODULE TemporalEndpoint ---------------------------
(***************************************************************************)
(* A message on its way through a Temporal endpoint of execution type      *)
(* Activity: TemporalSinkConsumer (src/datasink/temporal/temporal.ts)      *)
(* submits it through TemporalConnector.submitEndpoint, the workflow       *)
(* servicelibTemporalEndpointV1 schedules activity attempts, and           *)
(* TemporalEndpointConsumer.activate (src/datasource/temporal/temporal.ts) *)
(* runs the pipeline and waits for its result.                             *)
(*                                                                         *)
(* A message is named by its message id, which is also its stream id here: *)
(* every attempt of the activity uses the same stream id.  The Temporal    *)
(* server is external: it keeps one workflow per id, retries an attempt    *)
(* that failed or timed out, and ignores the end of one it gave up.  A     *)
(* result carries the number of the attempt whose pipeline produced it.    *)
(***************************************************************************)
EXTENDS Integers

CONSTANTS
    Messages,     \* message ids
    Foreign,      \* ids under which somebody else's workflow exists
    Calls,        \* consume() calls of the sink that can be active together
    MaxAttempts,  \* maximumAttempts of the endpoint
    EndThrows,    \* endRequest() of the handlers may throw
    MaxCrashes    \* bound on crashes of the process

TemporalAssumption ==
    /\ Foreign \subseteq Messages
    /\ MaxAttempts \in Nat \ {0} /\ MaxCrashes \in Nat
    /\ EndThrows \in BOOLEAN

Attempts == 1..MaxAttempts
NoAttempt == 0

VARIABLES
    hasResult,  \* the input stream has a result stream
    call,       \* consume() calls of the sink
    sinkGauge,  \* active requests of the sink endpoint
    wf,         \* workflow of each message id: status and result
    attempt,    \* latest attempt the server has scheduled
    live,       \* the server waits for that attempt
    act,        \* what the process does for each attempt
    gauge,      \* active requests of the source endpoint
    pending,    \* #pending: the attempt that holds the entry of the stream id,
    settled,    \* and the attempt whose result has settled it
    output,     \* results the pipelines have yet to deliver
    crashes

sinkVars == <<call, sinkGauge>>
serverVars == <<wf, attempt, live>>
sourceVars == <<act, gauge, pending, settled, output>>
vars == <<hasResult, sinkVars, serverVars, sourceVars, crashes>>

FreeCall == [phase |-> "free"]
Idle == [phase |-> "idle", failed |-> FALSE, value |-> NoAttempt]

Init ==
    /\ hasResult \in BOOLEAN
    /\ call = [c \in Calls |-> FreeCall] /\ sinkGauge = 0
    /\ wf = [m \in Messages |-> [status |-> IF m \in Foreign THEN "running" ELSE "none", value |-> NoAttempt]]
    /\ attempt = [m \in Messages |-> 0]
    /\ live = [m \in Messages |-> FALSE]
    /\ act = [m \in Messages |-> [n \in Attempts |-> Idle]] /\ gauge = 0
    /\ pending = [m \in Messages |-> NoAttempt]
    /\ settled = [m \in Messages |-> NoAttempt]
    /\ output = {}
    /\ crashes = 0

(***************************************************************************)
(* The sink: consumeTracked() and submitEndpoint()                         *)
(***************************************************************************)

To(c, phase) == call' = [call EXCEPT ![c].phase = phase] /\ UNCHANGED sinkGauge

\* An error of the submission: endRequest() is told of it.
Fail(c) == call' = [call EXCEPT ![c].phase = "end", ![c].failed = TRUE] /\ UNCHANGED sinkGauge

Consume(c) ==
    /\ call[c] = FreeCall
    /\ \E m \in Messages, w \in BOOLEAN :
        call' = [call EXCEPT ![c] = [phase |-> "begin", msg |-> m, wait |-> w, failed |-> FALSE]]
    /\ sinkGauge' = sinkGauge + 1
    /\ UNCHANGED <<hasResult, serverVars, sourceVars, crashes>>

\* beginRequest(): if it throws, endRequest() is not called.
Begun(c) ==
    /\ call[c].phase = "begin"
    /\ \/ To(c, "start")
       \/ call' = [call EXCEPT ![c] = FreeCall] /\ sinkGauge' = sinkGauge - 1
    /\ UNCHANGED <<hasResult, serverVars, sourceVars, crashes>>

\* The envelope is made and workflow.start() called, with REJECT_DUPLICATE and
\* USE_EXISTING.  Either may fail, and the answer of the server may be lost.
StartWorkflow(c) ==
    LET m == call[c].msg IN
    /\ call[c].phase = "start"
    /\ \/ /\ wf[m].status \in {"none", "running"}
          /\ wf' = [wf EXCEPT ![m].status = "running"]
          /\ To(c, "describe") \/ Fail(c)
       \/ Fail(c) /\ UNCHANGED wf
    /\ UNCHANGED <<hasResult, attempt, live, sourceVars, crashes>>

\* validateWorkflowOwnership(); a request without result is done.
Describe(c) ==
    /\ call[c].phase = "describe"
    /\ IF call[c].msg \in Foreign THEN Fail(c)
       ELSE To(c, IF call[c].wait THEN "result" ELSE "end") \/ Fail(c)
    /\ UNCHANGED <<hasResult, serverVars, sourceVars, crashes>>

\* handle.result()
GotResult(c) ==
    /\ call[c].phase = "result"
    /\ \/ wf[call[c].msg].status = "completed" /\ To(c, "deliver")
       \/ wf[call[c].msg].status = "failed" /\ Fail(c)
    /\ UNCHANGED <<hasResult, serverVars, sourceVars, crashes>>

\* consumeResult() of the sink stream.
Deliver(c) ==
    /\ call[c].phase = "deliver"
    /\ To(c, "end") \/ Fail(c)
    /\ UNCHANGED <<hasResult, serverVars, sourceVars, crashes>>

\* endRequest(), and onRequestEnd() unless it throws.
Ended(c) ==
    /\ call[c].phase = "end"
    /\ \/ sinkGauge' = sinkGauge - 1
       \/ EndThrows /\ UNCHANGED sinkGauge
    /\ call' = [call EXCEPT ![c] = FreeCall]
    /\ UNCHANGED <<hasResult, serverVars, sourceVars, crashes>>

(***************************************************************************)
(* The server and the workflow servicelibTemporalEndpointV1                *)
(***************************************************************************)

Schedule(m) ==
    /\ m \notin Foreign /\ wf[m].status = "running" /\ ~live[m]
    /\ attempt[m] < MaxAttempts
    /\ attempt' = [attempt EXCEPT ![m] = @ + 1]
    /\ live' = [live EXCEPT ![m] = TRUE]
    /\ act' = [act EXCEPT ![m][attempt'[m]] = [Idle EXCEPT !.phase = "begin"]]
    /\ UNCHANGED <<hasResult, sinkVars, wf, gauge, pending, settled, output, crashes>>

GiveUp(m) ==
    /\ m \notin Foreign /\ wf[m].status = "running" /\ ~live[m]
    /\ attempt[m] = MaxAttempts
    /\ wf' = [wf EXCEPT ![m].status = "failed"]
    /\ UNCHANGED <<hasResult, sinkVars, attempt, live, sourceVars, crashes>>

\* The attempt exceeds its start-to-close or heartbeat timeout; the process
\* goes on with it.
TimeOut(m) ==
    /\ live[m]
    /\ live' = [live EXCEPT ![m] = FALSE]
    /\ UNCHANGED <<hasResult, sinkVars, wf, attempt, sourceVars, crashes>>

(***************************************************************************)
(* The source: activate()                                                  *)
(***************************************************************************)

\* What the server makes of the end of an attempt.
Report(m, n, failed) ==
    IF live[m] /\ attempt[m] = n
    THEN /\ live' = [live EXCEPT ![m] = FALSE]
         /\ wf' = IF failed THEN wf
                  ELSE [wf EXCEPT ![m] = [status |-> "completed", value |-> act[m][n].value]]
    ELSE UNCHANGED <<live, wf>>

\* beginRequest(), onRequestStart() and the entry for the result.  An attempt
\* is refused while another one waits under the same stream id.
ActBegun(m, n) ==
    /\ act[m][n].phase = "begin"
    /\ \/ /\ gauge' = gauge + 1
          /\ IF hasResult /\ pending[m] # NoAttempt
             THEN /\ act' = [act EXCEPT ![m][n].phase = "end", ![m][n].failed = TRUE]
                  /\ UNCHANGED <<pending, settled, output>>
             ELSE /\ act' = [act EXCEPT ![m][n].phase = "consume"]
                  /\ pending' = IF hasResult THEN [pending EXCEPT ![m] = n] ELSE pending
                  /\ settled' = [settled EXCEPT ![m] = NoAttempt]
                  /\ output' = IF hasResult THEN output \cup {<<m, n>>} ELSE output
          /\ UNCHANGED <<wf, live>>
       \/ /\ act' = [act EXCEPT ![m][n] = Idle]
          /\ Report(m, n, TRUE)
          /\ UNCHANGED <<gauge, pending, settled, output>>
    /\ UNCHANGED <<hasResult, sinkVars, attempt, crashes>>

\* The entry is removed before endRequest() is called.
Finishing(m, n, failed, value) ==
    /\ act' = [act EXCEPT ![m][n] = [phase |-> "end", failed |-> failed, value |-> value]]
    /\ pending' = IF hasResult THEN [pending EXCEPT ![m] = NoAttempt] ELSE pending

\* consumeMessage() settles.
ActConsumed(m, n) ==
    /\ act[m][n].phase = "consume"
    /\ \/ Finishing(m, n, TRUE, NoAttempt)
       \/ IF hasResult /\ settled[m] = NoAttempt
          THEN act' = [act EXCEPT ![m][n].phase = "await"] /\ UNCHANGED pending
          ELSE Finishing(m, n, FALSE, settled[m])
    /\ UNCHANGED <<hasResult, sinkVars, serverVars, gauge, settled, output, crashes>>

\* consumeResult(): a result without an entry is late, a second one a
\* duplicate.  The pipeline of an earlier attempt may deliver to a later one.
Result(m, n) ==
    /\ <<m, n>> \in output
    /\ output' \in {output, output \ {<<m, n>>}}
    /\ IF pending[m] = NoAttempt \/ settled[m] # NoAttempt
       THEN UNCHANGED <<act, pending, settled>>
       ELSE /\ settled' = [settled EXCEPT ![m] = n]
            /\ IF act[m][pending[m]].phase = "await"
               THEN Finishing(m, pending[m], FALSE, n)
               ELSE UNCHANGED <<act, pending>>
    /\ UNCHANGED <<hasResult, sinkVars, serverVars, gauge, crashes>>

\* Mutant: the error of an attempt is lost in its finally block.
ActEndedSwallows(m, n) ==
    /\ act[m][n].phase = "end"
    /\ gauge' = gauge - 1 /\ Report(m, n, FALSE)
    /\ act' = [act EXCEPT ![m][n] = Idle]
    /\ UNCHANGED <<hasResult, sinkVars, attempt, pending, settled, output, crashes>>

\* endRequest(), and onRequestEnd() unless it throws; the activity settles.
ActEnded(m, n) ==
    /\ act[m][n].phase = "end"
    /\ \/ gauge' = gauge - 1 /\ Report(m, n, act[m][n].failed)
       \/ EndThrows /\ UNCHANGED gauge /\ Report(m, n, TRUE)
    /\ act' = [act EXCEPT ![m][n] = Idle]
    /\ UNCHANGED <<hasResult, sinkVars, attempt, pending, settled, output, crashes>>

\* The process crashes and a new one takes over: the server knows, and
\* nothing else survives.
Crash ==
    /\ crashes < MaxCrashes
    /\ crashes' = crashes + 1
    /\ call' = [c \in Calls |-> FreeCall] /\ sinkGauge' = 0
    /\ act' = [m \in Messages |-> [n \in Attempts |-> Idle]] /\ gauge' = 0
    /\ pending' = [m \in Messages |-> NoAttempt]
    /\ settled' = [m \in Messages |-> NoAttempt]
    /\ output' = {}
    /\ UNCHANGED <<hasResult, serverVars>>

SinkStep(c) ==
    Begun(c) \/ StartWorkflow(c) \/ Describe(c) \/ GotResult(c) \/ Deliver(c) \/ Ended(c)

Next ==
    \/ \E c \in Calls : Consume(c) \/ SinkStep(c)
    \/ \E m \in Messages : Schedule(m) \/ GiveUp(m) \/ TimeOut(m)
    \/ \E m \in Messages, n \in Attempts :
        ActBegun(m, n) \/ ActConsumed(m, n) \/ Result(m, n) \/ ActEnded(m, n)
    \/ Crash

Spec == Init /\ [][Next]_vars

\* The server schedules, handlers return and pipelines deliver; nothing has to
\* time out, and nobody has to send.
Fairness ==
    /\ \A c \in Calls : WF_vars(SinkStep(c))
    /\ \A m \in Messages : WF_vars(Schedule(m)) /\ WF_vars(GiveUp(m))
    /\ \A m \in Messages, n \in Attempts :
        /\ WF_vars(ActBegun(m, n)) /\ WF_vars(ActConsumed(m, n)) /\ WF_vars(ActEnded(m, n))
        /\ WF_vars(Result(m, n) /\ <<m, n>> \notin output')

FairSpec == Spec /\ Fairness

(***************************************************************************)
(* Properties                                                              *)
(***************************************************************************)

\* Types; an attempt that runs in the process has been scheduled, and an entry
\* belongs to one that can use it.
TypeOK ==
    /\ \A c \in Calls : call[c].phase \in {"free", "begin", "start", "describe", "result", "deliver", "end"}
    /\ \A m \in Messages :
        /\ wf[m].status \in {"none", "running", "completed", "failed"}
        /\ wf[m].value \in 0..attempt[m]
        /\ pending[m] \in 0..attempt[m] /\ settled[m] \in 0..attempt[m]
        /\ \A n \in Attempts :
            /\ act[m][n].phase \in {"idle", "begin", "consume", "await", "end"}
            /\ act[m][n] # Idle => n <= attempt[m]
        /\ pending[m] # NoAttempt => act[m][pending[m]].phase \in {"consume", "await"}

\* An attempt that waits for its result can get it: the entry is its own, and
\* neither a retry under the same stream id nor the end of an earlier attempt
\* takes it away.
WaiterIsRegistered ==
    \A m \in Messages, n \in Attempts :
        act[m][n].phase = "await" => pending[m] = n /\ settled[m] = NoAttempt

\* A result reaches the sink only after an attempt that the server waited for
\* has succeeded with a result of the pipeline: not from an attempt that was
\* refused, failed, or lost its entry.
AnswerIsReal ==
    \A c \in Calls : call[c].phase = "deliver" =>
        /\ wf[call[c].msg].status = "completed"
        /\ hasResult => wf[call[c].msg].value # NoAttempt

\* No submission waits for the result of somebody else's workflow.
ForeignIsRefused ==
    \A c \in Calls : call[c].phase = "result" => call[c].msg \notin Foreign
=============================================================================
