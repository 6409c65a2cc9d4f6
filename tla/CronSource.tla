----------------------------- MODULE CronSource -----------------------------
(***************************************************************************)
(* The local schedule source of src/datasource/cron/croner.ts: a data      *)
(* source that is started and stopped in generations, endpoints whose      *)
(* timers dispatch executions, and executions that wait for a result of    *)
(* their pipeline.  When the native interval fires is IntervalTimer.tla;   *)
(* here a timer fires at any time.                                         *)
(***************************************************************************)
EXTENDS Integers, FiniteSets

CONSTANTS
    Endpoints,      \* endpoints of the data source
    Executions,     \* executions that can be active together
    Calls,          \* lifecycle calls that can be pending together
    MaxGenerations  \* bound on successful or failed starts

NoTimer == 0

VARIABLES
    overlap,     \* overlapPolicy of each endpoint, fixed here
    hasResult,   \* whether its input stream has a result stream
    started,     \* #started
    generation,  \* #generation
    cancelled,   \* generations whose owner context is cancelled
    timer,       \* for each endpoint, the generation of its job or interval
    running,     \* #running
    gauge,       \* active requests of the endpoint
    exec,        \* the executions
    call         \* pending stop() calls, and start() calls that roll back

config == <<overlap, hasResult>>
vars == <<config, started, generation, cancelled, timer, running, gauge, exec, call>>

FreeExec == [phase |-> "free"]
FreeCall == [op |-> "free"]

\* #active of an endpoint.
Active(e) == {x \in Executions : exec[x].phase # "free" /\ exec[x].ep = e}

Init ==
    /\ overlap \in [Endpoints -> {"Allow", "Skip"}]
    /\ hasResult \in [Endpoints -> BOOLEAN]
    /\ started = FALSE /\ generation = 0 /\ cancelled = {}
    /\ timer = [e \in Endpoints |-> NoTimer]
    /\ running = [e \in Endpoints |-> FALSE]
    /\ gauge = [e \in Endpoints |-> 0]
    /\ exec = [x \in Executions |-> FreeExec]
    /\ call = [c \in Calls |-> FreeCall]

(***************************************************************************)
(* Lifecycle of the data source                                            *)
(***************************************************************************)

\* endpoint.stop() of every endpoint: the timers go, and the call waits for
\* the executions that are active now.
StopEndpoints(c, op, g) ==
    /\ timer' = [e \in Endpoints |-> NoTimer]
    /\ call' = [call EXCEPT ![c] = [op |-> op, gen |-> g, waits |-> UNION {Active(e) : e \in Endpoints}]]

\* endpoint.start() throws: it still has a timer or executions.
Occupied(e) == timer[e] # NoTimer \/ Active(e) # {}

\* start() with an owner that is not cancelled.  A disabled endpoint is left
\* alone; one that cannot be scheduled throws, like an occupied one.
Start ==
    /\ ~started /\ generation < MaxGenerations
    /\ started' = TRUE
    /\ generation' = generation + 1
    /\ \E enabled \in SUBSET Endpoints, bad \in SUBSET Endpoints :
        IF \E e \in Endpoints : e \in bad \/ Occupied(e)
        THEN \E c \in Calls : call[c] = FreeCall /\ StopEndpoints(c, "rollback", generation')
        ELSE /\ timer' = [e \in Endpoints |-> IF e \in enabled THEN generation' ELSE NoTimer]
             /\ UNCHANGED call
    /\ UNCHANGED <<config, cancelled, running, gauge, exec>>

Stop ==
    /\ started
    /\ \E c \in Calls : call[c] = FreeCall /\ StopEndpoints(c, "stop", generation)
    /\ UNCHANGED <<config, started, generation, cancelled, running, gauge, exec>>

\* Mutant: a call that settles clears whatever generation is started.
SettledAnyGeneration(c) ==
    /\ call[c].op # "free" /\ call[c].waits = {}
    /\ started' = FALSE
    /\ call' = [call EXCEPT ![c] = FreeCall]
    /\ UNCHANGED <<config, generation, cancelled, timer, running, gauge, exec>>

\* Everything the call waited for has settled.
Settled(c) ==
    /\ call[c].op # "free" /\ call[c].waits = {}
    /\ started' = IF call[c].gen = generation THEN FALSE ELSE started
    /\ call' = [call EXCEPT ![c] = FreeCall]
    /\ UNCHANGED <<config, generation, cancelled, timer, running, gauge, exec>>

\* Its context is cancelled or past its deadline first: stop() rejects, and
\* the source stays started so that a later stop() can drain it.
TimesOut(c) ==
    /\ call[c].op # "free" /\ call[c].waits # {}
    /\ started' = IF call[c].op = "rollback" /\ call[c].gen = generation THEN TRUE ELSE started
    /\ call' = [call EXCEPT ![c] = FreeCall]
    /\ UNCHANGED <<config, generation, cancelled, timer, running, gauge, exec>>

\* The owner context of the current generation is cancelled.
CancelOwner ==
    /\ generation > 0 /\ generation \notin cancelled
    /\ cancelled' = cancelled \cup {generation}
    /\ UNCHANGED <<config, started, generation, timer, running, gauge, exec, call>>

(***************************************************************************)
(* Executions                                                              *)
(***************************************************************************)

\* The timer fires for an occurrence that is not missed: #startDispatch, and
\* #dispatch up to its first await.  A skipped occurrence changes nothing.
Fire(e) ==
    /\ timer[e] # NoTimer /\ timer[e] \notin cancelled
    /\ ~(running[e] /\ overlap[e] = "Skip")
    /\ \E x \in Executions :
        /\ exec[x] = FreeExec
        /\ exec' = [exec EXCEPT ![x] = [phase |-> "trigger", ep |-> e, settled |-> FALSE]]
    /\ running' = [running EXCEPT ![e] = TRUE]
    /\ gauge' = [gauge EXCEPT ![e] = @ + 1]
    /\ UNCHANGED <<config, started, generation, cancelled, timer, call>>

\* #dispatch settles: the finally blocks, and the calls that wait for it.
Finish(x, failed) ==
    LET e == exec[x].ep IN
    /\ failed \in BOOLEAN
    /\ running' = [running EXCEPT ![e] = FALSE]
    /\ gauge' = [gauge EXCEPT ![e] = @ - 1]
    /\ exec' = [exec EXCEPT ![x] = FreeExec]
    /\ call' = [c \in Calls |-> IF call[c].op = "free" THEN call[c]
                                ELSE [call[c] EXCEPT !.waits = @ \ {x}]]

\* onTrigger() settles; a failure ends the execution, and so does success
\* unless a result is still to come.
Triggered(x) ==
    /\ exec[x].phase = "trigger"
    /\ \E failed \in BOOLEAN :
        IF ~failed /\ hasResult[exec[x].ep] /\ ~exec[x].settled
        THEN exec' = [exec EXCEPT ![x].phase = "result"] /\ UNCHANGED <<running, gauge, call>>
        ELSE Finish(x, failed)
    /\ UNCHANGED <<config, started, generation, cancelled, timer>>

\* consumeResult() for a pending execution; a late or a second result is only
\* counted.
Result(x) ==
    /\ exec[x].phase # "free" /\ hasResult[exec[x].ep] /\ ~exec[x].settled
    /\ IF exec[x].phase = "trigger"
       THEN exec' = [exec EXCEPT ![x].settled = TRUE] /\ UNCHANGED <<running, gauge, call>>
       ELSE Finish(x, FALSE)
    /\ UNCHANGED <<config, started, generation, cancelled, timer>>

Next ==
    \/ Start \/ Stop \/ CancelOwner
    \/ \E c \in Calls : Settled(c) \/ TimesOut(c)
    \/ \E e \in Endpoints : Fire(e)
    \/ \E x \in Executions : Triggered(x) \/ Result(x)

Spec == Init /\ [][Next]_vars

\* Promises that are settled run their continuations; functions return and
\* pipelines produce their results.
Fairness ==
    /\ \A c \in Calls : WF_vars(Settled(c))
    /\ \A x \in Executions : WF_vars(Triggered(x)) /\ WF_vars(Result(x))

FairSpec == Spec /\ Fairness

(***************************************************************************)
(* Properties                                                              *)
(***************************************************************************)

\* Types; a call waits for active executions only.
TypeOK ==
    /\ started \in BOOLEAN /\ generation \in 0..MaxGenerations
    /\ timer \in [Endpoints -> 0..generation]
    /\ \A x \in Executions : exec[x].phase \in {"free", "trigger", "result"}
    /\ \A c \in Calls : call[c].op # "free" =>
        /\ call[c].gen \in 1..generation
        /\ \A x \in call[c].waits : exec[x].phase # "free"

\* A source that counts as stopped has no timer and no execution left: work
\* accepted before a stop() that timed out keeps it started, and a late stop()
\* does not clear the generation that was started after it was called.
StoppedIsQuiet ==
    ~started => \A e \in Endpoints : timer[e] = NoTimer /\ Active(e) = {}

\* Under the policy Skip an endpoint has one execution at a time, across
\* restarts too.
SkipNeverOverlaps ==
    \A e \in Endpoints : overlap[e] = "Skip" => Cardinality(Active(e)) <= 1
=============================================================================
