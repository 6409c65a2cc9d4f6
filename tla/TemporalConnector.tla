-------------------------- MODULE TemporalConnector --------------------------
(***************************************************************************)
(* Lifecycle of TemporalConnector (src/datasource/temporal/connector.ts):  *)
(* a connection, the schedules of its endpoints, and one worker per task   *)
(* queue.  ServiceRuntime makes one lifecycle call at a time: start(),     *)
(* startAdmission(), stopAdmission() and stop(), again while it rejects;   *)
(* it does not stop a component whose start() was rejected.  Connection,   *)
(* schedules and workers belong to the Temporal SDK and may fail at any    *)
(* time.                                                                   *)
(***************************************************************************)
EXTENDS FiniteSets

CONSTANTS
    Queues,     \* task queues of enabled endpoints that have a handler
    Schedules   \* schedules of such endpoints

VARIABLES
    started,     \* #started
    admission,   \* #admissionStarted
    connection,  \* #connection: "none" or "open"
    worker,      \* for each queue: "none", "running", "ended" or "failed"
    kept,        \* queues of #workers and #workerRuns
    op,          \* the lifecycle call in progress, or "none"
    step,        \* what it awaits
    todo,        \* schedules or queues it has yet to deal with
    error,       \* it has met an error
    last         \* the last call that settled, and whether it was fulfilled

vars == <<started, admission, connection, worker, kept, op, step, todo, error, last>>

Init ==
    /\ started = FALSE /\ admission = FALSE
    /\ connection = "none"
    /\ worker = [q \in Queues |-> "none"] /\ kept = {}
    /\ op = "none" /\ step = "none" /\ todo = {} /\ error = FALSE
    /\ last = <<"none", TRUE>>

Begin(name, first, work) ==
    /\ op = "none"
    /\ op' = name /\ step' = first /\ todo' = work /\ error' = FALSE
    /\ UNCHANGED last

Settle(ok) ==
    /\ last' = <<op, ok>>
    /\ op' = "none" /\ step' = "none" /\ todo' = {} /\ error' = FALSE

Await(next) == step' = next /\ UNCHANGED <<op, last>>

(***************************************************************************)
(* start()                                                                 *)
(***************************************************************************)

Start ==
    /\ last[1] = "none"
    /\ Begin("start", "connect", Schedules)
    /\ UNCHANGED <<started, admission, connection, worker, kept>>

\* The connection is open: the client exists, and #started is set.
Connected ==
    /\ step = "connect"
    /\ connection' = "open" /\ started' = TRUE
    /\ Await("schedule") /\ UNCHANGED <<todo, error>>
    /\ UNCHANGED <<admission, worker, kept>>

\* It cannot be opened, or the context is aborted first: a connection that
\* still arrives is then nobody's.
ConnectFails ==
    /\ step = "connect"
    /\ Settle(FALSE)
    /\ UNCHANGED <<started, admission, connection, worker, kept>>

\* ensureSchedule() for one endpoint after the other.
Schedule ==
    /\ step = "schedule"
    /\ IF todo = {}
       THEN Settle(TRUE)
       ELSE \E s \in todo :
            \/ todo' = todo \ {s} /\ Await("schedule") /\ UNCHANGED error
            \/ todo' = {} /\ error' = TRUE /\ Await("shutdown")
    /\ UNCHANGED <<started, admission, connection, worker, kept>>

(***************************************************************************)
(* startAdmission()                                                        *)
(***************************************************************************)

StartAdmission ==
    /\ last = <<"start", TRUE>>
    /\ Begin("startAdmission", "create", Queues)
    /\ UNCHANGED <<started, admission, connection, worker, kept>>

\* Worker.create() and run() for one queue after the other; a queue with
\* conflicting limits fails like a worker that cannot be created.
CreateWorker ==
    /\ step = "create" /\ todo # {}
    /\ \E q \in todo :
        \/ /\ worker' = [worker EXCEPT ![q] = "running"]
           /\ kept' = kept \cup {q}
           /\ todo' = todo \ {q} /\ Await("create") /\ UNCHANGED error
        \/ /\ todo' = {} /\ error' = TRUE /\ Await("shutdown")
           /\ UNCHANGED <<worker, kept>>
    /\ UNCHANGED <<started, admission, connection>>

\* ensureWorkersRunning(): a failed worker, or none left that runs, rejects.
Created ==
    /\ step = "create" /\ todo = {}
    /\ IF kept = {} \/ ((\E q \in kept : worker[q] = "running") /\ \A q \in kept : worker[q] # "failed")
       THEN admission' = TRUE /\ Settle(TRUE)
       ELSE error' = TRUE /\ Await("shutdown") /\ UNCHANGED <<admission, todo>>
    /\ UNCHANGED <<started, connection, worker, kept>>

(***************************************************************************)
(* stopAdmission() and stop()                                              *)
(***************************************************************************)

StopAdmission ==
    /\ \/ last = <<"startAdmission", TRUE>>
       \/ last = <<"stopAdmission", FALSE>>
    /\ Begin("stopAdmission", "shutdown", {})
    /\ UNCHANGED <<started, admission, connection, worker, kept>>

Stop ==
    /\ \/ last[1] \in {"startAdmission", "stopAdmission"}
       \/ last = <<"start", TRUE>>
       \/ last = <<"stop", FALSE>>
    /\ Begin("stop", "shutdown", {})
    /\ UNCHANGED <<started, admission, connection, worker, kept>>

\* shutdownWorkers(): all workers have been told to stop and all their runs
\* have settled.  A run that failed is an error of the call.
ShutDown ==
    LET failure == \E q \in kept : worker[q] = "failed" IN
    /\ step = "shutdown"
    /\ \A q \in kept : worker[q] # "running"
    /\ kept' = {}
    /\ CASE op = "start" -> Await("close") /\ UNCHANGED <<admission, todo, error, started>>
         [] op = "startAdmission" -> Settle(FALSE) /\ UNCHANGED <<admission, started>>
         [] op = "stopAdmission" ->
                /\ admission' = IF failure THEN admission ELSE FALSE
                /\ Settle(~failure) /\ UNCHANGED started
         [] op = "stop" ->
                /\ started' = FALSE /\ admission' = FALSE /\ error' = failure
                /\ Await("close") /\ UNCHANGED todo
    /\ UNCHANGED <<connection, worker>>

\* connection.close(); the connector has dropped it even if this fails.
Close ==
    /\ step = "close"
    /\ connection' = "none"
    /\ Settle(~error) \/ (op = "stop" /\ Settle(FALSE))
    /\ UNCHANGED <<started, admission, worker, kept>>

(***************************************************************************)
(* The SDK                                                                 *)
(***************************************************************************)

\* A worker that has been shut down finishes its activities.
WorkerEnds(q) ==
    /\ worker[q] = "running" /\ step = "shutdown"
    /\ worker' = [worker EXCEPT ![q] = "ended"]
    /\ UNCHANGED <<started, admission, connection, kept, op, step, todo, error, last>>

WorkerFails(q) ==
    /\ worker[q] = "running"
    /\ worker' = [worker EXCEPT ![q] = "failed"]
    /\ UNCHANGED <<started, admission, connection, kept, op, step, todo, error, last>>

Next ==
    \/ Start \/ Connected \/ ConnectFails \/ Schedule
    \/ StartAdmission \/ CreateWorker \/ Created
    \/ StopAdmission \/ Stop \/ ShutDown \/ Close
    \/ \E q \in Queues : WorkerEnds(q) \/ WorkerFails(q)

Spec == Init /\ [][Next]_vars

\* SDK calls settle, and workers finish their grace period.
Fairness ==
    /\ WF_vars(Connected \/ ConnectFails) /\ WF_vars(Schedule) /\ WF_vars(CreateWorker)
    /\ WF_vars(Created) /\ WF_vars(ShutDown) /\ WF_vars(Close)
    /\ \A q \in Queues : WF_vars(WorkerEnds(q))

FairSpec == Spec /\ Fairness

(***************************************************************************)
(* Properties                                                              *)
(***************************************************************************)

\* Types; every worker that runs is kept.
TypeOK ==
    /\ connection \in {"none", "open"}
    /\ worker \in [Queues -> {"none", "running", "ended", "failed"}]
    /\ \A q \in Queues : worker[q] = "running" => q \in kept
    /\ op = "none" <=> step = "none"

\* The connection is never closed under a worker that still runs, also when
\* another worker or another step of the same call has failed.
WorkersHaveConnection ==
    \A q \in Queues : worker[q] = "running" => connection = "open"

\* A call that was fulfilled has done all of its work: start() connects,
\* startAdmission() has a worker for every queue, stopAdmission() leaves none.
FulfilledIsDone ==
    op = "none" =>
        /\ last = <<"start", TRUE>> => started /\ connection = "open"
        /\ last = <<"startAdmission", TRUE>> => admission /\ kept = Queues
        /\ last = <<"stopAdmission", TRUE>> => ~admission /\ kept = {}

\* A call that was rejected has released what it owned: a failed start() or
\* stop() leaves no connection and no worker, a failed startAdmission() no
\* worker.
RejectedIsReleased ==
    op = "none" =>
        /\ last \in {<<"start", FALSE>>, <<"stop", FALSE>>, <<"stop", TRUE>>} =>
               connection = "none" /\ kept = {}
        /\ last = <<"startAdmission", FALSE>> => kept = {} /\ ~admission
=============================================================================
