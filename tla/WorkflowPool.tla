---------------------------- MODULE WorkflowPool ----------------------------
(***************************************************************************)
(* WorkflowPoolCore of src/datasource/temporal/workflow-pool.ts, the pool  *)
(* that a Temporal workflow uses instead of TaskPool and PriorityTaskPool. *)
(* It pumps and drains as they do, with a fixed number of executors, adds  *)
(* waitIdle(), and its stop() has no deadline.  Zero executors mean one,   *)
(* so the instances of this module set Parallelism to 1.                   *)
(***************************************************************************)
EXTENDS TaskPools

CONSTANT Waiters   \* callers of waitIdle()

VARIABLES
    idle,      \* number of the current #idle promise
    resolved,  \* the #idle promises that were resolved
    waits,     \* the promise each waitIdle() call awaits; NotCalled, Returned
    seen       \* history: what was accepted when waitIdle() was called

NotCalled == -1
Returned == -2

idleVars == <<idle, resolved, waits, seen>>
allVars == <<poolVars, idleVars>>

\* addTask() on an idle pool makes a new #idle promise.
renewIdle == idle' = IF active = 0 /\ queue = <<>> THEN idle + 1 ELSE idle

\* finishDrainIfIdle() resolves the promise whether or not the pool stops.
resolveIdle ==
    resolved' = IF active' = 0 /\ queue' = <<>> THEN resolved \cup {idle} ELSE resolved

Init ==
    /\ PoolInit
    /\ idle = 0
    /\ resolved = {0}
    /\ waits = [w \in Waiters |-> NotCalled]
    /\ seen = [w \in Waiters |-> {}]

AddTask(t) ==
    /\ IF discipline = "fifo" THEN FifoAddTask(t) ELSE PriorityAddTask(t)
    /\ renewIdle
    /\ UNCHANGED <<discipline, resolved, waits, seen>>

\* start(), run() and its end, stop() and an abort all end with pump().
Pumped ==
    /\ \/ Start
       \/ \E t \in Tasks : Finish(t)
       \/ \E c \in Contexts : IF discipline = "fifo" THEN FifoAbort(c) ELSE PriorityAbort(c)
       \/ \E s \in Stoppers : Stop(s)
    /\ resolveIdle
    /\ UNCHANGED <<discipline, idle, waits, seen>>

Unpumped ==
    /\ \/ Run
       \/ \E t \in Tasks : Reject(t)
       \/ \E c \in Contexts : Expire(c)
       \/ \E s \in Stoppers : StopReturns(s)
    /\ UNCHANGED <<discipline, idleVars>>

WaitIdle(w) ==
    /\ waits[w] = NotCalled
    /\ waits' = [waits EXCEPT ![w] = idle]
    /\ seen' = [seen EXCEPT ![w] = Range(accepted)]
    /\ UNCHANGED <<poolVars, idle, resolved>>

WaitIdleReturns(w) ==
    /\ waits[w] \in resolved
    /\ waits' = [waits EXCEPT ![w] = Returned]
    /\ UNCHANGED <<poolVars, idle, resolved, seen>>

Next ==
    \/ \E t \in Tasks : AddTask(t)
    \/ Pumped
    \/ Unpumped
    \/ \E w \in Waiters : WaitIdle(w) \/ WaitIdleReturns(w)

\* As for the other pools; a resolved promise reaches its waiter.
Fairness ==
    /\ WF_allVars(Unpumped /\ Run)
    /\ \A t \in Tasks : WF_allVars(Pumped /\ Finish(t))
    /\ \A s \in Stoppers : WF_allVars(Unpumped /\ StopReturns(s))
    /\ \A w \in Waiters : WF_allVars(WaitIdleReturns(w))

Spec == Init /\ [][Next]_allVars /\ Fairness

(***************************************************************************)
(* Properties                                                              *)
(***************************************************************************)

\* waitIdle() returns only after everything that was accepted when it was
\* called has settled, although new work may have come since.
IdleMeansDone ==
    \A w \in Waiters : waits[w] = Returned => seen[w] \subseteq finished

\* An #idle promise that someone awaits is never replaced unresolved: in a
\* started pool every waitIdle() and every stop() returns.
WaitIdleEnds ==
    \A w \in Waiters :
        (waits[w] # NotCalled /\ state # "created") ~> waits[w] = Returned
=============================================================================
