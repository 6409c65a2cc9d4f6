------------------------ MODULE WorkflowEnvironment -------------------------
(***************************************************************************)
(* One execution of a Temporal workflow endpoint:                          *)
(* executeTemporalWorkflowEndpoint of src/datasource/temporal/workflows.ts *)
(* over TemporalWorkflowEnvironment of workflow-environment.ts.  The graph *)
(* is a set of units of work; a unit is submitted by a running one (or by  *)
(* the activation of the endpoint) to a pool or to the task registry.  The *)
(* pools are taken as DrainPool describes them, with waitIdle().           *)
(***************************************************************************)
EXTENDS Integers, FiniteSets, Functions, Sequences

CONSTANTS
    Units,
    Parent,     \* Parent[u] submits u; Activation for the endpoint itself
    Home,       \* Home[u] is the pool that runs u, or Tasks
    PoolOrder,  \* the pools in the order in which finish() stops them
    ExecutorsCount, \* of each pool
    Tasks,      \* the task registry, as a home
    Activation,
    Callers,    \* units that call a SubStream and wait for their children
    HasResult   \* the endpoint has a result stream

Pools == Range(PoolOrder)

EnvironmentAssumption ==
    /\ Parent \in [Units -> Units \cup {Activation}]
    /\ Home \in [Units -> Pools \cup {Tasks}]
    /\ PoolOrder \in Seq(Pools) /\ Tasks \notin Pools
    /\ ExecutorsCount \in [Pools -> Nat \ {0}]
    /\ Callers \subseteq Units /\ HasResult \in BOOLEAN

VARIABLES
    unit,      \* progress of each unit
    pool,      \* #state of each pool
    accepting, \* #accepting of the task registry
    failure,   \* #failure is set
    result,    \* the result promise is resolved
    main,      \* where the execution stands
    awaiting,  \* promises that the Promise.all of waitForQuiescence misses
    next,      \* index of the pool that finish() stops next
    outcome    \* how the execution ended

vars == <<unit, pool, accepting, failure, result, main, awaiting, next, outcome>>

(***************************************************************************)
(* Work                                                                    *)
(***************************************************************************)

Live == {"queued", "running", "calling"}
At(h) == {u \in Units : Home[u] = h}

\* A pool is idle when nothing is queued or active in it.
Idle(h) == \A u \in At(h) : unit[u] \notin Live
IdleAfter(h) == \A u \in At(h) : unit'[u] \notin Live

Init ==
    /\ unit = [u \in Units |-> "new"]
    /\ pool = [p \in Pools |-> "running"]
    /\ accepting = TRUE
    /\ failure = FALSE
    /\ result = FALSE
    /\ main = "activating"
    /\ awaiting = {}
    /\ next = 1
    /\ outcome = "none"

Running(p) == IF p = Activation THEN main = "activating" ELSE unit[p] = "running"

\* A pool that became idle resolves its #idle promise in the same turn.
Settled == awaiting' = {h \in awaiting : h = Tasks \/ ~IdleAfter(h)}

\* A unit is submitted: TaskPoolCaller and ParallelCaller.
Submit(u) ==
    /\ unit[u] = "new"
    /\ Running(Parent[u])
    /\ IF Home[u] = Tasks
       THEN accepting /\ unit' = [unit EXCEPT ![u] = "running"]
       ELSE pool[Home[u]] = "running" /\ unit' = [unit EXCEPT ![u] = "queued"]
    /\ UNCHANGED <<pool, accepting, failure, result, main, awaiting, next, outcome>>

\* A stopping pool or a closed registry turns it away: recordFailure().
Refuse(u) ==
    /\ unit[u] = "new"
    /\ Running(Parent[u])
    /\ IF Home[u] = Tasks THEN ~accepting ELSE pool[Home[u]] # "running"
    /\ unit' = [unit EXCEPT ![u] = "refused"]
    /\ failure' = TRUE
    /\ UNCHANGED <<pool, accepting, result, main, awaiting, next, outcome>>

\* A free executor of the pool takes a queued unit.
Run(u) ==
    /\ unit[u] = "queued"
    /\ Cardinality({v \in At(Home[u]) : unit[v] \in {"running", "calling"}})
           < ExecutorsCount[Home[u]]
    /\ unit' = [unit EXCEPT ![u] = "running"]
    /\ UNCHANGED <<pool, accepting, failure, result, main, awaiting, next, outcome>>

Children(u) == {v \in Units : Parent[v] = u}

\* A unit calls a SubStream whose body is its children: waitSubStreamResult()
\* throws at once when the graph has failed.
Call(u) ==
    /\ u \in Callers /\ unit[u] = "running"
    /\ \A v \in Children(u) : unit[v] # "new"
    /\ ~failure
    /\ unit' = [unit EXCEPT ![u] = "calling"]
    /\ UNCHANGED <<pool, accepting, failure, result, main, awaiting, next, outcome>>

\* Mutants: the error of a unit is not recorded; a failure does not wake the
\* calls that wait for a result.
FinishUnreported(u, failed) ==
    /\ \/ unit[u] = "running"
       \/ unit[u] = "calling" /\ \A v \in Children(u) : unit[v] \in {"done", "failed"}
    /\ unit' = [unit EXCEPT ![u] = IF failed THEN "failed" ELSE "done"]
    /\ result' \in {result, result \/ (HasResult /\ ~failed)}
    /\ Settled
    /\ UNCHANGED <<pool, accepting, failure, main, next, outcome>>

FinishUnwoken(u, failed) ==
    /\ \/ unit[u] = "running" /\ (u \in Callers => failed)
       \/ unit[u] = "calling" /\ ~failed /\ \A v \in Children(u) : unit[v] = "done"
    /\ unit' = [unit EXCEPT ![u] = IF failed THEN "failed" ELSE "done"]
    /\ failure' = (failure \/ failed)
    /\ result' \in {result, result \/ (HasResult /\ ~failed)}
    /\ Settled
    /\ UNCHANGED <<pool, accepting, main, next, outcome>>

\* A unit ends, normally or with an error; a caller ends when the results of
\* its children are there, or with the failure that woke it up.  A result
\* may have been delivered.
Finish(u, failed) ==
    /\ \/ unit[u] = "running" /\ (u \in Callers => failed)
       \/ unit[u] = "calling" /\ ~failed /\ \A v \in Children(u) : unit[v] = "done"
       \/ unit[u] = "calling" /\ failed /\ failure
    /\ unit' = [unit EXCEPT ![u] = IF failed THEN "failed" ELSE "done"]
    /\ failure' = (failure \/ failed)
    /\ result' \in {result, result \/ (HasResult /\ ~failed)}
    /\ Settled
    /\ UNCHANGED <<pool, accepting, main, next, outcome>>

(***************************************************************************)
(* The execution                                                           *)
(***************************************************************************)

Quiet == \A u \in Units : unit[u] \notin Live

\* The catch and finally of executeTemporalWorkflowEndpoint(): what was thrown
\* first, before or by finish(), is the outcome.
Outcome(threw) == outcome' = IF threw THEN "failed" ELSE outcome

\* activate() returned, or threw and finish() runs.
Activated ==
    /\ main = "activating"
    /\ main' \in {IF HasResult THEN "racing" ELSE "quiescing", "finishing"}
    /\ Outcome(main' = "finishing")
    /\ UNCHANGED <<unit, pool, accepting, failure, result, awaiting, next>>

\* waitForCompletion(): the result races the failure signal.
Raced ==
    /\ main = "racing"
    /\ result \/ failure
    /\ main' = IF failure THEN "finishing" ELSE "quiescing"
    /\ Outcome(failure)
    /\ UNCHANGED <<unit, pool, accepting, failure, result, awaiting, next>>

\* waitForQuiescence(), called by waitForCompletion() ("quiescing") and again
\* by finish() ("finishing"): throw if the graph has failed, otherwise wait
\* for the pools and the registry as they are now.
Wait ==
    /\ main \in {"quiescing", "finishing"}
    /\ IF failure
       THEN /\ main' = IF main = "quiescing" THEN "finishing" ELSE "sealing"
            /\ Outcome(TRUE)
            /\ UNCHANGED awaiting
       ELSE /\ main' = IF main = "quiescing" THEN "awaiting" ELSE "awaitingLast"
            /\ awaiting' = {h \in Pools \cup {Tasks} : ~Idle(h)}
            /\ UNCHANGED outcome
    /\ UNCHANGED <<unit, pool, accepting, failure, result, next>>

\* drain() of the registry found it empty.
TasksDrained ==
    /\ Tasks \in awaiting /\ Idle(Tasks)
    /\ awaiting' = awaiting \ {Tasks}
    /\ UNCHANGED <<unit, pool, accepting, failure, result, main, next, outcome>>

\* Promise.all resolved: done only if everything is still idle now.
Recheck ==
    /\ main \in {"awaiting", "awaitingLast"}
    /\ awaiting = {}
    /\ main' = CASE Quiet /\ main = "awaiting" -> "finishing"
                 [] Quiet /\ main = "awaitingLast" -> "sealing"
                 [] ~Quiet /\ main = "awaiting" -> "quiescing"
                 [] OTHER -> "finishing"
    /\ outcome' = IF Quiet /\ outcome = "none" THEN "ok" ELSE outcome
    /\ UNCHANGED <<unit, pool, accepting, failure, result, awaiting, next>>

\* finish(): close the registry and begin to stop the first pool.
Seal ==
    /\ main = "sealing"
    /\ accepting' = FALSE
    /\ main' = "stopping"
    /\ UNCHANGED <<unit, pool, failure, result, awaiting, next, outcome>>

\* stop() of one pool after the other, each awaited.
StopPool ==
    /\ main = "stopping" /\ next <= Len(PoolOrder)
    /\ pool[PoolOrder[next]] = "running"
    /\ pool' = [pool EXCEPT ![PoolOrder[next]] = "stopping"]
    /\ UNCHANGED <<unit, accepting, failure, result, main, awaiting, next, outcome>>

PoolStopped ==
    /\ main = "stopping" /\ next <= Len(PoolOrder)
    /\ pool[PoolOrder[next]] = "stopping"
    /\ Idle(PoolOrder[next])
    /\ pool' = [pool EXCEPT ![PoolOrder[next]] = "stopped"]
    /\ next' = next + 1
    /\ UNCHANGED <<unit, accepting, failure, result, main, awaiting, outcome>>

\* The registry is drained, the storages are stopped, and a recorded failure
\* is thrown.
Close ==
    /\ main = "stopping" /\ next > Len(PoolOrder)
    /\ Idle(Tasks)
    /\ main' = "done"
    /\ Outcome(failure)
    /\ UNCHANGED <<unit, pool, accepting, failure, result, awaiting, next>>

Next ==
    \/ \E u \in Units : Submit(u) \/ Refuse(u) \/ Run(u) \/ Call(u)
    \/ \E u \in Units, failed \in BOOLEAN : Finish(u, failed)
    \/ Activated \/ Raced \/ Wait \/ TasksDrained \/ Recheck
    \/ Seal \/ StopPool \/ PoolStopped \/ Close

\* Microtasks run, executors take work, units end, promises are delivered.
Fairness ==
    /\ \A u \in Units : WF_vars(Run(u)) /\ WF_vars(Finish(u, FALSE) \/ Finish(u, TRUE))
    /\ \A u \in Callers : WF_vars(Call(u))
    /\ WF_vars(Activated \/ Raced \/ Wait \/ TasksDrained \/ Recheck)
    /\ WF_vars(Seal \/ StopPool \/ PoolStopped \/ Close)

Spec == Init /\ [][Next]_vars /\ Fairness

(***************************************************************************)
(* Properties                                                              *)
(***************************************************************************)

TypeOK ==
    /\ unit \in [Units -> Live \cup {"new", "refused", "done", "failed"}]
    /\ pool \in [Pools -> {"running", "stopping", "stopped"}]
    /\ awaiting \subseteq Pools \cup {Tasks}
    /\ awaiting # {} => main \in {"awaiting", "awaitingLast"}
    /\ next \in 1..Len(PoolOrder) + 1
    /\ outcome \in {"none", "ok", "failed"}
    /\ main \in {"activating", "racing", "quiescing", "awaiting", "finishing",
                 "awaitingLast", "sealing", "stopping", "done"}

\* finish() leaves nothing behind: when the execution has ended, no unit is
\* queued or running, whichever way the graph failed while it was stopped.
FinishedMeansQuiet == main = "done" => Quiet

\* A workflow that reports success has lost no work: everything its graph
\* submitted was run, none of it was turned away by the cleanup.
SuccessMeansComplete ==
    main = "done" /\ outcome = "ok" =>
        \A u \in Units : unit[u] \in {"new", "done"}

\* The execution ends once the graph has a result or a failure: a failure
\* wakes the SubStream calls, and the quiescence loop terminates.
ExecutionEnds ==
    (main # "activating" /\ (~HasResult \/ result \/ failure)) ~> main = "done"
=============================================================================
