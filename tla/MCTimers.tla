------------------------------ MODULE MCTimers ------------------------------
(***************************************************************************)
(* The parts that work with timers: the delay pool, the interval timer,    *)
(* the cron source and the join storage; and the heap in which pools keep  *)
(* their tasks. A behaviour is one of a single scene; the other components *)
(* stay in their initial state.                                            *)
(***************************************************************************)
EXTENDS Integers, TLC

CONSTANTS Infinity, MaxTimeout, Jitter, LastCall, Horizon, Stoppers,
          Milliseconds, MaxDelay, MaxTime, MaxSteps, Endpoints, Calls,
          MaxGenerations, Items, Keys, TTLs, SHRINK_FACTOR, None,
          Fresh, \* identities of cron executions and of groups
          t1, t2, t3, t4, c1, c2, m1, m2

VARIABLES
    scene,   \* the component whose behaviour this is
    \* DelayPool
    state, delayNow, waiting, runAt, delayTimer, armedAt, ready,
    executing, finished, delayAborted, accepted, rejected, stops,
    \* IntervalTimer
    intervalNow, steps, deadline, policy, intervalAborted, next, delay,
    dispatched,
    \* CronSource
    overlap, hasResult, started, generation, cancelled, cronTimer,
    running, gauge, exec, call,
    \* IndexedHeap
    heap, key, members,
    \* HashMapJoinStorage
    group, current, previous, highWaterMark, join, left, joinAborted,
    activeTTLJoins, stop, closed

\* An endless delay, a delay of zero, and two delays of a context with a
\* deadline, one of them beyond the longest timeout.
TaskContext == (t1 :> c1) @@ (t2 :> c1) @@ (t3 :> c2) @@ (t4 :> c2)
TaskDelay == (t1 :> 1) @@ (t2 :> 4) @@ (t3 :> Infinity) @@ (t4 :> 0)
ContextDeadline == (c1 :> 3) @@ (c2 :> Infinity)

\* Two messages of one key, the first with a context deadline.
MessageKey == (m1 :> "key") @@ (m2 :> "key")
MessageLife == (m1 :> 1) @@ (m2 :> -1)

Delay == INSTANCE DelayPool WITH
    Tasks <- {t1, t2, t3, t4}, Contexts <- {c1, c2}, CtxOf <- TaskContext,
    DelayOf <- TaskDelay, DeadlineOf <- ContextDeadline, now <- delayNow,
    timer <- delayTimer, aborted <- delayAborted
Interval == INSTANCE IntervalTimer WITH
    now <- intervalNow, aborted <- intervalAborted
Cron == INSTANCE CronSource WITH
    Executions <- Fresh, timer <- cronTimer
Heap == INSTANCE IndexedHeap
Storage == INSTANCE HashMapJoinStorage WITH
    Messages <- {m1, m2}, Keys <- {"key"}, Key <- MessageKey, Life <- MessageLife,
    Groups <- Fresh, EarlyCancel <- TRUE, Lag <- TRUE, aborted <- joinAborted

delayVars == <<state, delayNow, waiting, runAt, delayTimer, armedAt, ready,
               executing, finished, delayAborted, accepted, rejected, stops>>
intervalVars == <<intervalNow, steps, deadline, policy, intervalAborted, next,
                  delay, dispatched>>
cronVars == <<overlap, hasResult, started, generation, cancelled, cronTimer,
              running, gauge, exec, call>>
heapVars == <<heap, key, members>>
storageVars == <<group, current, previous, highWaterMark, join, left,
                 joinAborted, activeTTLJoins, stop, closed>>
sceneVars == <<scene, delayVars, intervalVars, cronVars, heapVars, storageVars>>

\* The executions of the cron source are interchangeable, and so are the groups
\* of the join storage.
Symmetry == Permutations(Fresh)

SceneInit ==
    /\ scene \in {"delay", "interval", "cron", "heap", "storage"}
    /\ Delay!Init
    /\ Interval!Init
    /\ scene # "interval" => intervalNow = 0 /\ deadline = 0 /\ policy = "Skip" /\ intervalAborted
    /\ Cron!Init
    /\ scene # "cron" => overlap = [e \in Endpoints |-> "Skip"] /\ hasResult = [e \in Endpoints |-> FALSE]
    /\ Heap!Init
    /\ scene # "heap" => key = [x \in Items |-> 1]
    /\ Storage!Init

SceneNext ==
    /\ \/ scene = "delay" /\ Delay!Next /\ UNCHANGED <<intervalVars, cronVars, heapVars, storageVars>>
       \/ scene = "interval" /\ Interval!Next /\ UNCHANGED <<delayVars, cronVars, heapVars, storageVars>>
       \/ scene = "cron" /\ Cron!Next /\ UNCHANGED <<delayVars, intervalVars, heapVars, storageVars>>
       \/ scene = "heap" /\ Heap!Next /\ UNCHANGED <<delayVars, intervalVars, cronVars, storageVars>>
       \/ scene = "storage" /\ Storage!Next /\ UNCHANGED <<delayVars, intervalVars, cronVars, heapVars>>
    /\ UNCHANGED scene

SceneSpec ==
    /\ SceneInit /\ [][SceneNext]_sceneVars

ASSUME TimersAssumption ==
    /\ Delay!DelayAssumption
    /\ Interval!IntervalAssumption
    /\ Heap!HeapAssumption

\* The one timer of the delay pool covers the task that is due first, however
\* it was re-armed, capped or early, and every task is dispatched once.
TimerCoversHead == scene = "delay" => Delay!TimerCoversHead /\ Delay!DispatchedOnce

\* Timers fire when they should: a delayed callback not before its delay has
\* passed unless it is cancelled, the interval timer for the latest occurrence
\* that is due, once, and not for a cancelled owner.
FiresWhenDue ==
    [][/\ scene = "delay" => Delay!NeverEarly
       /\ scene = "interval" => Interval!LatestDueOnce /\ Interval!CancelledStaysQuiet]_sceneVars

\* A cron source that counts as stopped has no timer and no execution left, and
\* under the policy Skip no endpoint has two executions, across restarts too.
StoppedIsQuiet == scene = "cron" => Cron!StoppedIsQuiet /\ Cron!SkipNeverOverlaps

\* The heap gives a least item after any removals and reprioritisations, and
\* its position map follows every exchange.
LeastOnTop == scene = "heap" => Heap!PositionsAgree /\ Heap!LeastOnTop

\* The delay pool keeps the promise of DrainPool: stop() drains all that it
\* accepted.  It has no executors, so the limit of DrainPool is the number of
\* tasks and says nothing here.
ImplementsDrainPool == Delay!ImplementsDrainPool

\* A stored value stays in a group that will complete or expire, and a key has
\* its group in one generation only, so that no rotation evicts one.
ValuesKept == scene = "storage" => Storage!NoValueLost /\ Storage!OneGeneration

\* A value is part of one closing callback of the join storage at most and of
\* no callback after it, and a group that was replaced is never put back.
GroupsCloseOnce ==
    [][scene = "storage" => Storage!ClosedOnce /\ Storage!NeverRepublished]_sceneVars

\* A configured TTL that was renewed while its timer's expiry was waiting is
\* respected: the expiry callback runs on a group whose time is up, or for a
\* context that was aborted (README.md:119).
ExpiresWhenDue == [][scene = "storage" => Storage!ExpiresWhenDue]_sceneVars
=============================================================================
