------------------------------ MODULE MCPools -------------------------------
(***************************************************************************)
(* The pools for TLC: a behaviour is one of a FIFO or a priority pool, or  *)
(* one of a small delay pool; the variables of the other stay as they are. *)
(***************************************************************************)
EXTENDS TaskPools, TLC

CONSTANTS t1, t2, t3, c1, c2, Infinity, MaxTimeout, Jitter, LastCall, Horizon

VARIABLES
    scene,   \* the component whose behaviour this is
    \* DelayPool
    delayState, now, waiting, runAt, timer, armedAt, delayReady, delayExecuting,
    delayFinished, delayAborted, delayAccepted, delayRejected, delayStops

\* One task is due beyond the longest timeout, the other at a deadline.
Delay == INSTANCE DelayPool WITH
    Tasks <- {t1, t2}, CtxOf <- (t1 :> c1) @@ (t2 :> c2),
    DelayOf <- (t1 :> 3) @@ (t2 :> Infinity), DeadlineOf <- (c1 :> Infinity) @@ (c2 :> 2),
    state <- delayState, ready <- delayReady, executing <- delayExecuting,
    finished <- delayFinished, aborted <- delayAborted, accepted <- delayAccepted,
    rejected <- delayRejected, stops <- delayStops

delayVars == <<delayState, now, waiting, runAt, timer, armedAt, delayReady, delayExecuting,
               delayFinished, delayAborted, delayAccepted, delayRejected, delayStops>>

\* Two contexts; the second and the third task have the same priority.
MC_CtxOf == (t1 :> c1) @@ (t2 :> c2) @@ (t3 :> c1)
MC_Prio == (t1 :> 2) @@ (t2 :> 1) @@ (t3 :> 1)

SceneInit ==
    /\ scene \in {"pool", "delay"}
    /\ PoolInit
    /\ scene # "pool" => discipline = "fifo"
    /\ Delay!Init

SceneNext ==
    \/ scene = "pool" /\ PoolNext /\ UNCHANGED <<scene, delayVars>>
    \/ scene = "delay" /\ Delay!Next /\ UNCHANGED <<scene, poolVars>>

\* Time passes and Node fires due timers; the callbacks of a delay pool settle.
DelayFairness ==
    /\ WF_delayVars(scene = "delay" /\ Delay!Tick)
    /\ WF_delayVars(scene = "delay" /\ Delay!TimerFires)
    /\ WF_delayVars(scene = "delay" /\ Delay!Run)
    /\ \A t \in {t1, t2} : WF_delayVars(scene = "delay" /\ Delay!CompleteTask(t))

SceneSpec ==
    /\ SceneInit /\ [][SceneNext]_<<scene, delayVars, poolVars>>
    /\ CoreFairness /\ DelayFairness

\* Once started or stopped, a pool settles everything it accepted, and every
\* stop() ends: no cancelled task, resize or timed-out stop() strands them.
\* A delayed callback with a finite delay or deadline settles however often
\* the timer is re-armed, capped or early.
WorkSettles == AcceptedWorkSettles /\ StopCompletes /\ Delay!DelayedWorkSettles
=============================================================================
