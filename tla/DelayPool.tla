----------------------------- MODULE DelayPool ------------------------------
(***************************************************************************)
(* DelayPool of src/runtime/pool/delay-pool.ts: callbacks that run when    *)
(* their delay, or the deadline of their context if that is earlier, has   *)
(* passed, or at once when their context is cancelled.  One Node timer is  *)
(* armed for the head of the heap of waiting tasks; the timer, the abort   *)
(* listeners and new submissions race for the same tasks.                  *)
(*                                                                         *)
(* Time is in whole milliseconds.  The heap is the set waiting, ordered by *)
(* runAt and then by submission.                                           *)
(***************************************************************************)
EXTENDS Integers, Sequences, FiniteSetsExt, Functions, TLC

CONSTANTS
    Tasks,       \* delay() calls; each one is made at most once
    Contexts,
    CtxOf,       \* CtxOf[t] is the context of task t
    DelayOf,     \* DelayOf[t] is the delayMs argument, Infinity included
    DeadlineOf,  \* DeadlineOf[c] is the deadline of context c, or Infinity
    Infinity,
    MaxTimeout,  \* the longest setTimeout that Node honours (INT32_MAX)
    Jitter,      \* how far ahead of performance.now() a timer may fire
    LastCall,    \* bound: delay() is called up to this time
    Horizon,     \* bound: time stops here
    Stoppers     \* callers of stop()

DelayAssumption ==
    /\ CtxOf \in [Tasks -> Contexts]
    /\ DelayOf \in [Tasks -> Int]
    /\ DeadlineOf \in [Contexts -> Nat \ {0}]
    /\ MaxTimeout \in Nat \ {0}
    /\ Jitter \in Nat
    /\ LastCall <= Horizon /\ Horizon < Infinity

VARIABLES
    state,      \* #state
    now,        \* performance.now()
    waiting,    \* #queue, the tasks in the heap
    runAt,      \* runAt of each task that was submitted
    timer,      \* when the armed timer is due, or Infinity when none is armed
    armedAt,    \* #armedAt, or Infinity for undefined and for Infinity
    ready,      \* dispatched tasks whose microtask is queued, in order
    executing,  \* tasks whose callback has not settled yet
    finished,   \* tasks whose callback has settled
    aborted,    \* contexts whose signal has fired
    accepted,   \* history: tasks that delay() took, in order
    rejected,   \* history: tasks that delay() threw back
    stops       \* progress of each stop() call

vars == <<state, now, waiting, runAt, timer, armedAt, ready, executing, finished,
          aborted, accepted, rejected, stops>>

(***************************************************************************)
(* Helpers                                                                 *)
(***************************************************************************)

\* Context.cancelled() and Context.remainingMs().
Cancelled(c) == c \in aborted \/ DeadlineOf[c] <= now
RemainingMs(c) == DeadlineOf[c] - now

\* #tasks: everything accepted whose callback has not settled.
Pending == Range(accepted) \ finished

Before(t, u) == \E i, j \in 1..Len(accepted') :
    i < j /\ accepted'[i] = t /\ accepted'[j] = u

\* The order in which the heap yields the tasks of S.
HeapOrder(S) ==
    CHOOSE s \in Bijection(1..Cardinality(S), S) :
        \A i, j \in 1..Cardinality(S) : i < j =>
            runAt'[s[i]] < runAt'[s[j]] \/ (runAt'[s[i]] = runAt'[s[j]] /\ Before(s[i], s[j]))

\* Mutant: an armed timer is kept although an earlier task came.
armOnce(S, armed) ==
    LET next == IF S = {} THEN Infinity ELSE runAt'[HeapOrder(S)[1]]
    IN  IF armed # Infinity THEN UNCHANGED <<timer, armedAt>>
        ELSE /\ armedAt' = next
             /\ timer' = IF next = Infinity THEN Infinity
                         ELSE now + Min({MaxTimeout, Max({0, next - now})})

\* arm() with #queue = S and #armedAt = armed: a timer armed for the head is
\* kept, and a long timeout is cut to what Node honours.
arm(S, armed) ==
    LET next == IF S = {} THEN Infinity ELSE runAt'[HeapOrder(S)[1]]
    IN  /\ armedAt' = next
        /\ timer' = CASE next = Infinity -> Infinity
                      [] next # Infinity /\ next = armed -> timer
                      [] OTHER -> now + Min({MaxTimeout, Max({0, next - now})})

\* dispatch() of the tasks in s, none of which was dispatched before.
dispatch(s) ==
    /\ waiting' = waiting \ Range(s)
    /\ ready' = ready \o s

(***************************************************************************)
(* Actions                                                                 *)
(***************************************************************************)

Init ==
    /\ state = "created"
    /\ now = 0
    /\ waiting = {}
    /\ runAt = <<>>
    /\ timer = Infinity
    /\ armedAt = Infinity
    /\ ready = <<>>
    /\ executing = {}
    /\ finished = {}
    /\ aborted = {}
    /\ accepted = <<>>
    /\ rejected = {}
    /\ stops = [s \in Stoppers |-> "idle"]

Start ==
    /\ state = "created"
    /\ state' = "running"
    /\ UNCHANGED <<now, waiting, runAt, timer, armedAt, ready, executing, finished,
                   aborted, accepted, rejected, stops>>

\* delay(): throws for a cancelled context or a stopping pool.
Reject(t) ==
    /\ t \notin Range(accepted) \cup rejected
    /\ Cancelled(CtxOf[t]) \/ state \in {"stopping", "stopped"}
    /\ rejected' = rejected \cup {t}
    /\ UNCHANGED <<state, now, waiting, runAt, timer, armedAt, ready, executing,
                   finished, aborted, accepted, stops>>

\* delay(): the task waits no longer than its context lives; without a delay
\* it is dispatched at once and never enters the heap.
Delay(t) ==
    LET effectiveDelay == Max({0, Min({DelayOf[t], RemainingMs(CtxOf[t])})})
        at == IF effectiveDelay >= Infinity - now THEN Infinity ELSE now + effectiveDelay
    IN  /\ now <= LastCall
        /\ t \notin Range(accepted) \cup rejected
        /\ ~Cancelled(CtxOf[t])
        /\ state \in {"created", "running"}
        /\ accepted' = Append(accepted, t)
        /\ runAt' = (t :> at) @@ runAt
        /\ IF effectiveDelay = 0
           THEN dispatch(<<t>>) /\ UNCHANGED <<timer, armedAt>>
           ELSE /\ waiting' = waiting \cup {t}
                /\ arm(waiting', armedAt)
                /\ UNCHANGED ready
        /\ UNCHANGED <<state, now, executing, finished, aborted, rejected, stops>>

\* The timer callback: dispatch everything that is due, in heap order, and
\* arm for the rest.  A capped or early timer finds nothing due.
TimerFires ==
    /\ now >= timer - Jitter /\ timer # Infinity
    /\ UNCHANGED <<accepted, runAt>>
    /\ dispatch(HeapOrder({t \in waiting : runAt[t] <= now}))
    /\ arm(waiting', Infinity)
    /\ UNCHANGED <<state, now, executing, finished, aborted, rejected, stops>>

\* The signal of c fires, by its owner or by its deadline: the listeners of
\* its waiting tasks dispatch them in subscription order and re-arm.
Abort(c) ==
    LET mine == SelectSeq(accepted, LAMBDA t : t \in waiting /\ CtxOf[t] = c)
    IN  /\ c \notin aborted
        /\ aborted' = aborted \cup {c}
        /\ UNCHANGED <<accepted, runAt>>
        /\ dispatch(mine)
        /\ IF mine = <<>> THEN UNCHANGED <<timer, armedAt>> ELSE arm(waiting', armedAt)
        /\ UNCHANGED <<state, now, executing, finished, rejected, stops>>

\* The microtask of dispatch() calls the callback.
Run ==
    /\ ready # <<>>
    /\ executing' = executing \cup {Head(ready)}
    /\ ready' = Tail(ready)
    /\ UNCHANGED <<state, now, waiting, runAt, timer, armedAt, finished, aborted,
                   accepted, rejected, stops>>

\* Mutant: the drain waits for the heap only.
CompleteForgetsRunning(t) ==
    /\ t \in executing
    /\ executing' = executing \ {t}
    /\ finished' = finished \cup {t}
    /\ state' = IF state = "stopping" /\ waiting = {} THEN "stopped" ELSE state
    /\ UNCHANGED <<now, waiting, runAt, timer, armedAt, ready, aborted, accepted,
                   rejected, stops>>

\* completeTask() and finishDrainIfIdle().
CompleteTask(t) ==
    /\ t \in executing
    /\ executing' = executing \ {t}
    /\ finished' = finished \cup {t}
    /\ state' = IF state = "stopping" /\ Pending = {t} THEN "stopped" ELSE state
    /\ UNCHANGED <<now, waiting, runAt, timer, armedAt, ready, aborted, accepted,
                   rejected, stops>>

\* stop(): the first call closes admission; an idle pool is stopped at once,
\* otherwise every caller waits for the drain promise.
Stop(s) ==
    /\ stops[s] = "idle"
    /\ state' = IF state \in {"created", "running"}
                THEN IF Pending = {} THEN "stopped" ELSE "stopping"
                ELSE state
    /\ stops' = [stops EXCEPT ![s] = IF state' = "stopped" THEN "drained" ELSE "waiting"]
    /\ UNCHANGED <<now, waiting, runAt, timer, armedAt, ready, executing, finished,
                   aborted, accepted, rejected>>

\* awaitPoolDrain(): the drain promise, or the caller's deadline.
StopReturns(s) ==
    /\ stops[s] = "waiting"
    /\ state = "stopped"
    /\ stops' = [stops EXCEPT ![s] = "drained"]
    /\ UNCHANGED <<state, now, waiting, runAt, timer, armedAt, ready, executing,
                   finished, aborted, accepted, rejected>>

StopTimesOut(s) ==
    /\ stops[s] = "waiting"
    /\ stops' = [stops EXCEPT ![s] = "failed"]
    /\ UNCHANGED <<state, now, waiting, runAt, timer, armedAt, ready, executing,
                   finished, aborted, accepted, rejected>>

\* A millisecond passes.  Microtasks run before the event loop turns.
Tick ==
    /\ now < Horizon
    /\ ready = <<>>
    /\ now' = now + 1
    /\ UNCHANGED <<state, waiting, runAt, timer, armedAt, ready, executing, finished,
                   aborted, accepted, rejected, stops>>

Next ==
    \/ Start \/ TimerFires \/ Run \/ Tick
    \/ \E t \in Tasks : Reject(t) \/ Delay(t) \/ CompleteTask(t)
    \/ \E c \in Contexts : Abort(c)
    \/ \E s \in Stoppers : Stop(s) \/ StopReturns(s) \/ StopTimesOut(s)

\* Time passes, Node fires due timers and runs microtasks, callbacks settle.
Fairness ==
    /\ WF_vars(Tick) /\ WF_vars(TimerFires) /\ WF_vars(Run)
    /\ \A t \in Tasks : WF_vars(CompleteTask(t))

Spec == Init /\ [][Next]_vars /\ Fairness

(***************************************************************************)
(* Properties                                                              *)
(***************************************************************************)

TypeOK ==
    /\ state \in {"created", "running", "stopping", "stopped"}
    /\ now \in 0..Horizon
    /\ waiting \in SUBSET Tasks
    /\ DOMAIN runAt = Range(accepted)
    /\ timer \in 0..now + MaxTimeout \cup {Infinity}
    /\ ready \in Seq(Tasks) /\ accepted \in Seq(Tasks)
    /\ executing \in SUBSET Tasks /\ finished \in SUBSET Tasks
    /\ stops \in [Stoppers -> {"idle", "waiting", "drained", "failed"}]

\* Timer, abort listener and submission race for a task, and exactly one of
\* them dispatches it: every accepted task is waiting, or about to run, or
\* running, or done, and never in two of these places.
DispatchedOnce ==
    /\ IsInjective(ready)
    /\ Range(accepted) = waiting \cup Range(ready) \cup executing \cup finished
    /\ waiting \cap (Range(ready) \cup executing \cup finished) = {}
    /\ Range(ready) \cap (executing \cup finished) = {}
    /\ executing \cap finished = {}

\* The one timer always covers the task that is due first: whenever a task
\* waits for a finite time, a timer is armed that fires no later than the
\* earliest runAt (or than the longest timeout from now, when that is less).
TimerCoversHead ==
    \A t \in waiting : runAt[t] # Infinity =>
        timer # Infinity /\ timer <= Max({now, runAt[t]})

\* A callback starts before its delay has passed only when its context is
\* cancelled, and among the tasks the timer takes none overtakes one that
\* is due earlier.
NeverEarly ==
    \A t \in Range(ready') \ Range(ready) :
        \/ CtxOf[t] \in aborted'
        \/ /\ runAt'[t] <= now
           /\ t \in waiting => \A u \in waiting' : runAt[u] >= runAt[t]

\* What a task waits for comes: every accepted callback with a finite delay
\* or deadline settles, however often the timer is re-armed, capped or
\* early, and also while the pool drains.
DelayedWorkSettles ==
    \A t \in Tasks :
        (t \in Range(accepted) /\ runAt[t] < Infinity) ~> t \in finished

(***************************************************************************)
(* The pool keeps the promise of DrainPool with as many executors as tasks.*)
(***************************************************************************)

Promise == INSTANCE DrainPool WITH
    open <- state \in {"created", "running"},
    accepted <- Range(accepted),
    started <- Range(ready) \cup executing \cup finished,
    limit <- Cardinality(Tasks),
    drained <- state = "stopped"

\* Every step of the delay pool is a step of DrainPool: stop() drains all.
ImplementsDrainPool == Promise!Spec
=============================================================================
