----------------------------- MODULE TaskPools ------------------------------
(***************************************************************************)
(* The two task pools of src/runtime/pool, which share the admission of    *)
(* queued callbacks up to executorsCount (pump), their execution, resize,  *)
(* start and the draining stop, and differ in the order of their queue.    *)
(*                                                                         *)
(* TaskPool of task-pool.ts: an unbounded FIFO of callbacks.  A queued     *)
(* task whose context is cancelled is not dropped; it moves to the front   *)
(* of the queue (FifoQueue.moveToFront) and runs with its cancelled        *)
(* context.                                                                *)
(*                                                                         *)
(* PriorityTaskPool of priority-task-pool.ts: the lowest priority number   *)
(* runs first, equal priorities in submission order.  The indexed heap is  *)
(* represented by its pop order (IndexedHeap.tla checks that the heap      *)
(* yields it).  Cancelling a queued task sets its priority to minus        *)
(* infinity.                                                               *)
(*                                                                         *)
(* One action is one synchronous turn of the JavaScript event loop.  The   *)
(* queue is kept in the order in which shift()/pop() hands tasks out.      *)
(***************************************************************************)
EXTENDS Integers, FiniteSets, Sequences, Functions

CONSTANTS
    Tasks,        \* addTask calls; each one is made at most once
    Contexts,     \* the contexts the tasks are submitted with
    CtxOf,        \* CtxOf[t] is the context of task t
    Counts,       \* values passed to the constructor and to resize
    Parallelism,  \* os.availableParallelism()
    Stoppers,     \* callers of stop()
    Prio          \* Prio[t] is the priority argument of addTask

ASSUME PoolAssumption ==
    /\ IsFiniteSet(Tasks)
    /\ CtxOf \in [Tasks -> Contexts]
    /\ Counts \subseteq Nat
    /\ Parallelism \in Nat \ {0}

ASSUME PrioAssumption == Prio \in [Tasks -> Int]

VARIABLES
    state,           \* #state
    queue,           \* #queue, in hand-out order
    ready,           \* tasks whose run() microtask is queued, in FIFO order
    executing,       \* tasks whose callback has not settled yet
    finished,        \* tasks whose callback has settled
    active,          \* #active
    executorsCount,  \* #executorsCount
    expired,         \* contexts whose deadline has passed
    aborted,         \* contexts whose signal has fired
    accepted,        \* history: tasks that addTask took, in order
    rejected,        \* history: tasks that addTask threw back
    stops,           \* progress of each stop() call
    discipline       \* the class of the pool: "fifo" or "priority"

taskVars == <<queue, ready, executing, finished, accepted, rejected>>
vars == <<state, taskVars, active, executorsCount, expired, aborted, stops>>
poolVars == <<discipline, vars>>

(***************************************************************************)
(* Helpers                                                                 *)
(***************************************************************************)

States == {"created", "running", "stopping", "stopped"}

\* Zero asks for one executor per CPU.
normalizeExecutorsCount(count) == IF count = 0 THEN Parallelism ELSE count

\* Context.cancelled(): the signal fired, or the deadline passed and the
\* timer that fires the signal is still on its way.
Cancelled(c) == c \in aborted \cup expired

Admitted == Range(ready) \cup executing

\* How many queued tasks pump() starts: it runs only while the pool runs or
\* drains, and only as far as the executors and the queue reach.
Room(st, q, a, limit) ==
    IF st \notin {"running", "stopping"} \/ limit <= a THEN 0
    ELSE IF Len(q) <= limit - a THEN Len(q) ELSE limit - a

\* finishDrainIfIdle(): a stopping pool with nothing left is stopped.
finishDrainIfIdle(st, q, a) ==
    IF st = "stopping" /\ a = 0 /\ q = <<>> THEN "stopped" ELSE st

\* Mutant: the head is read but not removed.
pumpPeek(st, q, a, limit) ==
    LET n == Room(st, q, a, limit)
    IN  /\ queue' = q
        /\ ready' = ready \o SubSeq(q, 1, n)
        /\ active' = a + n
        /\ state' = finishDrainIfIdle(st, q, a + n)

\* pump() with #state = st, #queue = q, #active = a: it ends with
\* finishDrainIfIdle() unless it returned at once.
pump(st, q, a, limit) ==
    LET n == Room(st, q, a, limit)
        rest == SubSeq(q, n + 1, Len(q))
    IN  /\ queue' = rest
        /\ ready' = ready \o SubSeq(q, 1, n)
        /\ active' = a + n
        /\ state' = finishDrainIfIdle(st, rest, a + n)

AcceptedBefore(t, u) ==
    \E i, j \in 1..Len(accepted) : i < j /\ accepted[i] = t /\ accepted[j] = u

(***************************************************************************)
(* What both pools do                                                      *)
(***************************************************************************)

CoreInit ==
    /\ state = "created"
    /\ queue = <<>>
    /\ ready = <<>>
    /\ executing = {}
    /\ finished = {}
    /\ active = 0
    /\ executorsCount \in {normalizeExecutorsCount(n) : n \in Counts}
    /\ expired = {}
    /\ aborted = {}
    /\ accepted = <<>>
    /\ rejected = {}
    /\ stops = [s \in Stoppers |-> "idle"]

\* start(): rejects unless the pool was just created.
Start ==
    /\ state = "created"
    /\ pump("running", queue, active, executorsCount)
    /\ UNCHANGED <<executing, finished, executorsCount, expired, aborted,
                   accepted, rejected, stops>>

\* resize(): ignored once the pool stops.
Resize(n) ==
    /\ state \in {"created", "running"}
    /\ executorsCount' = normalizeExecutorsCount(n)
    /\ pump(state, queue, active, executorsCount')
    /\ UNCHANGED <<executing, finished, expired, aborted, accepted, rejected, stops>>

\* The accepting half of addTask: q is the queue with the task inserted.
Accept(t, q) ==
    /\ t \notin Range(accepted) \cup rejected
    /\ ~Cancelled(CtxOf[t])
    /\ state \in {"created", "running"}
    /\ accepted' = Append(accepted, t)
    /\ pump(state, q, active, executorsCount)
    /\ UNCHANGED <<executing, finished, executorsCount, expired, aborted,
                   rejected, stops>>

\* addTask throws: the context is cancelled or the pool is stopping.
Reject(t) ==
    /\ t \notin Range(accepted) \cup rejected
    /\ Cancelled(CtxOf[t]) \/ state \in {"stopping", "stopped"}
    /\ rejected' = rejected \cup {t}
    /\ UNCHANGED <<state, queue, ready, executing, finished, active,
                   executorsCount, expired, aborted, accepted, stops>>

\* The microtask queued by pump() calls run(): the callback starts.  A
\* callback that throws synchronously is one that settles right away.
Run ==
    /\ ready # <<>>
    /\ executing' = executing \cup {Head(ready)}
    /\ ready' = Tail(ready)
    /\ UNCHANGED <<state, queue, finished, active, executorsCount, expired,
                   aborted, accepted, rejected, stops>>

\* Mutant: the freed executor is not handed to the next queued task.
FinishWithoutPump(t) ==
    /\ t \in executing
    /\ executing' = executing \ {t}
    /\ finished' = finished \cup {t}
    /\ active' = active - 1
    /\ state' = finishDrainIfIdle(state, queue, active - 1)
    /\ UNCHANGED <<queue, ready, executorsCount, expired, aborted, accepted,
                   rejected, stops>>

\* taskFinished(): the callback returned, resolved, rejected or threw.
Finish(t) ==
    /\ t \in executing
    /\ executing' = executing \ {t}
    /\ finished' = finished \cup {t}
    /\ pump(state, queue, active - 1, executorsCount)
    /\ UNCHANGED <<executorsCount, expired, aborted, accepted, rejected, stops>>

\* A context's deadline passes.
Expire(c) ==
    /\ ~Cancelled(c)
    /\ expired' = expired \cup {c}
    /\ UNCHANGED <<state, taskVars, active, executorsCount, aborted, stops>>

\* The signal of context c fires; q is the queue after every subscribed
\* cancel() moved its task forward.  Each cancel() ends with pump().
Fire(c, q) ==
    /\ c \notin aborted
    /\ aborted' = aborted \cup {c}
    /\ pump(state, q, active, executorsCount)
    /\ UNCHANGED <<executing, finished, executorsCount, expired, accepted,
                   rejected, stops>>

\* stop(): the first call closes admission and pumps; every call that finds
\* work left waits for the shared drain promise.
Stop(s) ==
    /\ stops[s] = "idle"
    /\ IF state \in {"created", "running"}
       THEN pump("stopping", queue, active, executorsCount)
       ELSE UNCHANGED <<state, queue, ready, active>>
    /\ stops' = [stops EXCEPT ![s] =
                    IF state' = "stopped" THEN "drained" ELSE "waiting"]
    /\ UNCHANGED <<executing, finished, executorsCount, expired, aborted,
                   accepted, rejected>>

\* Mutant: a caller that gives up takes the shared drain promise with it.
StopReturnsUnlessTimedOut(s) ==
    /\ stops[s] = "waiting"
    /\ state = "stopped" /\ \A q \in Stoppers : stops[q] # "failed"
    /\ stops' = [stops EXCEPT ![s] = "drained"]
    /\ UNCHANGED <<state, taskVars, active, executorsCount, expired, aborted>>

\* awaitPoolDrain() sees the drain promise resolved ...
StopReturns(s) ==
    /\ stops[s] = "waiting"
    /\ state = "stopped"
    /\ stops' = [stops EXCEPT ![s] = "drained"]
    /\ UNCHANGED <<state, taskVars, active, executorsCount, expired, aborted>>

\* ... or the caller's own deadline passes first: only this caller gives up.
StopTimesOut(s) ==
    /\ stops[s] = "waiting"
    /\ stops' = [stops EXCEPT ![s] = "failed"]
    /\ UNCHANGED <<state, taskVars, active, executorsCount, expired, aborted>>

\* Everything but addTask and the firing of a signal.
CoreNext ==
    \/ Start
    \/ \E n \in Counts : Resize(n)
    \/ \E t \in Tasks : Reject(t)
    \/ Run
    \/ \E t \in Tasks : Finish(t)
    \/ \E c \in Contexts : Expire(c)
    \/ \E s \in Stoppers : Stop(s) \/ StopReturns(s) \/ StopTimesOut(s)

\* Microtasks always run; callbacks are taken to settle; a resolved drain
\* promise reaches the stop() that waits for it.
CoreFairness ==
    /\ WF_vars(Run)
    /\ \A t \in Tasks : WF_vars(Finish(t))
    /\ \A s \in Stoppers : WF_vars(StopReturns(s))

(***************************************************************************)
(* TaskPool                                                                *)
(***************************************************************************)

\* Mutants: a stopping pool still accepts; the task is pushed at the head.
FifoAddTaskUnchecked(t) ==
    /\ t \notin Range(accepted) \cup rejected
    /\ ~Cancelled(CtxOf[t])
    /\ accepted' = Append(accepted, t)
    /\ pump(state, Append(queue, t), active, executorsCount)
    /\ UNCHANGED <<executing, finished, executorsCount, expired, aborted,
                   rejected, stops>>

FifoAddTaskAtFront(t) == Accept(t, <<t>> \o queue)

\* addTask(): push at the tail, then pump.
FifoAddTask(t) == Accept(t, Append(queue, t))

\* The order of two queue positions after the subscribers of context c were
\* notified in subscription order: each moves its task to the front, so c's
\* tasks come first and in reverse; the others keep their order.
MovedBefore(c, i, j) ==
    LET mine(k) == CtxOf[queue[k]] = c
    IN  \/ mine(i) /\ (mine(j) => i > j)
        \/ ~mine(i) /\ ~mine(j) /\ i < j

\* The signal of c fires: moveToFront for each queued task of c.
FifoAbort(c) ==
    \E p \in Bijection(1..Len(queue), 1..Len(queue)) :
        /\ \A i, j \in 1..Len(queue) : i < j => MovedBefore(c, p[i], p[j])
        /\ Fire(c, [i \in 1..Len(queue) |-> queue[p[i]]])

(***************************************************************************)
(* PriorityTaskPool                                                        *)
(***************************************************************************)

\* The heap's comparison when the contexts in A have been aborted: minus
\* infinity first, then the priority, then the submission sequence.
PopsBefore(A, t, u) ==
    LET first(x) == CtxOf[x] \in A
    IN  \/ first(t) /\ ~first(u)
        \/ first(t) = first(u) /\ ~first(t) /\ Prio[t] < Prio[u]
        \/ /\ first(t) = first(u)
           /\ first(t) \/ Prio[t] = Prio[u]
           /\ AcceptedBefore(t, u)

\* insert(): behind every queued task that is not of a larger priority.
InsertPosition(t) ==
    1 + Cardinality({i \in 1..Len(queue) :
            CtxOf[queue[i]] \in aborted \/ Prio[queue[i]] <= Prio[t]})

Inserted(t) ==
    LET k == InsertPosition(t) IN
    SubSeq(queue, 1, k - 1) \o <<t>> \o SubSeq(queue, k, Len(queue))

\* addTask(): push on the heap, then pump.
PriorityAddTask(t) == Accept(t, Inserted(t))

\* The signal of c fires: every queued task of c gets priority minus
\* infinity and the heap is fixed.  Tasks of contexts aborted earlier keep
\* that priority, so all of them pop in submission order.
PriorityAbort(c) ==
    \E p \in Bijection(1..Len(queue), 1..Len(queue)) :
        /\ \A i, j \in 1..Len(queue) :
              i < j => PopsBefore(aborted \cup {c}, queue[p[i]], queue[p[j]])
        /\ Fire(c, [i \in 1..Len(queue) |-> queue[p[i]]])

(***************************************************************************)
(* A pool of either class                                                  *)
(***************************************************************************)

PoolInit == CoreInit /\ discipline \in {"fifo", "priority"}

FifoNext ==
    \/ CoreNext
    \/ \E t \in Tasks : FifoAddTask(t)
    \/ \E c \in Contexts : FifoAbort(c)

PriorityNext ==
    \/ CoreNext
    \/ \E t \in Tasks : PriorityAddTask(t)
    \/ \E c \in Contexts : PriorityAbort(c)

PoolNext ==
    /\ IF discipline = "fifo" THEN FifoNext ELSE PriorityNext
    /\ UNCHANGED discipline

PoolSpec == PoolInit /\ [][PoolNext]_poolVars /\ CoreFairness

(***************************************************************************)
(* Properties                                                              *)
(***************************************************************************)

TypeOK ==
    /\ state \in States
    /\ queue \in Seq(Tasks)
    /\ ready \in Seq(Tasks)
    /\ executing \in SUBSET Tasks
    /\ finished \in SUBSET Tasks
    /\ active \in Nat
    /\ executorsCount \in Nat \ {0}
    /\ expired \in SUBSET Contexts
    /\ aborted \in SUBSET Contexts
    /\ accepted \in Seq(Tasks)
    /\ rejected \in SUBSET Tasks
    /\ stops \in [Stoppers -> {"idle", "waiting", "drained", "failed"}]

\* Every task that addTask took is in exactly one place: queued once, or
\* about to run once, or executing, or settled; and #active counts exactly
\* the admitted ones.  So no interleaving of submission, cancellation,
\* resize and stop loses a callback or runs it twice.
TasksAccounted ==
    /\ IsInjective(queue) /\ IsInjective(ready) /\ IsInjective(accepted)
    /\ Range(queue) \cap Admitted = {}
    /\ Range(ready) \cap executing = {}
    /\ finished \cap (Range(queue) \cup Admitted) = {}
    /\ rejected \cap Range(accepted) = {}
    /\ Range(accepted) = Range(queue) \cup Admitted \cup finished
    /\ active = Len(ready) + Cardinality(executing)

\* The drain promise is resolved, and stop() returns normally, only when
\* every callback accepted before the stop has settled.
DrainedMeansDone ==
    (state = "stopped" \/ \E s \in Stoppers : stops[s] = "drained")
        => Range(accepted) = finished

\* No lost wake-up in pump(): while the pool runs or drains, a task waits in
\* the queue only when every executor is taken, and a draining pool that
\* has nothing left is never stuck short of "stopped".
NoIdleExecutor ==
    /\ (state \in {"running", "stopping"} /\ queue # <<>>) => active >= executorsCount
    /\ state = "stopping" => active > 0

\* executorsCount bounds admission: a step that admits work ends with at
\* most executorsCount admitted callbacks, also after a resize.
AdmissionWithinLimit ==
    [][Admitted' \ Admitted # {} => active' <= executorsCount']_vars

\* Once started or stopped, the pool settles everything it accepted: a
\* cancelled task, a resize or a timed-out stop() never strands it.
AcceptedWorkSettles ==
    \A t \in Tasks :
        (t \in Range(accepted) /\ state # "created") ~> t \in finished

\* A stop() call always ends, and a stop by any caller ends in "stopped".
StopCompletes ==
    /\ state = "stopping" ~> state = "stopped"
    /\ \A s \in Stoppers : stops[s] = "waiting" ~> stops[s] \in {"drained", "failed"}

\* "Canonical unbounded FIFO task pool": the queue is the promoted tasks of
\* aborted contexts followed by the other tasks in the order in which they
\* were accepted.
FifoBehindPromoted ==
    \A i, j \in 1..Len(queue) : i < j =>
        \/ CtxOf[queue[i]] \in aborted
        \/ CtxOf[queue[j]] \notin aborted /\ AcceptedBefore(queue[i], queue[j])

\* A callback starts ahead of an earlier accepted one that is still queued
\* only when its own context was aborted while it waited.
OvertakesOnlyWhenAborted ==
    \A t \in Admitted' \ Admitted, u \in Range(queue') :
        AcceptedBefore(u, t)' => CtxOf[t] \in aborted

\* "Minimum-priority-first task pool with FIFO ordering for equal
\* priorities": whatever the order of submissions and cancellations, no
\* task is admitted while one that pops before it stays queued.
MinimumPriorityFirst ==
    \A t \in Admitted' \ Admitted, u \in Range(queue') :
        PopsBefore(aborted, t, u)'

\* Every step keeps the order of its discipline.  FIFO: a callback overtakes
\* an earlier accepted one only when its own context was aborted, and the
\* queue is the promoted tasks followed by the others as they were accepted.
\* Priority: no task is admitted while one that pops before it stays queued.
AdmissionInOrder ==
    [][/\ discipline = "fifo" => OvertakesOnlyWhenAborted /\ FifoBehindPromoted'
       /\ discipline = "priority" => MinimumPriorityFirst]_vars

(***************************************************************************)
(* What the pool promises to its callers.                                  *)
(***************************************************************************)

Promise == INSTANCE DrainPool WITH
    open <- state \in {"created", "running"},
    accepted <- Range(accepted),
    started <- Admitted \cup finished,
    limit <- executorsCount,
    drained <- state = "stopped"

\* Every step of the pool is a step of DrainPool or leaves it unchanged.
ImplementsDrainPool == Promise!Spec
=============================================================================
