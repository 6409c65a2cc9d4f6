----------------------------- MODULE MCWorkflow -----------------------------
(***************************************************************************)
(* The workflow runtime: the task pool of a workflow, and the end of a     *)
(* workflow execution whose pools and task registry hand work to each      *)
(* other.  A behaviour is one of a single scene; the other stays in its    *)
(* initial state.  The proofs rest on the invariant of the task pools.     *)
(***************************************************************************)
EXTENDS WorkflowPool, PoolTheorems, TLC

CONSTANTS Units, Parent, Home, PoolOrder, ExecutorsCount, Registry, Activation, Callers,
          HasResult

VARIABLES
    scene,   \* the component whose behaviour this is
    \* WorkflowEnvironment
    unit, pool, accepting, failure, result, main, awaiting, next, outcome

\* The values of the constants for TLC.  Units: a SubStream call from the first
\* pool into the second, and a chain of work that goes back and forth between
\* the task registry and the pools.
UnitParent ==
    "u1" :> Activation @@ "u2" :> "u1"
    @@ "u3" :> Activation @@ "u4" :> "u3" @@ "u5" :> "u4" @@ "u6" :> "u5"
UnitHome ==
    "u1" :> "poolA" @@ "u2" :> "poolB"
    @@ "u3" :> Registry @@ "u4" :> "poolA" @@ "u5" :> Registry @@ "u6" :> "poolB"
TwoPools == <<"poolA", "poolB">>
OneAndTwo == "poolA" :> 1 @@ "poolB" :> 2

OneContext == [t \in Tasks |-> CHOOSE c \in Contexts : TRUE]
TaskPriority == "t1" :> 2 @@ "t2" :> 1 @@ "t3" :> 1

Execution == INSTANCE WorkflowEnvironment WITH Tasks <- Registry

executionVars == <<unit, pool, accepting, failure, result, main, awaiting,
                   next, outcome>>
sceneVars == <<scene, allVars, executionVars>>

SceneInit ==
    /\ scene \in {"pool", "execution"}
    /\ Init
    /\ Execution!Init
    /\ scene # "pool" => discipline = "fifo"

SceneNext ==
    \/ scene = "pool" /\ Next /\ UNCHANGED <<scene, executionVars>>
    \/ scene = "execution" /\ Execution!Next /\ UNCHANGED <<scene, allVars>>

SceneSpec ==
    /\ SceneInit /\ [][SceneNext]_sceneVars
    /\ \/ scene = "pool" /\ Fairness
       \/ scene = "execution" /\ Execution!Fairness

ASSUME ExecutionAssumption == Execution!EnvironmentAssumption

\* Completion is real: waitIdle() returns only after everything accepted when
\* it was called has settled, an execution that ended has nothing running, and
\* one that reports success has lost no work of its graph.
CompletionIsReal ==
    /\ IdleMeansDone
    /\ Execution!FinishedMeansQuiet /\ Execution!SuccessMeansComplete

\* Waiting ends: in a started workflow pool every waitIdle() returns, although
\* new work may replace the promise that it awaits; and an execution that has a
\* result or a failure ends, although units wait for each other.
WorkflowEnds == WaitIdleEnds /\ Execution!ExecutionEnds

(***************************************************************************)
(* Proofs: the pool of a workflow                                          *)
(***************************************************************************)

AtRest == active = 0 /\ queue = <<>>

\* The current #idle promise is resolved exactly when the pool is at rest, and
\* whoever awaits a resolved one has seen its work settle.
IdleInv ==
    /\ idle \in Nat /\ resolved \subseteq 0..idle
    /\ idle \in resolved <=> AtRest
    /\ DOMAIN waits = Waiters /\ DOMAIN seen = Waiters
    /\ \A w \in Waiters :
        /\ seen[w] \subseteq Range(accepted)
        /\ waits[w] \in resolved \cup {Returned} => seen[w] \subseteq finished

\* A pool at rest has settled everything, and one that has is at rest.
LEMMA RestIsDone ==
    ASSUME PoolInv
    PROVE  AtRest <=> Range(accepted) = finished
<1>1. Admitted = {} <=> active = 0
  <2>1. IsFiniteSet(Admitted)
    <3>1. Admitted \subseteq Tasks
      BY InvFacts DEF Admitted, Range
    <3> QED  BY <3>1, PoolAssumption, FS_Subset
  <2> QED  BY <2>1, ActiveCounts, FS_EmptySet
<1>2. queue = <<>> <=> Range(queue) = {}
  <2>1. queue \in Seq(Tasks)
    BY InvFacts
  <2>2. DOMAIN queue = 1..Len(queue) /\ Len(queue) \in Nat /\ (queue = <<>> <=> Len(queue) = 0)
    BY <2>1
  <2>3. Len(queue) # 0 => queue[1] \in Range(queue)
    BY <2>2 DEF Range
  <2>4. Len(queue) = 0 => Range(queue) = {}
    BY <2>2 DEF Range
  <2> QED  BY Zenon, <2>2, <2>3, <2>4
<1>3. /\ Range(accepted) = Range(queue) \cup Admitted \cup finished
      /\ finished \cap (Range(queue) \cup Admitted) = {}
  BY DEF PoolInv, TasksAccounted
<1> QED  BY Zenon, <1>1, <1>2, <1>3 DEF AtRest

\* Every step of the workflow pool is one of the task pools or of waitIdle().
LEMMA WorkflowIsPool == Next => [PoolNext]_poolVars
<1> SUFFICES ASSUME Next PROVE [PoolNext]_poolVars
  OBVIOUS
<1>1. ASSUME NEW t \in Tasks, AddTask(t) PROVE PoolNext
  BY Zenon, <1>1 DEF AddTask, PoolNext, FifoNext, PriorityNext
<1>2. ASSUME Pumped PROVE PoolNext
  BY Zenon, <1>2 DEF Pumped, PoolNext, FifoNext, PriorityNext, CoreNext
<1>3. ASSUME Unpumped PROVE PoolNext
  BY Zenon, <1>3 DEF Unpumped, PoolNext, FifoNext, PriorityNext, CoreNext
<1>4. ASSUME NEW w \in Waiters, WaitIdle(w) \/ WaitIdleReturns(w) PROVE UNCHANGED poolVars
  BY Zenon, <1>4 DEF WaitIdle, WaitIdleReturns
<1> QED  BY Zenon, <1>1, <1>2, <1>3, <1>4 DEF Next

\* addTask() leaves a pool that is not at rest, and one more #idle promise if it
\* was.
LEMMA AddTaskIdle ==
    ASSUME PoolInv, PoolInv', IdleInv, NEW t \in Tasks, AddTask(t)
    PROVE  IdleInv'
<1>1. /\ accepted' = Append(accepted, t) /\ finished' = finished
      /\ t \notin Range(accepted)
  BY Zenon DEF AddTask, FifoAddTask, PriorityAddTask, Accept
<1>2. Range(accepted') = Range(accepted) \cup {t}
  BY <1>1, InvFacts, AppendOnce
<1>3. t \notin finished
  BY <1>1, InvFacts
<1>4. ~AtRest'
  <2>1. (PoolInv => (AtRest <=> Range(accepted) = finished))'
    BY RestIsDone, PTL
  <2> QED  BY <1>1, <1>2, <1>3, <2>1
<1>5. /\ idle' = IF AtRest THEN idle + 1 ELSE idle
      /\ UNCHANGED <<resolved, waits, seen>>
  BY DEF AddTask, renewIdle, AtRest
<1>6. idle' \in Nat /\ resolved' \subseteq 0..idle'
  BY <1>5 DEF IdleInv
<1>7. idle' \notin resolved'
  BY <1>5 DEF IdleInv
<1> QED  BY <1>1, <1>2, <1>4, <1>5, <1>6, <1>7 DEF IdleInv

\* A pool that comes to rest resolves its #idle promise, and stays at rest.
LEMMA PumpedIdle ==
    ASSUME PoolInv, PoolInv', IdleInv, Pumped
    PROVE  IdleInv'
<1>1. accepted' = accepted /\ finished \subseteq finished'
  BY Zenon DEF Pumped, Start, Finish, FifoAbort, PriorityAbort, Fire, Stop
<1>2. /\ UNCHANGED <<idle, waits, seen>>
      /\ resolved' = IF AtRest' THEN resolved \cup {idle} ELSE resolved
  BY DEF Pumped, resolveIdle, AtRest
<1>3. AtRest' <=> Range(accepted) = finished'
  <2>1. (PoolInv => (AtRest <=> Range(accepted) = finished))'
    BY RestIsDone, PTL
  <2> QED  BY <1>1, <2>1
<1>4. finished' \subseteq Range(accepted)
  BY <1>1 DEF PoolInv, TasksAccounted
<1>5. AtRest => AtRest'
  BY <1>1, <1>3, <1>4, RestIsDone
<1>6. idle' \in Nat /\ resolved' \subseteq 0..idle' /\ (idle' \in resolved' <=> AtRest')
  BY <1>2, <1>5 DEF IdleInv
<1>7. ASSUME NEW w \in Waiters
      PROVE  /\ seen'[w] \subseteq Range(accepted')
             /\ waits'[w] \in resolved' \cup {Returned} => seen'[w] \subseteq finished'
  BY <1>1, <1>2, <1>3 DEF IdleInv
<1> QED  BY <1>2, <1>6, <1>7 DEF IdleInv

\* A step that does not pump leaves the work where it is.
LEMMA UnpumpedIdle ==
    ASSUME IdleInv, Unpumped \/ UNCHANGED allVars
    PROVE  IdleInv'
<1>1. UNCHANGED <<active, queue, accepted, finished, idle, resolved, waits, seen>>
  BY Zenon DEF Unpumped, Run, Reject, Expire, StopReturns, taskVars, idleVars,
     allVars, poolVars, vars
<1> QED  BY <1>1 DEF IdleInv, AtRest

\* waitIdle() awaits the current promise, and returns when it is resolved.
LEMMA WaitIdleKeeps ==
    ASSUME PoolInv, IdleInv, NEW w \in Waiters, WaitIdle(w) \/ WaitIdleReturns(w)
    PROVE  IdleInv'
<1>1. UNCHANGED <<active, queue, accepted, finished, idle, resolved>>
  BY Zenon DEF WaitIdle, WaitIdleReturns, poolVars, vars, taskVars
<1>2. CASE WaitIdle(w)
  <2>1. waits' = [waits EXCEPT ![w] = idle] /\ seen' = [seen EXCEPT ![w] = Range(accepted)]
    BY <1>2 DEF WaitIdle
  <2>2. idle \in resolved => Range(accepted) \subseteq finished
    BY RestIsDone DEF IdleInv
  <2>3. idle # Returned
    BY DEF IdleInv, Returned
  <2> QED  BY <1>1, <2>1, <2>2, <2>3 DEF IdleInv, AtRest
<1>3. CASE WaitIdleReturns(w)
  <2>1. waits[w] \in resolved /\ waits' = [waits EXCEPT ![w] = Returned] /\ seen' = seen
    BY <1>3 DEF WaitIdleReturns
  <2> QED  BY <1>1, <2>1 DEF IdleInv, AtRest
<1> QED  BY <1>2, <1>3
(***************************************************************************)
(* Proofs: the end of an execution                                         *)
(***************************************************************************)

\* Work that failed or was turned away is a failure of the graph; a stopped pool
\* is idle; finish() closes the registry before it stops the pools in turn; and
\* when it is over nothing is left to run.
ExecutionInv ==
    /\ unit \in [Units -> Execution!Live \cup {"new", "refused", "done", "failed"}]
    /\ pool \in [Execution!Pools -> {"running", "stopping", "stopped"}]
    /\ next \in Nat
    /\ \A u \in Units : unit[u] \in {"failed", "refused"} => failure
    /\ \A p \in Execution!Pools : pool[p] = "stopped" => Execution!Idle(p)
    /\ \A i \in 1..Len(PoolOrder) : i < next => pool[PoolOrder[i]] = "stopped"
    /\ main \in {"stopping", "done"} => ~accepting
    /\ main = "done" => Execution!Quiet /\ (outcome = "ok" => ~failure)

\* The part of the invariant about the units, when one of them changes.
LEMMA UnitMoves ==
    ASSUME ExecutionInv, NEW u \in Units,
           NEW s \in Execution!Live \cup {"new", "refused", "done", "failed"},
           unit' = [unit EXCEPT ![u] = s],
           s \in {"failed", "refused"} \/ failure => failure',
           s \in Execution!Live => Home[u] \notin Execution!Pools \/ pool[Home[u]] # "stopped",
           UNCHANGED <<pool, accepting, next, main, outcome>>, main # "done"
    PROVE  ExecutionInv'
<1>1. unit' \in [Units -> Execution!Live \cup {"new", "refused", "done", "failed"}]
  BY DEF ExecutionInv
<1>2. \A v \in Units : unit'[v] = IF v = u THEN s ELSE unit[v]
  BY DEF ExecutionInv
<1>3. \A v \in Units : unit'[v] \in {"failed", "refused"} => failure'
  BY <1>2 DEF ExecutionInv
<1>4. ASSUME NEW p \in Execution!Pools, pool[p] = "stopped", NEW v \in Units, Home[v] = p
      PROVE  unit'[v] \notin Execution!Live
  BY Zenon, <1>2, <1>4 DEF ExecutionInv, Execution!Idle, Execution!At
<1>5. \A p \in Execution!Pools : pool'[p] = "stopped" => Execution!Idle(p)'
  BY Zenon, <1>4 DEF Execution!Idle, Execution!At
<1> QED  BY <1>1, <1>3, <1>5 DEF ExecutionInv

\* A unit that runs, or could be submitted, shows that the execution goes on and
\* that its pool has not stopped.
LEMMA RunningShows ==
    ASSUME ExecutionInv
    PROVE  /\ \A u \in Units : Execution!Running(Parent[u]) => main # "done"
           /\ \A u \in Units : unit[u] \in Execution!Live =>
                /\ main # "done"
                /\ Home[u] \notin Execution!Pools \/ pool[Home[u]] # "stopped"
<1>1. ASSUME NEW u \in Units, unit[u] \in Execution!Live
      PROVE  main # "done" /\ (Home[u] \notin Execution!Pools \/ pool[Home[u]] # "stopped")
  BY Zenon, <1>1 DEF ExecutionInv, Execution!Idle, Execution!At, Execution!Quiet
<1>2. ASSUME NEW u \in Units, Execution!Running(Parent[u]) PROVE main # "done"
  <2>1. Parent[u] \in Units \cup {Activation}
    BY ExecutionAssumption DEF Execution!EnvironmentAssumption
  <2>2. CASE Parent[u] = Activation
    BY <1>2, <2>2 DEF Execution!Running
  <2>3. CASE Parent[u] # Activation
    BY <1>1, <1>2, <2>1, <2>3 DEF Execution!Running, Execution!Live
  <2> QED  BY <2>2, <2>3
<1> QED  BY Zenon, <1>1, <1>2

\* Submitting, refusing, running, calling and ending a unit.
LEMMA UnitsKeep ==
    ASSUME ExecutionInv, NEW u \in Units,
           \/ Execution!Submit(u) \/ Execution!Refuse(u) \/ Execution!Run(u)
           \/ Execution!Call(u) \/ \E failed \in BOOLEAN : Execution!Finish(u, failed)
    PROVE  ExecutionInv'
<1> DEFINE Kinds == Execution!Live \cup {"new", "refused", "done", "failed"}
<1>0. Home[u] \in Execution!Pools \cup {Registry} /\ Registry \notin Execution!Pools
  BY ExecutionAssumption DEF Execution!EnvironmentAssumption
<1>1. CASE Execution!Submit(u)
  <2>1. main # "done"
    BY <1>1, RunningShows DEF Execution!Submit
  <2>2. CASE Home[u] = Registry
    <3>1. unit' = [unit EXCEPT ![u] = "running"] /\ "running" \in Kinds
      BY <1>1, <2>2 DEF Execution!Submit, Execution!Live
    <3> QED  BY Zenon, <1>0, <1>1, <2>1, <2>2, <3>1, UnitMoves DEF Execution!Submit
  <2>3. CASE Home[u] # Registry
    <3>1. unit' = [unit EXCEPT ![u] = "queued"] /\ "queued" \in Kinds /\ pool[Home[u]] # "stopped"
      BY <1>1, <2>3 DEF Execution!Submit, Execution!Live
    <3> QED  BY Zenon, <1>1, <2>1, <3>1, UnitMoves DEF Execution!Submit
  <2> QED  BY <2>2, <2>3
<1>2. CASE Execution!Refuse(u)
  <2>1. main # "done"
    BY <1>2, RunningShows DEF Execution!Refuse
  <2>2. "refused" \in Kinds /\ "refused" \notin Execution!Live
    BY DEF Execution!Live
  <2> QED  BY Zenon, <1>2, <2>1, <2>2, UnitMoves DEF Execution!Refuse
<1>3. CASE Execution!Run(u) \/ Execution!Call(u)
  <2>1. unit[u] \in Execution!Live /\ {"running", "calling"} \subseteq Kinds
    BY <1>3 DEF Execution!Run, Execution!Call, Execution!Live
  <2>2. main # "done" /\ (Home[u] \notin Execution!Pools \/ pool[Home[u]] # "stopped")
    BY <2>1, RunningShows
  <2>3. \E s \in Kinds : unit' = [unit EXCEPT ![u] = s] /\ s \notin {"failed", "refused"}
    BY <1>3, <2>1 DEF Execution!Run, Execution!Call
  <2>4. UNCHANGED <<pool, accepting, failure, next, main, outcome>>
    BY <1>3 DEF Execution!Run, Execution!Call
  <2> HIDE DEF Kinds
  <2> QED  BY Zenon, <2>2, <2>3, <2>4, UnitMoves DEF Kinds
<1>4. CASE \E failed \in BOOLEAN : Execution!Finish(u, failed)
  <2>1. unit[u] \in Execution!Live
    BY <1>4 DEF Execution!Finish, Execution!Live
  <2>2. main # "done"
    BY <2>1, RunningShows
  <2>3. PICK failed \in BOOLEAN : Execution!Finish(u, failed)
    BY <1>4
  <2>4. \E s \in {"failed", "done"} :
            unit' = [unit EXCEPT ![u] = s] /\ (s = "failed" => failed)
    BY Zenon, <2>3 DEF Execution!Finish
  <2>5. failure' = (failure \/ failed) /\ UNCHANGED <<pool, accepting, next, main, outcome>>
    BY <2>3 DEF Execution!Finish
  <2>6. {"failed", "done"} \subseteq Kinds /\ {"failed", "done"} \cap Execution!Live = {}
    BY DEF Execution!Live
  <2> QED  BY Zenon, <2>2, <2>4, <2>5, <2>6, UnitMoves
<1> QED  BY Zenon, <1>1, <1>2, <1>3, <1>4

\* The pools are those that finish() stops, each at its turn.
LEMMA PoolsInTurn ==
    /\ Len(PoolOrder) \in Nat
    /\ \A i \in 1..Len(PoolOrder) : PoolOrder[i] \in Execution!Pools
    /\ \A p \in Execution!Pools : \E i \in 1..Len(PoolOrder) : p = PoolOrder[i]
<1>1. PoolOrder \in Seq(Execution!Pools)
  BY Zenon, ExecutionAssumption DEF Execution!EnvironmentAssumption
<1>2. Len(PoolOrder) \in Nat /\ DOMAIN PoolOrder = 1..Len(PoolOrder)
  BY <1>1
<1>3. Execution!Pools = {PoolOrder[i] : i \in DOMAIN PoolOrder}
  BY Zenon DEF Execution!Pools, Execution!Range, Range
<1> QED  BY <1>2, <1>3

\* The execution waits, re-checks, closes the registry and stops the pools.
LEMMA MainKeeps ==
    ASSUME ExecutionInv,
           \/ Execution!Activated \/ Execution!Raced \/ Execution!Wait
           \/ Execution!TasksDrained \/ Execution!Recheck \/ Execution!Seal
           \/ Execution!StopPool \/ Execution!PoolStopped \/ Execution!Close
    PROVE  ExecutionInv'
<1>1. CASE \/ Execution!Activated \/ Execution!Raced \/ Execution!Wait
           \/ Execution!TasksDrained \/ Execution!Recheck
  <2>1. UNCHANGED <<unit, pool, accepting, failure, next>>
    BY Zenon, <1>1 DEF Execution!Activated, Execution!Raced, Execution!Wait,
       Execution!TasksDrained, Execution!Recheck
  <2>2. main' \notin {"stopping", "done"} \/ (main' = main /\ outcome' = outcome)
    BY Zenon, <1>1 DEF Execution!Activated, Execution!Raced, Execution!Wait,
       Execution!TasksDrained, Execution!Recheck
  <2> QED  BY <2>1, <2>2 DEF ExecutionInv, Execution!Idle, Execution!Quiet
<1>2. CASE Execution!Seal
  BY <1>2 DEF Execution!Seal, ExecutionInv, Execution!Idle
<1>3. CASE Execution!StopPool
  <2>1. /\ pool' = [pool EXCEPT ![PoolOrder[next]] = "stopping"]
        /\ pool[PoolOrder[next]] = "running" /\ main = "stopping"
        /\ UNCHANGED <<unit, accepting, failure, main, next>>
    BY <1>3 DEF Execution!StopPool
  <2>2. \A p \in Execution!Pools : pool'[p] = "stopped" <=> pool[p] = "stopped"
    BY <2>1 DEF ExecutionInv
  <2>3. \A i \in 1..Len(PoolOrder) : PoolOrder[i] \in Execution!Pools
    BY PoolsInTurn
  <2>4. pool' \in [Execution!Pools -> {"running", "stopping", "stopped"}]
    BY Zenon, <2>1 DEF ExecutionInv
  <2> QED  BY <2>1, <2>2, <2>3, <2>4 DEF ExecutionInv, Execution!Idle
<1>4. CASE Execution!PoolStopped
  <2>1. /\ pool' = [pool EXCEPT ![PoolOrder[next]] = "stopped"]
        /\ Execution!Idle(PoolOrder[next]) /\ main = "stopping" /\ next' = next + 1
        /\ UNCHANGED <<unit, accepting, failure, main>>
    BY <1>4 DEF Execution!PoolStopped
  <2>2. \A p \in Execution!Pools :
            pool'[p] = IF p = PoolOrder[next] THEN "stopped" ELSE pool[p]
    BY <2>1 DEF ExecutionInv
  <2>3. \A i \in 1..Len(PoolOrder) : PoolOrder[i] \in Execution!Pools
    BY PoolsInTurn
  <2>4. /\ pool' \in [Execution!Pools -> {"running", "stopping", "stopped"}]
        /\ next' \in Nat
    <3>1. pool' \in [Execution!Pools -> {"running", "stopping", "stopped"}]
      BY Zenon, <2>1 DEF ExecutionInv
    <3>2. next' \in Nat
      BY <2>1 DEF ExecutionInv
    <3> QED  BY <3>1, <3>2
  <2>5. \A p \in Execution!Pools : pool'[p] = "stopped" => Execution!Idle(p)'
    BY <2>1, <2>2 DEF ExecutionInv, Execution!Idle
  <2>6. \A i \in 1..Len(PoolOrder) : i < next' => pool'[PoolOrder[i]] = "stopped"
    <3> SUFFICES ASSUME NEW i \in 1..Len(PoolOrder), i < next'
                 PROVE  pool'[PoolOrder[i]] = "stopped"
      OBVIOUS
    <3>1. i < next \/ i = next
      BY <2>1 DEF ExecutionInv
    <3> QED  BY <2>2, <2>3, <3>1 DEF ExecutionInv
  <2> QED  BY <2>1, <2>4, <2>5, <2>6 DEF ExecutionInv
<1>5. CASE Execution!Close
  <2>1. /\ main = "stopping" /\ main' = "done" /\ next > Len(PoolOrder)
        /\ Execution!Idle(Registry) /\ outcome' = IF failure THEN "failed" ELSE outcome
        /\ UNCHANGED <<unit, pool, accepting, failure, next>>
    BY <1>5 DEF Execution!Close, Execution!Outcome
  <2>2. ASSUME NEW p \in Execution!Pools PROVE Execution!Idle(p)
    <3>1. PICK i \in 1..Len(PoolOrder) : p = PoolOrder[i]
      BY PoolsInTurn
    <3>2. i < next
      BY <2>1, PoolsInTurn DEF ExecutionInv
    <3> QED  BY Zenon, <3>1, <3>2 DEF ExecutionInv
  <2>3. ASSUME NEW u \in Units PROVE unit[u] \notin Execution!Live
    <3>1. Home[u] \in Execution!Pools \cup {Registry}
      BY ExecutionAssumption DEF Execution!EnvironmentAssumption
    <3> QED  BY Zenon, <2>1, <2>2, <3>1 DEF Execution!Idle, Execution!At
  <2>4. Execution!Quiet' /\ (outcome' = "ok" => ~failure')
    BY <2>1, <2>3 DEF Execution!Quiet
  <2> QED  BY <2>1, <2>4 DEF ExecutionInv, Execution!Idle
<1> QED  BY Zenon, <1>1, <1>2, <1>3, <1>4, <1>5

\* The invariants of both scenes.
WorkflowInv == PoolInv /\ IdleInv /\ ExecutionInv

\* Both start in it, ...
LEMMA WorkflowStarts == SceneInit => WorkflowInv
<1> SUFFICES ASSUME SceneInit PROVE WorkflowInv
  OBVIOUS
<1>1. PoolInv
  BY InitEstablishes DEF SceneInit, Init, PoolInit
<1>2. IdleInv
  BY DEF SceneInit, Init, PoolInit, CoreInit, IdleInv, AtRest, NotCalled, Returned
<1>3. ExecutionInv
  BY DEF SceneInit, Execution!Init, ExecutionInv, Execution!Live
<1> QED  BY <1>1, <1>2, <1>3 DEF WorkflowInv

\* ... and every step keeps it.
LEMMA WorkflowKeeps ==
    ASSUME WorkflowInv, [SceneNext]_sceneVars
    PROVE  WorkflowInv'
<1>0. PoolInv /\ IdleInv /\ ExecutionInv
  BY DEF WorkflowInv
<1>1. ASSUME UNCHANGED executionVars PROVE ExecutionInv'
  BY <1>0, <1>1 DEF executionVars, ExecutionInv, Execution!Idle, Execution!Quiet
<1>2. ASSUME UNCHANGED allVars PROVE PoolInv' /\ IdleInv'
  <2>1. PoolInv'
    BY Zenon, <1>0, <1>2, StutterPreserves DEF allVars, poolVars
  <2> QED  BY Zenon, <1>0, <1>2, <2>1, UnpumpedIdle
<1>3. ASSUME Next PROVE PoolInv' /\ IdleInv'
  <2>1. PoolInv'
    BY Zenon, <1>0, <1>3, WorkflowIsPool, PoolsStep
  <2> QED
    BY Zenon, <1>0, <1>3, <2>1, AddTaskIdle, PumpedIdle, UnpumpedIdle, WaitIdleKeeps DEF Next
<1>4. ASSUME Execution!Next PROVE ExecutionInv'
  BY Zenon, <1>0, <1>4, UnitsKeep, MainKeeps DEF Execution!Next
<1> QED
  BY Zenon, <1>1, <1>2, <1>3, <1>4 DEF WorkflowInv, SceneNext, sceneVars

\* A workflow completes for real: waitIdle() of its pools (workflow-pool.ts:
\* waitIdle, addTask, finishDrainIfIdle) returns when what it saw has settled,
\* and executeTemporalWorkflowEndpoint() ends with nothing running and, when it
\* reports success, with no work lost (workflow-environment.ts: finish).
THEOREM WorkflowCompletes == SceneSpec => []CompletionIsReal
<1>1. ASSUME WorkflowInv PROVE CompletionIsReal
  <2>1. IdleMeansDone
    BY <1>1 DEF WorkflowInv, IdleInv, IdleMeansDone
  <2>2. Execution!FinishedMeansQuiet
    BY <1>1 DEF WorkflowInv, ExecutionInv, Execution!FinishedMeansQuiet
  <2>3. Execution!SuccessMeansComplete
    BY <1>1 DEF WorkflowInv, ExecutionInv, Execution!SuccessMeansComplete, Execution!Quiet
  <2> QED  BY <2>1, <2>2, <2>3 DEF CompletionIsReal
<1> QED  BY <1>1, WorkflowStarts, WorkflowKeeps, PTL DEF SceneSpec
=============================================================================
