# Verification of tsservicelib

TLA+ models of the runtime of `tsservicelib`, the TLC configurations that check
them, and TLAPS proofs about the lifecycle of the service, its pools, sources, servers,
sinks, its task registry and its request map.
Every definition is translated from the TypeScript under `src/src/`;
`PROJECT.json` maps it to the lines it stands for (`map`), and lists the parts of
the system (`components`), the runs, the mutants, the hazards and the theorems.
Paths below are relative to `src/src/`.

    tlc -config MCPools.cfg MCPools      # one run (names in PROJECT.json)
    tlapm PoolTheorems.tla               # one proof module

## The system

A service is a graph of typed streams in one Node isolate. *Data sources* (Kafka,
HTTP, gRPC, cron, Temporal, or application code) turn what arrives into messages
and push them into the graph. *Operators* pass a message on through *callers*: a
plain function call, which the sender awaits, or a task pool or a parallel call,
which detach it. Operators that keep state (`join`, `multi-join`) use a *join
storage*; `SubStream` calls a part of the graph and collects its results. *Data
sinks* hand messages to the outside and may feed results back. `ServiceRuntime`
starts and stops all of it in an order: sources close admission and stop, pools and
the task registry drain, sinks stop, managed connectors and telemetry follow. The
same graph can run inside a Temporal workflow, over deterministic pools.

JavaScript runs one turn at a time, so **one action of a model is one synchronous
turn of the code**, the whole of it, and the interleavings are those of promises,
microtasks, timers, aborts and callbacks of native libraries. A context is
*cancelled* when its signal is aborted or its deadline has passed; the models do
these as actions of their own, at any moment.

## Modules

| Part of the code | Modules | State and actions |
|---|---|---|
| `runtime/pool/task-pool.ts`, `priority-task-pool.ts` | `TaskPools` (what both share, then the two disciplines) | `queue`, `ready` (admitted, microtask not yet run), `active`, `state`, `stops`; `addTask`, abort, resize, `stop`, deadline, run, finish. `pump()` is part of each action that calls it |
| the promise of every pool | `DrainPool` | abstract: accepted work is admitted within a limit, settles, and a drain resolves once all of it has |
| `runtime/pool/indexed-heap.ts` | `IndexedHeap` | the array and the position map; push, pop, remove, fix |
| `runtime/pool/delay-pool.ts` | `DelayPool` | a clock, the heap, the one timer, abort listeners |
| `runtime/task-registry.ts` | `TaskRegistry` | admission, nested admission, rounds of `drain()` |
| `runtime/service-runtime.ts` | `ServiceRuntime` | start, rollback, phases of stop, per-component stop promises, callers with contexts |
| `runtime/store/rotating-map.ts` | `RotatingMap`, `KeyedMap` (abstract) | two generations per shard |
| `runtime/store/hash-map-join-storage.ts` | `HashMapJoinStorage` | groups with promise chains, deadlines and abort listeners; the retry loop of `joinValue` |
| `operators/*`, `runtime/caller.ts` | `StreamGraph` | a frame per activation of an operator, detached work in a pool or parallel |
| `operators/substream.ts` | `SubStream` | one call, concurrent deliveries, collector callback |
| `datasource/localsource`, `datasource/kafka` (requests) | `SourceRequest`, `QueuedSource`, `CustomSource`, `KafkaSource` | the life of a request, the concurrency queue, revocation, stop |
| `datasource/kafka` (client side) | `KafkaConsumer`, `KafkaEndpoint` | assignments, polls, marks and commits; admin startup, supervisors, stop |
| `datasource/http` | `HttpSource` (on `SourceRequest`) | requests, disconnects, own or shared listener |
| `datasource/grpc` | `GrpcSource`, `GrpcHost` | calls of four modes; the listener that sources share |
| `datasource/cron` | `CronSource`, `IntervalTimer` | generations, overlap; the native interval timer |
| `datasource/temporal`, `datasink/temporal` | `TemporalConnector`, `TemporalEndpoint`, `WorkflowPool`, `WorkflowEnvironment` | SDK lifecycle; submissions, activity attempts and a crash; the pools and the end of a workflow execution |
| `datasink/kafka` | `KafkaSink` | deliveries, producer recovery, stop |
| `datasink/grpc` (streams) | `GrpcSinkSession` | sessions shared by the values of one stream id |
| `datasink/*` (requests) | `SinkRequest` | one request of every sink protocol |
| `runtime/config/loader.ts` | `ConfigLoader` | polls with their readings, against a writer |

Compositions: `QueuedSource` puts the slots and the queue around `SourceRequest`, and
`CustomSource` and `KafkaSource` put the lifecycle around that; `HttpSource` is
`SourceRequest` with connections; `WorkflowPool` changes the
idleness of `TaskPools`; `WorkflowEnvironment` joins two pools, the registry and the
activation; `ServiceRuntime` joins components and the registry; `StreamGraph` joins
operators, callers and a pool.

An operator that a comment calls a mutant and that stands directly before a
definition is a deliberately wrong variant of it, one for each checked property,
listed under `mutants`: with the variant in its place the run must fail, which
shows that the property can.

## What the runs check

Components that belong together share a run. Its MC module instantiates each of them
with variables of its own and a `scene` that no step changes: a behaviour is one of a single
component, the others stay in their initial state, so that the state space is the sum
of the parts. A property of a run is the conjunction of what its components promise
under one heading; comments in the MC module and in the components say what each
conjunct means.

| Run | Scenes and bounds | Properties |
|---|---|---|
| `pools` | FIFO and priority pool: three tasks on two contexts, limits 0 (the parallelism of the machine, 2) and 1, two `stop()` calls; a small delay pool | `TasksAccounted`, `NoIdleExecutor`, `AdmissionInOrder`, `ImplementsDrainPool`, `WorkSettles` |
| `timers` | delay pool (four tasks, timer cap 2 below a horizon of 4, early firing by 1), interval timer on a clock that may be set, cron source (three generations), heap (six items: three levels, so that a removal from one subtree must sift up in another), join storage (two messages of one key, three groups, TTLs of 0 and 1 tick, one context deadline) | `TimerCoversHead`, `LeastOnTop`, `FiresWhenDue`, `StoppedIsQuiet`, `ImplementsDrainPool`, `ValuesKept`, `GroupsCloseOnce`, `ExpiresWhenDue` |
| `service` | runtime with five components whose sink may fail to stop; a smaller one whose components fail only with their context; registry (three operations, two drains); loader (two files, four contents of which one does not parse and one is refused by a validator, three writes) | `StoppedMeansReleased`, `OrderlyRelease`, `LiveCallerSucceeds`, `SealedDrainIsFinal`, `PublishesStable` |
| `graph` | a split with a direct, a pooled and a parallel branch; two messages and one executor; a cycle of two laps through a pool; a SubStream call with four results | `NothingLost`, `SourceSeesOutcome`, `MessagesSettle`, `CallbacksWithinCall` |
| `queued_sources` | custom and Kafka source: three requests for one slot, and two requests of one stream ID with a slot each; the rotating map with three keys in one of its two shards | `SlotsServeQueue`, `PendingWhileWaiting`, `StoppedRequestsEnd`, `ImplementsKeyedMap` |
| `servers` | HTTP and gRPC: two requests of one stream ID, one result; three gRPC sources on one port, two of which bind the same method | `EndIsFinal`, `PeersUnharmed`, `StopReturns` |
| `brokers` | Kafka consumer as its endpoint runs it (three records in batches of two) and with checkpoints of the application (two records), through an assignment, its revocation and a second assignment; two Kafka endpoints with two clients each; Temporal connector; two Temporal submissions, one of a foreign workflow, two attempts, one crash | `CommittedIsAcknowledged`, `NothingSkipped`, `AssignmentsSeparate`, `ClientsReleased`, `AnswerIsReal` |
| `sinks` | gRPC sessions (two values, two sessions), two requests of each protocol, Kafka sink (two deliveries, three producers, so that a replacement can fail again) | `SessionEndsInOrder`, `RequestEndsClean`, `ProducersOwned`, `ValuesSettle` |
| `workflow` | workflow pool with a `waitIdle()` caller; an execution whose two pools, with one and with two executors, and registry hand six units of work to each other | `CompletionIsReal`, `WorkflowEnds` |

The bounds are the smallest with which the cases above occur: a second actor for each
race, a third request or group where one must be replaced or overtaken, one more than a
limit. Time is a small clock. The sources of `queued_sources` are started once
(`Starts = 1`); their restart is an action of the modules that these bounds do not
reach. In `brokers` the generation is bounded by 3 (`MaxGen`): revocations count too, so
that this is what a second assignment takes. In `brokers` the `endRequest()` of a Temporal handler does not throw (`EndThrows =
FALSE`): the gauges that drift when it does multiply the states past ten million.
In `pools` and `timers` the delay pool implements `DrainPool` with a limit that its tasks
cannot reach, since it has no executors: there the refinement speaks of the drain alone.
Symmetry is used only in runs without liveness, and only over sets whose members no
constant tells apart.

Most components state a type invariant `TypeOK`. The runs do not list it (it holds on
the same instances); for the two task pools it is a theorem.

### Disagreements found

Three runs expect a violation: the code does something else than a line of the
repository says. `findings` in `PROJECT.json` quotes the lines.

| Run | What happens |
|---|---|
| `join_storage_cancelled` | the join of an already aborted message with a deadline ahead never returns |
| `config_revert` | a file that changes and changes back during `load()` makes the readings around it agree, and what was there in between is published (`loader.ts:300`) |
| `kafka_consumer_stop` | stopped through its endpoint, the consumer leaves its poll loop before commits are dispatched, and `stop()` waits for a commit that never completes |

Reading the code for the models turned up further places where it and a sentence of the
repository part. No run states these; they follow from the lines named.

- `README.md:116` says join callbacks of one key are serialized. The promise chain
  belongs to the group (`hash-map-join-storage.ts:108`); a group that expires while its
  callback runs is replaced, and the callbacks of both run side by side.
- `README.md:117` says an explicit deadline controls expiry. A message already past its
  deadline has a time to live of 0, which the code reads as "no expiry", so that the
  group it creates has none (`hash-map-join-storage.ts:145`, `180`).
- A task can be admitted between the resolution of the registry's drain and the closing
  of admission (`service-runtime.ts:255-259`) and then runs while the sinks stop.
- `runtime/data-sink.ts:248-250` describes `messages_total` as the successfully processed
  messages. An `endRequest()` of an HTTP handler that throws rejects `consume()` after the
  request was counted as a success (`datasink/http/node-http.ts:534-543`).

What the passing runs claim is limited accordingly. `PublishesStable` excludes attempts
during which a file went back to an earlier content (the history `reverted` of
`ConfigLoader`); in all others what becomes current was in the files together, although
`load()` reads them one after the other. `RequestEndsClean` says that a request is counted
as an error exactly when one of its steps threw (the history `threw` of `SinkRequest`),
with the `endRequest()` of HTTP as the one exception.

### Fairness

Weak fairness stands for the event loop: a microtask that is queued runs, a timer that
is due fires, a settled promise resumes its awaiter. User callbacks and pipelines are
assumed to return and native clients to settle what they were asked, each where the
liveness property needs it and nowhere else: contexts are never forced to be cancelled,
results never forced to arrive, peers never forced to answer a call that is not
cancelled, deadlines never forced to pass except those of `HttpSource`, `DelayPool` and
`HashMapJoinStorage`. The latter two are timers the code arms. The first is the deadline of
the shutdown: `ServiceApp.stop()` leaves it optional, the generated executable applies one
(`README.md:55-56` of the repository), and without it the stop of an HTTP source waits for
as long as a response that never ends. In a run with scenes the fairness
of a component is gated by its scene (`WF_v(scene = "x" /\ A)`): in the behaviours of
that component this is the component's own fairness, in the others it says nothing.
`CHECK_DEADLOCK FALSE` is used where a finished service legitimately stops.

Liveness is checked in `pools`, `service`, `graph` (the cycle and the SubStream call),
`queued_sources` (the scenes with three requests), `servers`, `sinks` (sessions and
Kafka) and `workflow`. The runs `timers` and `brokers` check safety only.

## What is proved

The theorems about a run's property speak of the very specification that the run checks
(the `SceneSpec` of its MC module, or the specification of the component that its
scene runs), with its constants left open: the run
shows the property on one instance, the theorem for all of them. The assumptions are the
named ASSUMEs of the modules: `PoolAssumption`, `PrioAssumption`, `SinksAssumption`,
`ServersAssumption`, `QueuesAssumption`, `MapAssumption`, `ExecutionAssumption` and
`RuntimeAssumption`. They say that the constants have their types (priorities are
integers, each request has a stream ID, each unit of work a home), that tasks and queued
requests are finitely many, that the registry is no pool, that a service registers a component once (`register()` refuses a second one) and that every
managed connector has a `stopAdmission()` (`ManagedDataConnector` in
`runtime/data-connector.ts:12` extends `AdmissionLifecycle`).

**Pools** (`PoolProofs`, the steps that both pools share; `PoolTheorems`, the disciplines). For
every finite set of tasks, every set of contexts and `stop()` callers, every priority and
every executor count:

- `TypeCorrect`, `NothingLost` (`TasksAccounted`), `DrainIsComplete`
  (`DrainedMeansDone`), `NoLostWakeup` (`NoIdleExecutor`), `LimitRespected`
  (`AdmissionWithinLimit`);
- `Refinement`: each pool implements `DrainPool`;
- `AdmissionOrder` (`AdmissionInOrder`): what a step admits goes before what it leaves
  queued, in the order of the discipline.

The inductive invariant `PoolInv` adds to the type invariant, to `TasksAccounted` and to
`NoIdleExecutor` that a created pool has admitted nothing, that a stopped one is empty,
and that a `stop()` call that returned drained saw the stopped state. It is needed
because `pump()` does nothing in those states, so that a wake-up would be lost if work
could be there; and because a drain is resolved in one step and observed in a later one.
The order needs `OrderInv` as well: the whole queue is sorted, not only its head, because
one `pump()` may admit several tasks and an abort moves tasks from the middle.

The argument. `pump()` moves a prefix of the queue to the ready tasks. `MovePrefix`,
`AppendOnce` and `TakeHead` say what that, a submission and a microtask do to
duplicate-free sequences; `PumpKeeps` and `PumpPreserves` lift it to the invariant for
an *arbitrary* queue that holds the same tasks, so that promotions (FIFO) and
re-prioritisation (heap) need only show that they permute or extend the queue
(`PermutedQueue`, `PushedQueue`, `InsertedQueue`). `CorePreserves` goes through the
actions. For the refinement the tasks are counted: under the invariant the admitted ones
are exactly `active` many, so that admissions respect the abstract limit, and the drain
resolves exactly when the abstract one may. For the order, `PumpInOrder` shows that any
pumped sorted queue admits in order, and `PushInOrder`, `MoveInOrder` and `InsertInOrder`
that an append, an abort and an insertion leave a sorted queue; `InitialPositions` is why
the insertion point is a count: in a sorted queue the tasks that go before the new one
form a prefix.

**Queued sources** (`QueueProofs`). For any finite set of requests, any stream IDs, results
and concurrency: `SlotsAreServed` (`SlotsServeQueue`), `PendingAreFound`
(`PendingWhileWaiting`), and for the map in which they keep pending requests
`MapKeepsPromise` and `NoDuplicateEntry`, below. That a queued request never waits beside a free slot is not inductive: one
`leave()` wakes one waiter, which has yet to run. `SlotInv` counts instead, the limit is
at most the slots in use plus the *woken* requests, as long as nobody was cancelled;
`QueueInv` ties the queue to the stages of the requests, so that whoever is woken can be
counted. `PendingInv` ties the map of pending requests to the stages from both sides, as a
request that ends must remove its own entry and no other.

**Servers** (`ServerProofs`). For any requests, stream IDs, results and modes, any sources
and methods on a shared port: `RequestsEndFinally` (`EndIsFinal`) and `PeersStayUnharmed`
(`PeersUnharmed`). `HttpInv` and `GrpcInv` add that a request which retires takes no
further result, which is why none can start a callback after the last one was awaited;
that a gRPC stream ID and its holder lead to each other; and that a running handler is
tracked or cancelled. `HostInv` says that the host of the environment is the only one in
use, and that its sources and handlers are exactly those of the sources by their phases,
through every failed start.

**Sinks** (`SinkProofs`). For any values, sessions, requests, deliveries and producers:
`SessionsInOrder` (`SessionEndsInOrder`), `RequestsClean` (`RequestEndsClean`) and
`ProducersAreOwned` (`ProducersOwned`). `SessionInv` relates the phase of a session to the
values that still hold it and to the tasks that `stop()` awaits. `ProducerInv` gives every
connected producer an owner (the current one, the replacement, the one being retired);
"two while a recovery replaces it" follows only from that. It rests on the assumption
that a producer whose `connect()` was rejected holds no connection: `replaceProducer()`
drops such a replacement without disconnecting it (`datasink/kafka/confluent.ts:449`),
while `start()` does disconnect (`365-369`). `RequestInv` relates the histories of a
request to its stage: what has thrown so far, what will be counted, and whether
`consume()` will reject.

**Rotating map** (the end of `QueueProofs`). For all keys, values, shards and capacities:
`NoDuplicateEntry` (`OneEntryPerKey` of `RotatingMap`) and `MapKeepsPromise`
(`ImplementsKeyedMap`), the map implements `KeyedMap`. The invariant `MapInv` is needed by `pop()`: had a key an
entry in both generations, removing the younger would uncover the older one. Rotation
changes no lookup (`RotationInvisible`), so it is a stutter of the abstract map.

**Service** (`ServiceProofs`, the invariant, launches and startup; `ServiceTheorems`, the
stop and the theorems). For any components in any registration order, any services and any
callers of `stop()`: `StopReleases` (`StoppedMeansReleased`) and `ReleaseInOrder`
(`OrderlyRelease`). `RuntimeInv` has five parts.

- `Books`: a slot of the pending maps holds a running operation exactly when one call is
  inside the component; what is stopping is still in `#started`, what has stopped is not.
- `Order`: during startup and rollback nobody closes admission; otherwise a `stop()` runs
  after the `stopAdmission()` of its component, and with nothing of an earlier rank left
  in `#started`. This holds for every operation *in the maps*, also for those that an
  attempt which failed or timed out left behind.
- `Startups`: as long as `startOnce()` has something to await nothing is being stopped, and
  once `stop()` has returned nothing is started.
- `BootInv`, `StopInv`: in each phase of an activity, whatever belongs to an earlier phase
  has gone, and what is left of its own phase it waits for or has yet to take up.

Each property alone is not inductive because an attempt may end in the middle: its
operations go on without an owner, and the next attempt starts again from `#started` and
joins them. `Launched` states once what `stopGroup()` and a round of `stopSequential()` do
to the maps, for the rollback of a start and for every phase; the lemmas that an action
keeps the invariant use that, one lemma per action. The proof needs the assumption on
managed connectors: without a `stopAdmission()` the connector would be stopped by the
phase that only closes admission, before the pools and sinks that use it.

`DrainFinal` (`SealedDrainIsFinal`) is about `RegistrySpec`, the registry with any
operations and callers of `drain()`. `SealedInv` adds that admission is closed once a
drain was sealed; without that an operation could be admitted after the drain.

**Workflow** (the end of `MCWorkflow`). For any tasks, contexts and `waitIdle()` callers of
a pool, and any units of work handed between any pools, of any executor counts, and the
registry:
`WorkflowCompletes` (`CompletionIsReal`). Every step of a workflow pool is one of the task
pools or leaves them alone (`WorkflowIsPool`), so `PoolInv` carries over. `IdleInv` adds
that the current `#idle` promise is resolved exactly when the pool is at rest: a caller
may hold an older promise, which was resolved at a moment when what it had seen was
finished, and `RestIsDone` (from the counting of `PoolInv`) says that rest is that moment.
`ExecutionInv` says that a pool which has stopped is idle and takes no unit, that the
pools before the one being stopped have stopped, and that work which failed or was turned
away has recorded a failure: it is why `finish()`, which looks at one pool after the other
and never goes back, ends with nothing running anywhere.

Only model-checked: liveness everywhere and `ENABLED`, which are out of the prover's
reach; the timers, whose heap sifts recursively, which the prover cannot reason about;
and the invariants of the brokers, the join storage, the configuration loader and the
graph, for which no inductive invariant has been written. For these the evidence is the
instance of the run and its bounds, nothing more.

## What is not modelled

See `components`. In short: parsing and validation of configuration, serdes, logging,
metrics export, tracing, status pages and Temporal header codecs, which convert or
print and share no state; the choice of `join` and `multi-join` whether to call the
user function, a predicate of lengths (their storage is modelled); set-up code of
`ServiceApp` and of the runtime environment, which runs once before the start. External
libraries (librdkafka, grpc-js, node:http, croner, the Temporal SDK) are modelled by
what the code relies on, with failures wherever the code handles them. `KafkaConsumer`
is checked with one partition and no other members of its group, and drops a batch
fetched under an earlier assignment, as the client documents.

Hazards without a property, with the reason, are in `hazards`: a pool whose executors
all wait for a SubStream that needs them, a task admitted between the drain of the
registry and the closing of admission, and the callbacks of two groups of one key. A
Temporal connection that arrives after its wait was aborted has no owner, and the
properties speak only of the connections that the connector holds.
