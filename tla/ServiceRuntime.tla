--------------------------- MODULE ServiceRuntime ---------------------------
(***************************************************************************)
(* ServiceRuntime of src/runtime/service-runtime.ts: the phased start of   *)
(* the registered components, rollback of a failed or interrupted start,   *)
(* and the shared, retryable, phased stop, composed with the registry of   *)
(* detached tasks that the runtime drains.                                 *)
(*                                                                         *)
(* Two activities stop components: the rollback that startOnce() runs      *)
(* ("boot") and the one attempt of stopOnce() that all callers of stop()   *)
(* share ("stop").  Both go through stopComponent(), which keeps at most   *)
(* one physical operation per component and joins it when it exists.       *)
(***************************************************************************)
EXTENDS TaskRegistry, Sequences, Functions

CONSTANTS
    Components,  \* everything that can be registered
    Category,    \* Category[c] is one of the names in START_ORDER
    Services,    \* the services that are run
    Callers      \* callers of stop(), each with its own context

Startup == "startup"
Contexts == Callers \cup {Startup}
None == "none"
Done == "done"

START_ORDER == <<"telemetry", "managedDataConnector", "storage", "delayPool",
                 "taskPool", "priorityTaskPool", "component", "dataSink",
                 "dataSource", "httpServer">>

ADMISSION_CATEGORIES == {"dataSource", "component", "httpServer"}
PoolCategories == {"storage", "delayPool", "taskPool", "priorityTaskPool"}

\* A service: its components in registration order, which of them have a
\* stopAdmission() (managed connectors must), which may fail to stop for
\* reasons of their own, and the operations that they submit to the registry.
IsService(v) ==
    /\ v.registered \in Seq(Components) /\ IsInjective(v.registered)
    /\ v.withAdmission \subseteq Components /\ v.unreliable \subseteq Components
    /\ \A c \in Components : Category[c] = "managedDataConnector" => c \in v.withAdmission
    /\ v.jobs \subseteq Jobs

ASSUME RuntimeAssumption ==
    /\ Category \in [Components -> Range(START_ORDER)]
    /\ \A v \in Services : IsService(v)
    /\ {Startup, None, Done} \cap Callers = {}

VARIABLES
    service,          \* the service that is run
    rt,               \* #state
    startPlan,        \* the awaits that startOnce() still has to make
    startupPending,   \* #startupPending
    rollbackPending,  \* #rollbackPending
    started,          \* #started; its order is the one of StartsBefore
    alive,            \* history: components that started and have not stopped
    ops,              \* #admissionStops and #componentStops
    physical,         \* history: stop calls inside each component right now
    acts,             \* progress of the two activities that stop components
    callers,          \* progress of each stop() call
    cancelledCtx      \* contexts that are aborted or past their deadline

startVars == <<startPlan, startupPending>>
stopVars == <<ops, physical, acts>>
vars == <<rt, startVars, rollbackPending, started, alive, stopVars, callers,
          cancelledCtx, registryVars>>
runtimeVars == <<vars, service, drains, snapshot>>

(***************************************************************************)
(* The order of the phases                                                 *)
(***************************************************************************)

Await(op, c) == [op |-> op, comp |-> c]
Position(seq, x) == CHOOSE i \in DOMAIN seq : seq[i] = x

\* The awaits of startOnce(): the streams are built, then the components of
\* each category start in registration order; managed connectors open their
\* admission just before the data sources start.
StartPlanOf(admission) ==
    LET mine == Range(service.registered)
        closed == IF admission THEN {} ELSE {"dataSource", "httpServer"}
    IN  {Await("build", None)}
        \cup {Await("start", c) : c \in {d \in mine : Category[d] \notin closed}}
        \cup {Await("startAdmission", c) :
                 c \in {d \in mine : admission /\ Category[d] = "managedDataConnector"}}

AwaitRank(x) ==
    CASE x.op = "build" -> 0
      [] x.op = "start" -> 2 * Position(START_ORDER, Category[x.comp])
      [] x.op = "startAdmission" -> 2 * Position(START_ORDER, "dataSource") - 1

AwaitBefore(x, y) ==
    \/ AwaitRank(x) < AwaitRank(y)
    \/ /\ AwaitRank(x) = AwaitRank(y)
       /\ Position(service.registered, x.comp) < Position(service.registered, y.comp)

\* Components start, and therefore stand in #started, in this order.
StartsBefore(c, d) == AwaitBefore(Await("start", c), Await("start", d))

\* Mutant: the pools are stopped after the sinks have gone.
PhaseAfterSinksEarly(phase) ==
    CASE phase = "admission" -> "producers"
      [] phase = "producers" -> "managedAdmission"
      [] phase = "managedAdmission" -> "sinks"
      [] phase = "sinks" -> "pools"
      [] phase = "pools" -> "drain"
      [] phase = "rollback" -> "rollbackDrain"
      [] phase = "drain" -> "managed"
      [] phase = "managed" -> "telemetry"
      [] phase \in {"telemetry", "rollbackDrain"} -> "done"

\* Phases of stopOnce() in order; after a failed start only the rollback and
\* the drain are left to do.
PhaseAfter(phase) ==
    CASE phase = "admission" -> "producers"
      [] phase = "producers" -> "managedAdmission"
      [] phase = "managedAdmission" -> "pools"
      [] phase = "pools" -> "drain"
      [] phase = "rollback" -> "rollbackDrain"
      [] phase = "drain" -> "sinks"
      [] phase = "sinks" -> "managed"
      [] phase = "managed" -> "telemetry"
      [] phase \in {"telemetry", "rollbackDrain"} -> "done"

\* The components that a phase stops, from #started as it is now.
Targets(phase) ==
    LET In(cats) == {c \in started : Category[c] \in cats}
    IN  CASE phase = "admission" -> In(ADMISSION_CATEGORIES)
          [] phase = "producers" -> In(ADMISSION_CATEGORIES) \cap service.withAdmission
          [] phase \in {"managedAdmission", "managed"} -> In({"managedDataConnector"})
          [] phase = "pools" -> In(PoolCategories)
          [] phase = "sinks" -> In({"dataSink"})
          [] phase = "telemetry" -> In({"telemetry"})
          [] phase = "rollback" -> started

\* Those to stop next: all of them in stopGroup(), the one that was started
\* last in stopSequential().
Due(phase, todo) ==
    IF phase \in {"rollback", "telemetry"}
    THEN {c \in todo : \A d \in todo \ {c} : StartsBefore(d, c)} ELSE todo

\* The pending map and entry that stopComponent() uses for c in a phase.
Slots == {"admission", "full"} \X Components
Slot(phase, c) ==
    IF phase \in {"admission", "managedAdmission"} /\ c \in service.withAdmission
    THEN <<"admission", c>> ELSE <<"full", c>>

Groups == {"rollback", "admission", "producers", "managedAdmission", "pools",
           "sinks", "managed", "telemetry"}
Drains == {"drain", "rollbackDrain"}

\* An activity: under which context, in which phase, what it has yet to take
\* up and what it waits for, whether a stop failed, how far a drain has come.
Activity(ctx, phase, todo, wait, err) ==
    [ctx |-> ctx, phase |-> phase, todo |-> todo, wait |-> wait, err |-> err,
     drain |-> IF phase \in Drains THEN "check" ELSE "no"]
Idle == Activity(None, "idle", {}, {}, FALSE)

(***************************************************************************)
(* Steps of an activity                                                    *)
(***************************************************************************)

\* stopGroup() / one round of stopSequential(): stopComponent() for those due
\* joins the operation of a component or starts one, then waits.  A context
\* that is already cancelled starts the operations but waits for none.
Launch(a, ctx, phase, todo) ==
    LET group == Due(phase, todo)
        fresh == {s \in {Slot(phase, c) : c \in group} : ops[s] = None}
        late == ctx \in cancelledCtx /\ group # {}
    IN  /\ ops' = [s \in Slots |-> IF s \in fresh THEN ctx ELSE ops[s]]
        /\ physical' = [s \in Slots |-> physical[s] + IF s \in fresh THEN 1 ELSE 0]
        /\ acts' = [acts EXCEPT ![a] =
             Activity(ctx, phase, todo \ group,
                      IF late THEN {} ELSE {c \in group : ops'[Slot(phase, c)] # Done},
                      late)]

\* The attempt is over: #stopPromise is released and its waiters are told.
EndAttempt(ok) ==
    /\ acts' = [acts EXCEPT !["stop"] = Idle]
    /\ callers' = [k \in Callers |->
          CASE callers[k] \in {"owner", "joiner"} /\ ok -> "returned"
            [] callers[k] = "owner" /\ ~ok -> "ownerRejected"
            [] callers[k] = "joiner" /\ ~ok -> "joinerRejected"
            [] OTHER -> callers[k]]
    /\ UNCHANGED <<ops, physical>>

\* The attempt goes on to a phase.
Enter(ctx, phase) ==
    CASE phase = "done" -> rt' = "stopped" /\ EndAttempt(TRUE)
      [] phase \in Drains ->
            /\ acts' = [acts EXCEPT !["stop"] = Activity(ctx, phase, {}, {}, FALSE)]
            /\ UNCHANGED <<rt, ops, physical, callers>>
      [] OTHER ->
            /\ Launch("stop", ctx, phase, Targets(phase))
            /\ UNCHANGED <<rt, callers>>

FirstPhase == IF rollbackPending THEN "rollback" ELSE "admission"

\* startOnce() leaves through its catch and finally blocks.
EndStartup(ok) ==
    /\ rollbackPending' = ~ok
    /\ rt' = IF started = {} /\ tasks = {} THEN "stopped" ELSE "stopping"
    /\ startupPending' = FALSE
    /\ acts' = [acts EXCEPT !["boot"] = Idle]
    /\ UNCHANGED <<ops, physical>>

(***************************************************************************)
(* Actions: startup                                                        *)
(***************************************************************************)

Init ==
    /\ service \in Services
    /\ rt = "created"
    /\ startPlan = {}
    /\ startupPending = FALSE
    /\ rollbackPending = FALSE
    /\ started = {}
    /\ alive = {}
    /\ ops = [s \in Slots |-> None]
    /\ physical = [s \in Slots |-> 0]
    /\ acts = [a \in {"boot", "stop"} |-> Idle]
    /\ callers = [k \in Callers |-> "idle"]
    /\ cancelledCtx = {}
    /\ RegistryInit

\* start() and startGraph(): rejected unless the runtime was just created.
Start(admission) ==
    /\ rt = "created"
    /\ rt' = "starting"
    /\ startupPending' = TRUE
    /\ startPlan' = StartPlanOf(admission)
    /\ UNCHANGED <<rollbackPending, started, alive, stopVars, callers, cancelledCtx,
                   registryVars>>

\* The catch block: work is cancelled and the rollback starts in the same
\* turn, under the startup context.
FailStartup(begun) ==
    /\ startPlan' = {}
    /\ rollbackPending' = TRUE
    /\ started' = begun
    /\ Cancel
    /\ Launch("boot", Startup, "rollback", begun)
    /\ UNCHANGED <<rt, startupPending>>

\* The current await of startOnce(), and the component that it starts, if any.
Current(x) == \A y \in startPlan \ {x} : AwaitBefore(x, y)
Starting(x) == IF x.op = "start" THEN {x.comp} ELSE {}

\* The await that resolved was followed by a live context.
NextAwait(x, begun) ==
    /\ started' = begun
    /\ startPlan' = startPlan \ {x}
    /\ rt' = IF startPlan' = {} THEN "running" ELSE rt
    /\ startupPending' = (startPlan' # {})
    /\ UNCHANGED <<rollbackPending, stopVars, registryVars>>

\* Mutant: a component is recorded only when the context still lives.
StartStepRecordsLate(x) ==
    /\ Current(x)
    /\ alive' = alive \cup Starting(x)
    /\ IF Startup \in cancelledCtx THEN FailStartup(started)
       ELSE NextAwait(x, started \cup Starting(x))
    /\ UNCHANGED <<callers, cancelledCtx>>

\* The current await of startOnce() resolves: a started component is recorded
\* before the context is checked, and the next await or "running" follows.
StartStep(x) ==
    /\ Current(x)
    /\ alive' = alive \cup Starting(x)
    /\ LET begun == started \cup Starting(x)
       IN  IF Startup \in cancelledCtx THEN FailStartup(begun) ELSE NextAwait(x, begun)
    /\ UNCHANGED <<callers, cancelledCtx>>

\* The current await rejects, or the topology is invalid.
StartStepFails ==
    /\ startPlan # {}
    /\ FailStartup(started)
    /\ UNCHANGED <<alive, callers, cancelledCtx>>

(***************************************************************************)
(* Actions: the activities that stop components                            *)
(***************************************************************************)

\* Everything in the group has stopped and the next group is due.
NextGroup(a) ==
    /\ acts[a].phase \in Groups
    /\ acts[a].wait = {} /\ ~acts[a].err /\ acts[a].todo # {}
    /\ Launch(a, acts[a].ctx, acts[a].phase, acts[a].todo)
    /\ UNCHANGED <<rt, startVars, rollbackPending, started, alive, callers, cancelledCtx,
                   registryVars>>

PhaseDone(a) ==
    /\ acts[a].phase \in Groups
    /\ acts[a].wait = {} /\ ~acts[a].err /\ acts[a].todo = {}
    /\ IF a = "boot"
       THEN EndStartup(TRUE) /\ UNCHANGED callers
       ELSE /\ Enter(acts[a].ctx, PhaseAfter(acts[a].phase))
            /\ rollbackPending' = (rollbackPending /\ acts[a].phase # "rollback")
            /\ UNCHANGED startupPending
    /\ UNCHANGED <<startPlan, started, alive, cancelledCtx, registryVars>>

\* A stop of the group failed, or the context ended the wait for it; the
\* operations that still run stay in the pending maps.
PhaseFails(a) ==
    /\ acts[a].phase \in Groups
    /\ \/ acts[a].wait = {} /\ acts[a].err
       \/ acts[a].wait # {} /\ acts[a].ctx \in cancelledCtx
    /\ IF a = "boot"
       THEN EndStartup(FALSE) /\ UNCHANGED callers
       ELSE EndAttempt(FALSE) /\ UNCHANGED <<rt, rollbackPending, startupPending>>
    /\ UNCHANGED <<startPlan, started, alive, cancelledCtx, registryVars>>

\* The stop() or stopAdmission() of a component resolves.
OpSucceeds(slot) ==
    /\ ops[slot] \in Contexts
    /\ LET c == slot[2]
       IN  /\ ops' = [s \in Slots |->
                 CASE s = slot -> Done
                   [] s = <<"admission", c>> /\ slot[1] = "full" -> None
                   [] OTHER -> ops[s]]
           /\ started' = IF slot[1] = "full"
                         THEN started \ {c} ELSE started
           /\ alive' = IF slot[1] = "full" THEN alive \ {c} ELSE alive
           /\ acts' = [a \in DOMAIN acts |->
                 IF Slot(acts[a].phase, c) = slot
                 THEN [acts[a] EXCEPT !.wait = @ \ {c}] ELSE acts[a]]
    /\ physical' = [physical EXCEPT ![slot] = @ - 1]
    /\ UNCHANGED <<rt, startVars, rollbackPending, callers, cancelledCtx, registryVars>>

\* Mutant: a waiter never joins again.
NeverRejoins(a, slot, byContext) == FALSE

\* Whether an activity that waits for the failed operation of a slot joins
\* the component again with its own context: only when the failure is that
\* the context of the operation ended and its own has not.
Rejoins(a, slot, byContext) ==
    /\ slot[2] \in acts[a].wait /\ Slot(acts[a].phase, slot[2]) = slot
    /\ byContext
    /\ acts[a].ctx # ops[slot]
    /\ acts[a].ctx \notin cancelledCtx

\* It rejects: because its context ended, or for a reason of its own.
OpFails(slot, byContext) ==
    /\ ops[slot] \in Contexts
    /\ IF byContext THEN ops[slot] \in cancelledCtx ELSE slot[2] \in service.unreliable
    /\ LET c == slot[2]
           again == {a \in DOMAIN acts : Rejoins(a, slot, byContext)}
           told == {a \in DOMAIN acts \ again :
                       c \in acts[a].wait /\ Slot(acts[a].phase, c) = slot}
       IN  /\ ops' = [ops EXCEPT ![slot] =
                 IF again = {} THEN None ELSE acts[CHOOSE a \in again : TRUE].ctx]
           /\ physical' = [physical EXCEPT ![slot] = IF again = {} THEN @ - 1 ELSE @]
           /\ acts' = [a \in DOMAIN acts |->
                 IF a \in told
                 THEN [acts[a] EXCEPT !.wait = @ \ {c}, !.err = TRUE] ELSE acts[a]]
    /\ UNCHANGED <<rt, startVars, rollbackPending, started, alive, callers, cancelledCtx,
                   registryVars>>

\* stopOnce() goes on when startOnce() has settled.
StartupSettles ==
    /\ acts["stop"].phase = "awaitStartup"
    /\ ~startupPending
    /\ Enter(acts["stop"].ctx, FirstPhase)
    /\ UNCHANGED <<startVars, rollbackPending, started, alive, cancelledCtx, registryVars>>

\* The context ends the wait for the startup or for the registry's drain:
\* the admitted tasks are cancelled and the attempt fails.
AttemptExpires ==
    /\ acts["stop"].ctx \in cancelledCtx
    /\ \/ acts["stop"].phase = "awaitStartup"
       \/ acts["stop"].drain \in {"waiting", "resolved"}
       \/ acts["stop"].drain = "check" /\ tasks # {}
    /\ Cancel
    /\ EndAttempt(FALSE)
    /\ UNCHANGED <<rt, startVars, rollbackPending, started, alive, cancelledCtx>>

\* drainTasks(): without active tasks admission closes at once; otherwise the
\* registry's drain() is awaited.
DrainTasks ==
    /\ acts["stop"].drain = "check"
    /\ IF tasks = {}
       THEN /\ StopAdmission
            /\ Enter(acts["stop"].ctx, PhaseAfter(acts["stop"].phase))
       ELSE /\ acts["stop"].ctx \notin cancelledCtx
            /\ acts' = [acts EXCEPT !["stop"].drain = "waiting"]
            /\ UNCHANGED <<rt, ops, physical, callers, registryVars>>
    /\ UNCHANGED <<startVars, rollbackPending, started, alive, cancelledCtx>>

\* drain() finds no task left and its promise resolves ...
DrainResolves ==
    /\ acts["stop"].drain = "waiting"
    /\ tasks = {}
    /\ acts' = [acts EXCEPT !["stop"].drain = "resolved"]
    /\ UNCHANGED <<rt, startVars, rollbackPending, started, alive, ops, physical, callers,
                   cancelledCtx, registryVars>>

\* ... and some microtasks later drainTasks() resumes and closes admission.
DrainReturns ==
    /\ acts["stop"].drain = "resolved"
    /\ StopAdmission
    /\ Enter(acts["stop"].ctx, PhaseAfter(acts["stop"].phase))
    /\ UNCHANGED <<startVars, rollbackPending, started, alive, cancelledCtx>>

(***************************************************************************)
(* Actions: callers of stop(), contexts and tasks                          *)
(***************************************************************************)

\* The caller starts a new attempt: stopOnce() up to its first await.
OwnAttempt(k) ==
    /\ IF startupPending
       THEN /\ rt' = "stopping"
            /\ cancelledCtx' = cancelledCtx \cup {Startup}
            /\ acts' = [acts EXCEPT !["stop"] = Activity(k, "awaitStartup", {}, {}, FALSE)]
            /\ UNCHANGED <<ops, physical>>
       ELSE /\ rt' = "stopping"
            /\ Launch("stop", k, FirstPhase, Targets(FirstPhase))
            /\ UNCHANGED cancelledCtx
    /\ callers' = [callers EXCEPT ![k] = "owner"]

\* One round of the loop in stop(): own a new attempt or join the current one.
Attempt(k) ==
    /\ IF acts["stop"] = Idle
       THEN OwnAttempt(k)
       ELSE /\ callers' = [callers EXCEPT ![k] = "joiner"]
            /\ UNCHANGED <<rt, stopVars, cancelledCtx>>
    /\ UNCHANGED <<startVars, rollbackPending, started, alive, registryVars>>

\* stop(): there may be nothing to wait for.
Stop(k) ==
    /\ callers[k] = "idle"
    /\ IF ~startupPending /\ started = {} /\ tasks = {}
       THEN /\ rt' = "stopped"
            /\ callers' = [callers EXCEPT ![k] = "returned"]
            /\ StopAdmission
            /\ UNCHANGED <<startVars, rollbackPending, started, alive, stopVars, cancelledCtx>>
       ELSE Attempt(k)

\* The caller's own context ends first, or its own attempt failed.
StopThrows(k) ==
    /\ \/ callers[k] \in {"owner", "joiner", "joinerRejected"} /\ k \in cancelledCtx
       \/ callers[k] = "ownerRejected"
    /\ callers' = [callers EXCEPT ![k] = "failed"]
    /\ StopAdmission
    /\ UNCHANGED <<rt, startVars, rollbackPending, started, alive, stopVars, cancelledCtx>>

\* The attempt of another caller failed: try again with this caller's context.
StopRetries(k) ==
    /\ callers[k] = "joinerRejected"
    /\ k \notin cancelledCtx
    /\ Attempt(k)

CancelContext(x) ==
    /\ x \notin cancelledCtx
    /\ cancelledCtx' = cancelledCtx \cup {x}
    /\ UNCHANGED <<rt, startVars, rollbackPending, started, alive, stopVars, callers,
                   registryVars>>

\* Running components and tasks submit operations to the registry.
Submit(j) ==
    /\ started # {} \/ tasks # {}
    /\ Admit(j) \/ Refuse(j)
    /\ UNCHANGED <<rt, startVars, rollbackPending, started, alive, stopVars, callers,
                   cancelledCtx>>

TaskSettles(j) ==
    /\ Settle(j)
    /\ UNCHANGED <<rt, startVars, rollbackPending, started, alive, stopVars, callers,
                   cancelledCtx>>

AttemptStep ==
    \/ StartupSettles
    \/ AttemptExpires
    \/ DrainTasks
    \/ DrainResolves
    \/ DrainReturns

ActivityStep(a) == NextGroup(a) \/ PhaseDone(a) \/ PhaseFails(a)
OpSettles(slot) == OpSucceeds(slot) \/ \E b \in BOOLEAN : OpFails(slot, b)
StopCallStep(k) == StopThrows(k) \/ StopRetries(k)

RuntimeStep ==
    \/ \E admission \in BOOLEAN : Start(admission)
    \/ \E x \in startPlan : StartStep(x)
    \/ StartStepFails
    \/ \E a \in DOMAIN acts : ActivityStep(a)
    \/ AttemptStep
    \/ \E slot \in Slots : OpSettles(slot)
    \/ \E k \in Callers : Stop(k) \/ StopCallStep(k)
    \/ \E x \in Contexts : CancelContext(x)
    \/ \E j \in service.jobs : Submit(j) \/ TaskSettles(j)

Next == RuntimeStep /\ UNCHANGED <<service, drains, snapshot>>

Spec == Init /\ [][Next]_runtimeVars

(***************************************************************************)
(* Properties                                                              *)
(***************************************************************************)

ActivityType ==
    [ctx : Contexts \cup {None},
     phase : Groups \cup Drains \cup {"idle", "awaitStartup"},
     todo : SUBSET Components, wait : SUBSET Components, err : BOOLEAN,
     drain : {"no", "check", "waiting", "resolved"}]

TypeOK ==
    /\ rt \in {"created", "starting", "running", "stopping", "stopped"}
    /\ startPlan \in SUBSET [op : {"build", "start", "startAdmission"},
                            comp : Components \cup {None}]
    /\ startupPending \in BOOLEAN /\ rollbackPending \in BOOLEAN
    /\ started \in SUBSET Components /\ alive \in SUBSET Components
    /\ ops \in [Slots -> Contexts \cup {None, Done}]
    /\ physical \in [Slots -> Nat]
    /\ acts \in [{"boot", "stop"} -> ActivityType]
    /\ callers \in [Callers -> {"idle", "owner", "joiner", "ownerRejected",
                                "joinerRejected", "returned", "failed"}]
    /\ cancelledCtx \in SUBSET Contexts
    /\ RegistryTypeOK

\* A normal return of stop(), and the state "stopped", mean that startup is
\* over, every component whose start() had succeeded, also one that finished
\* starting after the stop was requested, has been stopped and none is still
\* stopping.  And however callers time out, join and retry, no component ever
\* has two stop() or two stopAdmission() calls running in it.
StoppedMeansReleased ==
    /\ (rt = "stopped" \/ \E k \in Callers : callers[k] = "returned") =>
           /\ ~startupPending
           /\ alive = {}
           /\ \A s \in Slots : physical[s] = 0
    /\ \A s \in Slots : physical[s] <= 1

\* The order in which a service that had started releases its parts.
ReleaseRank(c) ==
    CASE Category[c] \in ADMISSION_CATEGORIES -> 1
      [] Category[c] \in PoolCategories -> 2
      [] Category[c] = "dataSink" -> 3
      [] Category[c] = "managedDataConnector" -> 4
      [] Category[c] = "telemetry" -> 5

\* A service that had started is taken down in dependency order, whichever
\* callers drive it and after whatever timeouts: while a component is being
\* stopped, nothing that feeds it is still started; and managed connectors
\* close their admission only when every ordinary source has drained.
OrderlyRelease ==
    ~startupPending /\ ~rollbackPending =>
        \A c \in Components, d \in started :
            /\ physical[<<"full", c>>] > 0 => ReleaseRank(d) >= ReleaseRank(c)
            /\ physical[<<"admission", c>>] > 0 /\ ReleaseRank(c) = 4
                    => ReleaseRank(d) >= 2

\* When components fail only because the context they were given ended, a
\* stop() caller whose own context lives on ends with success: timeouts of
\* other callers and an interrupted startup are retried.
LiveCallerSucceeds ==
    service.unreliable = {} =>
        \A k \in Callers :
            callers[k] \in {"owner", "joiner"} ~>
                \/ callers[k] = "returned"
                \/ k \in cancelledCtx /\ callers[k] = "failed"
=============================================================================
