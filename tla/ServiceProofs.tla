---------------------------- MODULE ServiceProofs ---------------------------
(***************************************************************************)
(* The inductive invariant of the service runtime, for every set of        *)
(* components, callers of stop() and services; what a launch of stops does *)
(* to it; and the actions of startup.                                      *)
(***************************************************************************)
EXTENDS ServiceRuntime, TLAPS

(***************************************************************************)
(* The invariant of the runtime                                            *)
(***************************************************************************)

Full(c) == <<"full", c>>
Adm(c) == <<"admission", c>>
Running(s) == ops[s] \in Contexts

\* A component whose stop() has to wait for its stopAdmission().
Gated(c) == c \in service.withAdmission /\ ReleaseRank(c) \in {1, 4}
Pending == startupPending \/ rollbackPending
Ended == rt = "stopped" \/ \E k \in Callers : callers[k] = "returned"

Types ==
    /\ service \in Services
    /\ startupPending \in BOOLEAN /\ rollbackPending \in BOOLEAN
    /\ started \subseteq Components
    /\ \A x \in startPlan : x.op = "start" => x.comp \in Components
    /\ ops \in [Slots -> Contexts \cup {None, Done}]
    /\ acts \in [{"boot", "stop"} -> ActivityType]

\* The books of stopComponent(): a component in #started has not stopped, one
\* that is stopping is in #started, and its stop() follows its stopAdmission().
Books ==
    /\ alive = started
    /\ DOMAIN physical = Slots
    /\ \A s \in Slots : physical[s] = IF Running(s) THEN 1 ELSE 0
    /\ \A c \in Components :
        /\ Running(Full(c)) \/ Running(Adm(c)) => c \in started
        /\ ops[Full(c)] = Done => c \notin started
        /\ ops[Adm(c)] # None => Gated(c)

\* After a failed start only stop() is called; otherwise a component with
\* stopAdmission() is stopped when that has returned, and one of a later rank
\* when the earlier ones have gone.
Order ==
    IF Pending
    THEN \A c \in Components : ops[Adm(c)] = None
    ELSE \A c \in Components :
            /\ Running(Full(c)) =>
                /\ Gated(c) => ops[Adm(c)] = Done
                /\ \A d \in started : ReleaseRank(d) >= ReleaseRank(c)
            /\ Running(Adm(c)) /\ ReleaseRank(c) = 4 => \A d \in started : ReleaseRank(d) >= 2

\* Until the last await of startOnce() nothing is stopped, and once stop() has
\* returned nothing is started.
Startups ==
    /\ startPlan # {} =>
        /\ startupPending /\ ~rollbackPending
        /\ acts["boot"] = Idle /\ \A s \in Slots : ops[s] = None
    /\ rt = "created" =>
        /\ ~startupPending /\ ~rollbackPending /\ startPlan = {} /\ started = {}
        /\ acts["boot"] = Idle /\ acts["stop"] = Idle /\ \A s \in Slots : ops[s] = None
    /\ Ended => rt # "created" /\ ~startupPending /\ started = {}

\* An activity has taken up what it has to stop; what it has yet to take up is
\* started or has stopped meanwhile.
TakenUp(x, S) == ~x.err => \A c \in S : c \in x.wait \cup x.todo
Sound(x) == \A c \in x.todo : c \in Components /\ (c \in started \/ ops[Full(c)] = Done)

BootInv ==
    LET x == acts["boot"] IN
    /\ x.phase \in {"idle", "rollback"}
    /\ x.phase = "idle" => x = Idle
    /\ x.phase = "rollback" =>
        /\ startupPending /\ rollbackPending /\ startPlan = {}
        /\ x.ctx = Startup /\ Sound(x) /\ TakenUp(x, started)

\* The stopAdmission() of c has returned, or is awaited.
Closed(x, c) == ops[Adm(c)] = Done \/ (Running(Adm(c)) /\ c \in x.wait)

\* What an attempt to stop has reached in a phase.
Reached(phase) ==
    CASE phase = "pools" -> 2 [] phase \in {"drain", "sinks"} -> 3
      [] phase = "managed" -> 4 [] phase = "telemetry" -> 5

Later == {"pools", "drain", "sinks", "managed", "telemetry"}

PhaseInv ==
    LET x == acts["stop"] IN
    /\ x.phase = "admission" /\ ~x.err =>
        \A c \in started : ReleaseRank(c) = 1 =>
            IF c \in service.withAdmission THEN Closed(x, c) ELSE c \in x.wait
    /\ x.phase = "producers" =>
        /\ \A c \in started : ReleaseRank(c) = 1 => c \in service.withAdmission /\ ops[Adm(c)] = Done
        /\ TakenUp(x, {c \in started : ReleaseRank(c) = 1})
    /\ x.phase = "managedAdmission" =>
        /\ \A c \in started : ReleaseRank(c) >= 2
        /\ ~x.err => \A c \in started : ReleaseRank(c) = 4 => Closed(x, c)
    /\ x.phase \in Later =>
        /\ \A c \in started : ReleaseRank(c) >= Reached(x.phase)
        /\ \A c \in started : ReleaseRank(c) = 4 => ops[Adm(c)] = Done
        /\ x.phase # "drain" =>
            TakenUp(x, {c \in started : ReleaseRank(c) = Reached(x.phase)})
    /\ x.phase = "rollback" => TakenUp(x, started)
    /\ x.phase = "rollbackDrain" => started = {}

StopInv ==
    LET x == acts["stop"] IN
    /\ x.phase = "idle" => x = Idle
    /\ x.phase # "idle" => x.ctx \in Callers
    /\ x.drain # "no" => x.phase \in Drains
    /\ x.phase \in Groups \cup Drains => ~startupPending
    /\ x.phase = "rollback" => rollbackPending
    /\ x.phase \in (Groups \ {"rollback"}) \cup {"drain"} => ~rollbackPending
    /\ x.phase \notin {"rollback", "telemetry"} => x.todo = {}
    /\ x.phase = "telemetry" => \A c \in x.todo : ReleaseRank(c) = 5
    /\ Sound(x)
    /\ PhaseInv

RuntimeInv == Types /\ Books /\ Order /\ Startups /\ BootInv /\ StopInv

(***************************************************************************)
(* Facts about the constants and the operators                             *)
(***************************************************************************)

\* Contexts, "none" and "done" differ.
LEMMA ContextFacts ==
    /\ None \notin Contexts /\ Done \notin Contexts /\ None # Done
    /\ Startup \in Contexts /\ Startup \notin Callers /\ Callers \subseteq Contexts
    /\ None \notin Callers
  BY RuntimeAssumption DEF Contexts, None, Done, Startup

\* The categories of START_ORDER.
LEMMA Categories == \A c \in Components : Category[c] \in
    {"telemetry", "managedDataConnector", "storage", "delayPool", "taskPool",
     "priorityTaskPool", "component", "dataSink", "dataSource", "httpServer"}
  BY RuntimeAssumption DEF START_ORDER, Range

\* Every component has one of five ranks, its categories'.
LEMMA Ranks ==
    \A c \in Components :
        /\ ReleaseRank(c) \in 1..5
        /\ ReleaseRank(c) = 1 <=> Category[c] \in ADMISSION_CATEGORIES
        /\ ReleaseRank(c) = 2 <=> Category[c] \in PoolCategories
        /\ ReleaseRank(c) = 3 <=> Category[c] = "dataSink"
        /\ ReleaseRank(c) = 4 <=> Category[c] = "managedDataConnector"
        /\ ReleaseRank(c) = 5 <=> Category[c] = "telemetry"
  BY Categories DEF ReleaseRank, ADMISSION_CATEGORIES, PoolCategories

\* The two slots of a component.
LEMMA SlotFacts ==
    /\ \A c \in Components :
        /\ Full(c) \in Slots /\ Full(c)[1] = "full" /\ Full(c)[2] = c
        /\ Adm(c) \in Slots /\ Adm(c)[1] = "admission" /\ Adm(c)[2] = c
        /\ \A d \in Components :
            /\ Full(c) = Full(d) => c = d
            /\ Adm(c) = Adm(d) => c = d
            /\ Full(c) # Adm(d)
    /\ \A s \in Slots : \E c \in Components : s = Full(c) \/ s = Adm(c)
  BY DEF Full, Adm, Slots

\* What a phase stops, by rank.
LEMMA TargetFacts ==
    ASSUME started \subseteq Components
    PROVE  /\ Targets("admission") = {c \in started : ReleaseRank(c) = 1}
           /\ Targets("producers") = {c \in started : ReleaseRank(c) = 1 /\ c \in service.withAdmission}
           /\ Targets("managedAdmission") = {c \in started : ReleaseRank(c) = 4}
           /\ Targets("pools") = {c \in started : ReleaseRank(c) = 2}
           /\ Targets("sinks") = {c \in started : ReleaseRank(c) = 3}
           /\ Targets("managed") = {c \in started : ReleaseRank(c) = 4}
           /\ Targets("telemetry") = {c \in started : ReleaseRank(c) = 5}
           /\ Targets("rollback") = started
<1>1. \A c \in started :
        /\ ReleaseRank(c) = 1 <=> Category[c] \in ADMISSION_CATEGORIES
        /\ ReleaseRank(c) = 2 <=> Category[c] \in PoolCategories
        /\ ReleaseRank(c) = 3 <=> Category[c] = "dataSink"
        /\ ReleaseRank(c) = 4 <=> Category[c] = "managedDataConnector"
        /\ ReleaseRank(c) = 5 <=> Category[c] = "telemetry"
  BY Ranks
<1>2. QED
  BY <1>1 DEF Targets

\* A managed connector has a stopAdmission().
LEMMA ManagedIsGated ==
    ASSUME service \in Services, NEW c \in Components, ReleaseRank(c) = 4
    PROVE  c \in service.withAdmission
  BY Ranks, RuntimeAssumption DEF IsService

(***************************************************************************)
(* Launching the stops of a group                                          *)
(***************************************************************************)

\* What a launch leaves behind in the slots and in its activity.
Launched(a, ctx, phase, todo) ==
    LET x == acts'[a] IN
    /\ ops' \in [Slots -> Contexts \cup {None, Done}]
    /\ acts' \in [{"boot", "stop"} -> ActivityType]
    /\ \A b \in {"boot", "stop"} : b # a => acts'[b] = acts[b]
    /\ DOMAIN physical' = Slots
    /\ \A s \in Slots : physical'[s] = IF ops'[s] \in Contexts THEN 1 ELSE 0
    /\ \A s \in Slots : \/ ops'[s] = ops[s]
                        \/ /\ ops[s] = None /\ ops'[s] = ctx
                           /\ \E c \in todo : s = Slot(phase, c)
    /\ x.ctx = ctx /\ x.phase = phase /\ x.drain = "no" /\ x.todo \subseteq todo
    /\ phase \notin {"rollback", "telemetry"} => x.todo = {}
    /\ \A c \in todo : c \notin x.todo =>
        /\ ops'[Slot(phase, c)] # None
        /\ x.err \/ c \in x.wait \/ ops'[Slot(phase, c)] = Done

\* stopGroup() and a round of stopSequential(): an operation is joined or
\* started under the context of the activity, and unless that context has
\* ended each one that has not been done is awaited.
LEMMA LaunchFacts ==
    ASSUME Types, Books, NEW a \in {"boot", "stop"}, NEW ctx \in Contexts, NEW phase \in Groups,
           NEW todo \in SUBSET Components, Launch(a, ctx, phase, todo)
    PROVE  Launched(a, ctx, phase, todo)
<1> DEFINE group == Due(phase, todo)
           fresh == {s \in {Slot(phase, c) : c \in group} : ops[s] = None}
           late == ctx \in cancelledCtx /\ group # {}
           wait == IF late THEN {} ELSE {c \in group : ops'[Slot(phase, c)] # Done}
           act == Activity(ctx, phase, todo \ group, wait, late)
<1>1. group \subseteq todo /\ (phase \notin {"rollback", "telemetry"} => group = todo)
  BY DEF Due
<1>2. \A c \in Components : Slot(phase, c) \in Slots
  BY DEF Slot, Slots
<1>3. ops' = [s \in Slots |-> IF s \in fresh THEN ctx ELSE ops[s]]
  BY DEF Launch
<1>4. physical' = [s \in Slots |-> physical[s] + IF s \in fresh THEN 1 ELSE 0]
  BY DEF Launch
<1>5. acts' = [acts EXCEPT ![a] = act]
  BY Zenon DEF Launch
<1> HIDE DEF group, fresh, late, act
<1>6. wait \subseteq Components /\ late \in BOOLEAN
  BY <1>1 DEF wait, late
<1> HIDE DEF wait
<1>7. ops' \in [Slots -> Contexts \cup {None, Done}]
  BY <1>3 DEF Types
<1>8. phase \notin Drains
  BY DEF Groups, Drains
<1>9. act \in ActivityType
  BY <1>6, <1>8 DEF act, Activity, ActivityType
<1>10. /\ acts' \in [{"boot", "stop"} -> ActivityType]
       /\ acts'[a] = act
       /\ \A b \in {"boot", "stop"} : b # a => acts'[b] = acts[b]
  BY <1>5, <1>9 DEF Types
<1>11. \A s \in fresh : ops[s] = None /\ \E c \in todo : s = Slot(phase, c)
  BY <1>1 DEF fresh
<1>12. /\ DOMAIN physical' = Slots
       /\ \A s \in Slots : physical'[s] = IF ops'[s] \in Contexts THEN 1 ELSE 0
  BY <1>3, <1>4, <1>11, ContextFacts DEF Books, Running
<1>13. \A s \in Slots : \/ ops'[s] = ops[s]
                        \/ /\ ops[s] = None /\ ops'[s] = ctx
                           /\ \E c \in todo : s = Slot(phase, c)
  BY <1>3, <1>11
<1>14. \A c \in group : ops'[Slot(phase, c)] # None
  BY <1>1, <1>2, <1>3, ContextFacts DEF fresh
<1>15. \A c \in group : late \/ c \in wait \/ ops'[Slot(phase, c)] = Done
  BY DEF wait
<1>16. /\ act.ctx = ctx /\ act.phase = phase /\ act.drain = "no"
       /\ act.todo = todo \ group /\ act.wait = wait /\ act.err = late
  BY <1>8 DEF act, Activity
<1>17. QED
  BY <1>1, <1>7, <1>10, <1>12, <1>13, <1>14, <1>15, <1>16 DEF Launched

\* An activity at rest.
LEMMA IdleFacts ==
    /\ Idle \in ActivityType /\ Idle.ctx = None /\ Idle.phase = "idle" /\ Idle.drain = "no"
    /\ Idle.todo = {} /\ Idle.wait = {} /\ Idle.err = FALSE
  BY DEF Idle, Activity, ActivityType, Drains

\* Which slot stopComponent() uses.
LEMMA SlotIs ==
    ASSUME NEW phase, NEW c \in Components
    PROVE  Slot(phase, c) = IF phase \in {"admission", "managedAdmission"}
                               /\ c \in service.withAdmission THEN Adm(c) ELSE Full(c)
  BY DEF Slot, Adm, Full

\* What must have gone before an attempt enters a phase.
Ready(phase) ==
    /\ phase = "producers" =>
        \A c \in started : ReleaseRank(c) = 1 => c \in service.withAdmission /\ ops[Adm(c)] = Done
    /\ phase = "managedAdmission" => \A c \in started : ReleaseRank(c) >= 2
    /\ phase \in Later =>
        /\ \A c \in started : ReleaseRank(c) >= Reached(phase)
        /\ \A c \in started : ReleaseRank(c) = 4 => ops[Adm(c)] = Done
    /\ phase \in {"rollbackDrain", "done"} => started = {}

\* What a launch for the targets of a phase changes in the slots.
LEMMA EnterSlots ==
    ASSUME Types, Books, NEW ctx \in Callers, NEW phase \in Groups,
           Launch("stop", ctx, phase, Targets(phase))
    PROVE  \A c \in Components :
            /\ \/ ops'[Full(c)] = ops[Full(c)]
               \/ /\ ops[Full(c)] = None /\ ops'[Full(c)] = ctx /\ c \in Targets(phase)
                  /\ ~(phase \in {"admission", "managedAdmission"} /\ c \in service.withAdmission)
            /\ \/ ops'[Adm(c)] = ops[Adm(c)]
               \/ /\ ops[Adm(c)] = None /\ ops'[Adm(c)] = ctx /\ c \in Targets(phase)
                  /\ phase \in {"admission", "managedAdmission"} /\ c \in service.withAdmission
<1>1. Targets(phase) \in SUBSET started
  BY DEF Targets, Groups
<1>2. Targets(phase) \in SUBSET Components
  BY <1>1 DEF Types
<1>3. \A s \in Slots : \/ ops'[s] = ops[s]
                       \/ /\ ops[s] = None /\ ops'[s] = ctx
                          /\ \E c \in Targets(phase) : s = Slot(phase, c)
  <2>1. Launched("stop", ctx, phase, Targets(phase))
    BY <1>2, LaunchFacts, ContextFacts
  <2>2. QED
    BY <2>1 DEF Launched
<1>4. QED
  <2>1. \A d \in Targets(phase) : Slot(phase, d) = IF phase \in {"admission", "managedAdmission"}
                               /\ d \in service.withAdmission THEN Adm(d) ELSE Full(d)
    BY <1>2, SlotIs
  <2>2. QED
    BY <1>2, <1>3, <2>1, SlotFacts

\* stopOnce() enters a phase for which it is ready, and launches its stops.
LEMMA EnterGroup ==
    ASSUME RuntimeInv, ~startupPending, NEW ctx \in Callers, NEW phase \in Groups,
           Ready(phase), (phase = "rollback") <=> rollbackPending,
           Launch("stop", ctx, phase, Targets(phase)),
           UNCHANGED <<service, startPlan, startupPending, rollbackPending, started, alive>>,
           rt' # "created", Ended' => Ended
    PROVE  RuntimeInv'
<1>1. Types /\ Books /\ Order /\ Startups /\ BootInv
  BY DEF RuntimeInv
<1>2. started \subseteq Components /\ Targets(phase) \subseteq started
  BY <1>1 DEF Types, Targets, Groups
<1> DEFINE x == acts'["stop"]
<1>3. /\ ops' \in [Slots -> Contexts \cup {None, Done}]
      /\ acts' \in [{"boot", "stop"} -> ActivityType]
      /\ acts'["boot"] = acts["boot"]
      /\ DOMAIN physical' = Slots
      /\ \A s \in Slots : physical'[s] = IF ops'[s] \in Contexts THEN 1 ELSE 0
      /\ x.ctx = ctx /\ x.phase = phase /\ x.drain = "no"
      /\ x.todo \subseteq Targets(phase)
      /\ phase \notin {"rollback", "telemetry"} => x.todo = {}
      /\ \A c \in Targets(phase) : c \notin x.todo =>
            /\ ops'[Slot(phase, c)] # None
            /\ x.err \/ c \in x.wait \/ ops'[Slot(phase, c)] = Done
  <2>1. Targets(phase) \in SUBSET Components
    BY <1>2
  <2>2. Launched("stop", ctx, phase, Targets(phase))
    BY <1>1, <2>1, LaunchFacts, ContextFacts
  <2>3. QED
    BY <2>2 DEF Launched
<1>4. \A c \in Components :
        /\ \/ ops'[Full(c)] = ops[Full(c)]
           \/ /\ ops[Full(c)] = None /\ ops'[Full(c)] = ctx /\ c \in Targets(phase)
              /\ ~(phase \in {"admission", "managedAdmission"} /\ c \in service.withAdmission)
        /\ \/ ops'[Adm(c)] = ops[Adm(c)]
           \/ /\ ops[Adm(c)] = None /\ ops'[Adm(c)] = ctx /\ c \in Targets(phase)
              /\ phase \in {"admission", "managedAdmission"} /\ c \in service.withAdmission
  BY <1>1, EnterSlots
<1>5. \A c \in Targets(phase) : Slot(phase, c) = IF phase \in {"admission", "managedAdmission"}
                               /\ c \in service.withAdmission THEN Adm(c) ELSE Full(c)
  BY <1>2, SlotIs
<1> HIDE DEF x
<1>6. Types'
  BY <1>1, <1>3 DEF Types
<1>7. Books'
  <2>1. \A c \in Targets(phase) : phase \in {"admission", "managedAdmission"} => ReleaseRank(c) \in {1, 4}
    BY <1>2, TargetFacts
  <2>2. ctx # None /\ ctx # Done
    BY ContextFacts
  <2>3. \A c \in Components : c \in started => ops'[Full(c)] # Done
    BY <1>1, <1>4, <2>2 DEF Books
  <2>4. \A c \in Components : ops'[Adm(c)] # None => Gated(c)
    BY <1>1, <1>2, <1>4, <2>1 DEF Books, Gated
  <2>5. \A c \in Components : ops'[Full(c)] \in Contexts \/ ops'[Adm(c)] \in Contexts => c \in started
    BY <1>1, <1>2, <1>4 DEF Books, Running
  <2>6. QED
    BY <1>1, <1>3, <2>3, <2>4, <2>5 DEF Books, Running, Gated
<1>8. Order'
  <2>1. CASE rollbackPending
    BY <1>1, <1>4, <2>1 DEF Order, Pending
  <2>2. CASE ~rollbackPending
    <3>1. \A c \in Components : ops'[Full(c)] \in Contexts /\ Gated(c) => ops'[Adm(c)] = Done
      <4> SUFFICES ASSUME NEW c \in Components, ops'[Full(c)] \in Contexts, Gated(c)
                   PROVE  ops'[Adm(c)] = Done
        OBVIOUS
      <4>1. ops[Adm(c)] = Done => ops'[Adm(c)] = Done
        BY <1>4, ContextFacts
      <4>2. CASE ops'[Full(c)] = ops[Full(c)]
        BY <1>1, <2>2, <4>1, <4>2 DEF Order, Pending, Running
      <4>3. CASE /\ c \in Targets(phase)
                 /\ ~(phase \in {"admission", "managedAdmission"} /\ c \in service.withAdmission)
        BY <1>2, <2>2, <4>1, <4>3, TargetFacts DEF Gated, Ready, Groups, Later
      <4>4. QED
        BY <1>4, <4>2, <4>3
    <3>2. \A c \in Components : ops'[Full(c)] \in Contexts => \A d \in started : ReleaseRank(d) >= ReleaseRank(c)
      <4> SUFFICES ASSUME NEW c \in Components, ops'[Full(c)] \in Contexts, NEW d \in started
                   PROVE  ReleaseRank(d) >= ReleaseRank(c)
        OBVIOUS
      <4>1. CASE ops'[Full(c)] = ops[Full(c)]
        BY <1>1, <2>2, <4>1 DEF Order, Pending, Running
      <4>2. CASE /\ c \in Targets(phase)
                 /\ ~(phase \in {"admission", "managedAdmission"} /\ c \in service.withAdmission)
        <5>1. ReleaseRank(d) \in 1..5 /\ (ReleaseRank(c) = 4 => c \in service.withAdmission)
          BY <1>1, <1>2, Ranks, ManagedIsGated DEF Types
        <5>2. QED
          BY <1>2, <2>2, <4>2, <5>1, TargetFacts DEF Ready, Groups, Later, Reached
      <4>3. QED
        BY <1>4, <4>1, <4>2
    <3>3. \A c \in Components : ops'[Adm(c)] \in Contexts /\ ReleaseRank(c) = 4 => \A d \in started : ReleaseRank(d) >= 2
      BY <1>1, <1>2, <1>4, <2>2, TargetFacts DEF Order, Pending, Running, Ready
    <3>4. QED
      BY <2>2, <3>1, <3>2, <3>3 DEF Order, Pending, Running, Gated
  <2>3. QED
    BY <2>1, <2>2
<1>9. Startups'
  BY <1>1 DEF Startups
<1>10. BootInv'
  BY <1>1, <1>3 DEF BootInv
<1>11. StopInv'
  <2>2. \A c \in started : ReleaseRank(c) \in 1..5 /\ (ReleaseRank(c) = 4 => c \in service.withAdmission)
    BY <1>1, <1>2, Ranks, ManagedIsGated DEF Types
  <2>3. \A c \in started : ops'[Full(c)] # Done
    BY <1>7, <1>2 DEF Books
  <2>4. \A c \in started : ops[Adm(c)] = Done => ops'[Adm(c)] = Done
    BY <1>2, <1>4, ContextFacts
  <2>5. PhaseInv'
    <3>1. \A c \in Targets(phase) :
            IF phase \in {"admission", "managedAdmission"} /\ c \in service.withAdmission
            THEN c \notin x.todo /\ ~x.err =>
                    ops'[Adm(c)] = Done \/ (ops'[Adm(c)] \in Contexts /\ c \in x.wait)
            ELSE c \notin x.todo /\ ~x.err => c \in x.wait
      <4> SUFFICES ASSUME NEW c \in Targets(phase), c \notin x.todo, ~x.err
                   PROVE  IF phase \in {"admission", "managedAdmission"} /\ c \in service.withAdmission
                          THEN ops'[Adm(c)] = Done \/ (ops'[Adm(c)] \in Contexts /\ c \in x.wait)
                          ELSE c \in x.wait
        OBVIOUS
      <4>1. ops'[Adm(c)] \in Contexts \cup {None, Done}
        BY <1>2, <1>3, SlotFacts
      <4>2. ops'[Full(c)] # Done
        BY <1>2, <2>3
      <4>3. QED
        BY <1>3, <1>5, <4>1, <4>2
    <3>2. phase = "admission" /\ ~x.err =>
            \A c \in started : ReleaseRank(c) = 1 =>
                IF c \in service.withAdmission
                THEN ops'[Adm(c)] = Done \/ (ops'[Adm(c)] \in Contexts /\ c \in x.wait)
                ELSE c \in x.wait
      BY <1>2, <1>3, <3>1, TargetFacts
    <3>3. phase = "producers" =>
            /\ \A c \in started : ReleaseRank(c) = 1 =>
                   c \in service.withAdmission /\ ops'[Adm(c)] = Done
            /\ TakenUp(x, {c \in started : ReleaseRank(c) = 1})
      BY <1>2, <1>3, <2>4, <3>1, TargetFacts DEF Ready, TakenUp
    <3>4. phase = "managedAdmission" =>
            /\ \A c \in started : ReleaseRank(c) >= 2
            /\ ~x.err => \A c \in started : ReleaseRank(c) = 4 =>
                    ops'[Adm(c)] = Done \/ (ops'[Adm(c)] \in Contexts /\ c \in x.wait)
      BY <1>2, <1>3, <2>2, <3>1, TargetFacts DEF Ready
    <3>5. phase \in Later =>
            /\ \A c \in started : ReleaseRank(c) >= Reached(phase)
            /\ \A c \in started : ReleaseRank(c) = 4 => ops'[Adm(c)] = Done
            /\ TakenUp(x, {c \in started : ReleaseRank(c) = Reached(phase)})
      BY <1>2, <1>3, <2>4, <3>1, TargetFacts DEF Ready, TakenUp, Later, Reached, Groups
    <3>6. phase = "rollback" => TakenUp(x, started)
      BY <1>2, <1>3, <3>1, TargetFacts DEF TakenUp
    <3>7. phase # "rollbackDrain"
      BY DEF Groups
    <3>8. QED
      BY <1>3, <3>2, <3>3, <3>4, <3>5, <3>6, <3>7 DEF PhaseInv, x, Closed, Running, TakenUp
  <2>6. Sound(acts["stop"])'
    BY <1>2, <1>3 DEF Sound, x
  <2>7. x.phase = "telemetry" => \A c \in x.todo : ReleaseRank(c) = 5
    BY <1>2, <1>3, TargetFacts
  <2>8. QED
    BY <1>3, <2>5, <2>6, <2>7, ContextFacts DEF StopInv, x, Groups, Drains
<1>12. QED
  BY <1>6, <1>7, <1>8, <1>9, <1>10, <1>11 DEF RuntimeInv

(***************************************************************************)
(* Steps that leave the components and their slots alone                   *)
(***************************************************************************)

\* The attempt to stop rests, waits for the startup, or drains the registry.
LEMMA StopBecomes ==
    ASSUME RuntimeInv, NEW y \in ActivityType, acts' = [acts EXCEPT !["stop"] = y],
           UNCHANGED <<service, startPlan, startupPending, started, alive, ops, physical>>,
           rollbackPending' \in BOOLEAN,
           rollbackPending' # rollbackPending =>
                ~rollbackPending' /\ ~startupPending /\ started = {},
           rt' # "created", Ended' => Ended \/ (~startupPending /\ started = {}),
           y.todo = {},
           \/ y = Idle
           \/ y.phase = "awaitStartup" /\ y.ctx \in Callers /\ y.drain = "no"
           \/ /\ y.phase \in Drains /\ y.ctx \in Callers /\ Ready(y.phase) /\ ~startupPending
              /\ y.phase = "drain" => ~rollbackPending'
    PROVE  RuntimeInv'
<1>1. Types /\ Books /\ Order /\ Startups /\ BootInv
  BY DEF RuntimeInv
<1>2. acts' \in [{"boot", "stop"} -> ActivityType] /\ acts'["boot"] = acts["boot"] /\ acts'["stop"] = y
  BY <1>1 DEF Types
<1>3. Types' /\ Books'
  BY <1>1, <1>2 DEF Types, Books, Running, Gated
<1>4. Order'
  <2>1. CASE rollbackPending' = rollbackPending
    BY <1>1, <2>1 DEF Order, Pending, Running, Gated
  <2>2. CASE rollbackPending' # rollbackPending
    <3>1. \A c \in Components : ~Running(Full(c)) /\ ~Running(Adm(c))
      BY <1>1, <2>2 DEF Books
    <3>2. QED
      BY <2>2, <3>1 DEF Order, Pending, Running
  <2>3. QED
    BY <2>1, <2>2
<1>5. Startups'
  BY <1>1, <1>2 DEF Startups
<1>6. BootInv'
  BY <1>1, <1>2 DEF BootInv, Sound
<1>7. StopInv'
  <2>1. y.phase \notin Groups
    BY IdleFacts DEF Groups, Drains
  <2>2. PhaseInv'
    <3>1. CASE y.phase \in Drains /\ Ready(y.phase)
      BY <1>2, <3>1 DEF PhaseInv, Ready, Drains, Later
    <3>2. CASE y.phase \in {"idle", "awaitStartup"}
      BY <1>2, <3>2 DEF PhaseInv, Later
    <3>3. QED
      BY <3>1, <3>2, IdleFacts
  <2>3. QED
    BY <1>2, <2>1, <2>2, IdleFacts DEF StopInv, Sound, Drains, Groups
<1>8. QED
  BY <1>3, <1>4, <1>5, <1>6, <1>7 DEF RuntimeInv

\* Nothing but the callers, the contexts or the registry changes.
LEMMA ElsewhereKeeps ==
    ASSUME RuntimeInv,
           UNCHANGED <<service, startPlan, startupPending, rollbackPending, started, alive, stopVars>>,
           rt' = "created" => rt = "created",
           Ended' => rt' # "created" /\ (Ended \/ (~startupPending /\ started = {}))
    PROVE  RuntimeInv'
<1>1. Types /\ Books /\ Order /\ Startups /\ BootInv /\ StopInv
  BY DEF RuntimeInv
<1> USE DEF stopVars
<1>2. Types' /\ Books'
  BY <1>1 DEF Types, Books, Running, Gated
<1>3. Order'
  BY <1>1 DEF Order, Pending, Running, Gated
<1>4. Startups'
  BY <1>1 DEF Startups
<1>5. BootInv'
  BY <1>1 DEF BootInv, Sound
<1>6. StopInv'
  <2>1. PhaseInv
    BY <1>1 DEF StopInv
  <2>2. PhaseInv'
    BY <2>1, Zenon DEF PhaseInv, Closed, Running
  <2>3. QED
    BY <1>1, <2>2, Zenon DEF StopInv, Sound
<1>7. QED
  BY <1>2, <1>3, <1>4, <1>5, <1>6 DEF RuntimeInv

\* The end of an attempt.
LEMMA EndAttemptKeeps ==
    ASSUME RuntimeInv, NEW ok \in BOOLEAN, EndAttempt(ok), acts["stop"] # Idle,
           UNCHANGED <<service, startPlan, startupPending, rollbackPending, started, alive>>,
           IF ok THEN rt' = "stopped" /\ ~startupPending /\ started = {} ELSE rt' = rt
    PROVE  RuntimeInv'
<1>1. acts' = [acts EXCEPT !["stop"] = Idle] /\ UNCHANGED <<ops, physical>>
  BY DEF EndAttempt
<1>2. \A k \in Callers : callers'[k] = "returned" => ok \/ callers[k] = "returned"
  BY DEF EndAttempt
<1>3. rt # "created"
  BY DEF RuntimeInv, Startups
<1>4. rt' # "created" /\ (Ended' => Ended \/ (~startupPending /\ started = {}))
  BY <1>2, <1>3 DEF Ended
<1>5. rollbackPending' \in BOOLEAN /\ rollbackPending' = rollbackPending
  BY DEF RuntimeInv, Types
<1>6. QED
  BY <1>1, <1>4, <1>5, StopBecomes, IdleFacts, Zenon

\* The attempt goes on to a phase for which it is ready.
LEMMA EnterKeeps ==
    ASSUME RuntimeInv, acts["stop"].phase \in Groups \cup Drains,
           NEW phase \in (Groups \ {"rollback", "admission"}) \cup Drains \cup {"done"},
           Ready(phase), Enter(acts["stop"].ctx, phase),
           UNCHANGED <<service, startPlan, startupPending, started, alive>>,
           phase # "rollbackDrain" => rollbackPending' = rollbackPending,
           phase = "rollbackDrain" => rollbackPending' = FALSE,
           phase \in Groups \cup {"drain"} => ~rollbackPending
    PROVE  RuntimeInv'
<1>1. acts["stop"].ctx \in Callers /\ ~startupPending /\ acts["stop"] # Idle /\ rt # "created"
  BY IdleFacts DEF RuntimeInv, StopInv, Groups, Drains, Startups
<1>2. rollbackPending \in BOOLEAN
  BY DEF RuntimeInv, Types
<1>3. CASE phase = "done"
  <2>1. rt' = "stopped" /\ EndAttempt(TRUE)
    BY <1>3, Zenon DEF Enter, Drains
  <2>2. started = {} /\ rollbackPending' = rollbackPending
    BY <1>3 DEF Ready
  <2>3. QED
    BY <1>1, <2>1, <2>2, EndAttemptKeeps, Zenon
<1>4. CASE phase \in Drains
  <2> DEFINE y == Activity(acts["stop"].ctx, phase, {}, {}, FALSE)
  <2>1. phase # "done"
    BY <1>4 DEF Drains
  <2>2. acts' = [acts EXCEPT !["stop"] = y] /\ UNCHANGED <<rt, ops, physical, callers>>
    BY <1>4, <2>1, Zenon DEF Enter
  <2>3. y \in ActivityType /\ y.todo = {} /\ y.phase = phase /\ y.ctx = acts["stop"].ctx
    BY <1>1, <1>4, ContextFacts DEF Activity, ActivityType
  <2>4. phase = "rollbackDrain" => started = {}
    BY DEF Ready
  <2>5. Ended' => Ended
    BY <2>2 DEF Ended
  <2> HIDE DEF y
  <2>6. rollbackPending' # rollbackPending => ~rollbackPending' /\ ~startupPending /\ started = {}
    BY <1>1, <2>4
  <2>7. rollbackPending' \in BOOLEAN /\ (phase = "drain" => ~rollbackPending')
    <3>1. CASE phase = "drain"
      BY <1>2, <3>1
    <3>2. CASE phase = "rollbackDrain"
      BY <3>2, Zenon
    <3>3. QED
      BY <1>4, <3>1, <3>2 DEF Drains
  <2>8. QED
    BY <1>1, <1>4, <2>2, <2>3, <2>5, <2>6, <2>7, StopBecomes, Zenon
<1>5. CASE phase \in Groups \ {"rollback", "admission"}
  <2>1. phase \notin Drains /\ phase # "done" /\ phase # "rollbackDrain"
    BY <1>5 DEF Groups, Drains
  <2>2. Launch("stop", acts["stop"].ctx, phase, Targets(phase)) /\ UNCHANGED <<rt, callers>>
    BY <2>1, Zenon DEF Enter
  <2>3. Ended' => Ended
    BY <2>2 DEF Ended
  <2>4. QED
    BY <1>1, <1>5, <2>1, <2>2, <2>3, EnterGroup
<1>6. QED
  BY <1>3, <1>4, <1>5

(***************************************************************************)
(* Startup                                                                 *)
(***************************************************************************)

\* start() and startGraph().
LEMMA StartKeeps ==
    ASSUME RuntimeInv, NEW admission \in BOOLEAN, Start(admission), service' = service
    PROVE  RuntimeInv'
<1>1. Types /\ Books /\ Startups
  BY DEF RuntimeInv
<1>2. /\ rt = "created" /\ rt' = "starting" /\ startupPending' = TRUE
      /\ startPlan' = StartPlanOf(admission)
      /\ UNCHANGED <<rollbackPending, started, alive, ops, physical, acts, callers>>
  BY DEF Start, stopVars
<1>3. /\ started = {} /\ acts["boot"] = Idle /\ acts["stop"] = Idle
      /\ ~rollbackPending /\ \A s \in Slots : ops[s] = None
  BY <1>1, <1>2 DEF Startups
<1>4. \A x \in startPlan' : x.op = "start" => x.comp \in Components
  <2>1. service.registered \in Seq(Components)
    BY <1>1, RuntimeAssumption DEF Types, IsService
  <2>2. Range(service.registered) \subseteq Components
    BY <2>1 DEF Range
  <2>3. \A x \in startPlan' : x.op = "start" => x.comp \in Range(service.registered)
    BY <1>2 DEF StartPlanOf, Await
  <2>4. QED
    BY <2>2, <2>3
<1>5. Types' /\ Books'
  BY <1>1, <1>2, <1>4 DEF Types, Books, Running, Gated
<1>6. Order'
  BY <1>2, <1>3, SlotFacts DEF Order, Pending
<1>7. ~Ended /\ ~Ended'
  BY <1>1, <1>2 DEF Startups, Ended
<1>8. Startups'
  BY <1>2, <1>3, <1>7 DEF Startups
<1>9. BootInv'
  BY <1>2, <1>3, IdleFacts DEF BootInv
<1>10. StopInv'
  BY <1>2, <1>3, IdleFacts DEF StopInv, PhaseInv, Sound, Groups, Drains, Later
<1>11. QED
  BY <1>5, <1>6, <1>8, <1>9, <1>10 DEF RuntimeInv

\* While startOnce() is at work an attempt to stop has not begun or waits.
LEMMA StopWaits ==
    ASSUME RuntimeInv, startupPending
    PROVE  /\ acts["stop"].phase \in {"idle", "awaitStartup"}
           /\ rt # "created" /\ ~Ended
<1>1. acts["stop"] \in ActivityType
  BY DEF RuntimeInv, Types
<1>2. acts["stop"].phase \notin Groups \cup Drains
  BY DEF RuntimeInv, StopInv
<1>3. QED
  BY <1>1, <1>2 DEF RuntimeInv, Startups, ActivityType

\* Then what happens to the components does not concern it.
LEMMA WaitingStopKeeps ==
    ASSUME RuntimeInv, acts["stop"].phase \in {"idle", "awaitStartup"}, acts'["stop"] = acts["stop"]
    PROVE  StopInv'
  BY Zenon DEF RuntimeInv, StopInv, PhaseInv, Sound, Groups, Drains, Later

\* The catch block of startOnce().
LEMMA FailStartupKeeps ==
    ASSUME RuntimeInv, startPlan # {}, NEW begun \in SUBSET Components, FailStartup(begun),
           alive' = begun, UNCHANGED <<service, callers>>
    PROVE  RuntimeInv'
<1>1. Types /\ Books /\ Startups
  BY DEF RuntimeInv
<1>2. startupPending /\ ~rollbackPending /\ \A s \in Slots : ops[s] = None
  BY <1>1 DEF Startups
<1>3. /\ startPlan' = {} /\ rollbackPending' = TRUE /\ started' = begun
      /\ Launch("boot", Startup, "rollback", begun)
      /\ UNCHANGED <<rt, startupPending>>
  BY DEF FailStartup
<1> DEFINE x == acts'["boot"]
<1>4. /\ ops' \in [Slots -> Contexts \cup {None, Done}]
      /\ acts' \in [{"boot", "stop"} -> ActivityType]
      /\ acts'["stop"] = acts["stop"]
      /\ DOMAIN physical' = Slots
      /\ \A s \in Slots : physical'[s] = IF ops'[s] \in Contexts THEN 1 ELSE 0
      /\ \A s \in Slots : \/ ops'[s] = ops[s]
                          \/ /\ ops[s] = None /\ ops'[s] = Startup
                             /\ \E c \in begun : s = Slot("rollback", c)
      /\ x.ctx = Startup /\ x.phase = "rollback" /\ x.todo \subseteq begun
      /\ \A c \in begun : c \notin x.todo =>
            x.err \/ c \in x.wait \/ ops'[Slot("rollback", c)] = Done
  <2>1. "rollback" \in Groups /\ Startup \in Contexts
    BY ContextFacts DEF Groups
  <2>2. Launched("boot", Startup, "rollback", begun)
    BY <1>1, <1>3, <2>1, LaunchFacts
  <2>3. QED
    BY <2>2 DEF Launched
<1>5. \A c \in begun : Slot("rollback", c) = Full(c)
  BY SlotIs
<1>6. \A c \in Components :
        /\ ops'[Adm(c)] = None
        /\ ops'[Full(c)] = None \/ (ops'[Full(c)] = Startup /\ c \in begun)
  BY <1>2, <1>4, <1>5, SlotFacts
<1>7. Types'
  BY <1>1, <1>3, <1>4 DEF Types
<1>8. Books'
  BY <1>1, <1>3, <1>4, <1>6, ContextFacts, Zenon DEF Books, Running, Gated
<1>9. Order'
  BY <1>3, <1>6 DEF Order, Pending
<1>10. Startups'
  <2>1. ~Ended' /\ rt' # "created"
    BY <1>2, <1>3, StopWaits DEF Ended
  <2>2. QED
    BY <1>3, <2>1 DEF Startups
<1>11. BootInv'
  <2>1. \A c \in begun : ops'[Slot("rollback", c)] # Done
    BY <1>5, <1>6, ContextFacts
  <2>2. Sound(acts["boot"])'
    BY <1>3, <1>4 DEF Sound
  <2>3. TakenUp(acts'["boot"], begun)
    BY <1>4, <2>1 DEF TakenUp
  <2>4. QED
    BY <1>2, <1>3, <1>4, <2>2, <2>3 DEF BootInv
<1>12. StopInv'
  BY <1>2, <1>4, StopWaits, WaitingStopKeeps
<1>13. QED
  BY <1>7, <1>8, <1>9, <1>10, <1>11, <1>12 DEF RuntimeInv

\* An await of startOnce() resolves ...
LEMMA StartStepKeeps ==
    ASSUME RuntimeInv, NEW x \in startPlan, StartStep(x), service' = service
    PROVE  RuntimeInv'
<1>1. Types /\ Books /\ Startups
  BY DEF RuntimeInv
<1>2. startupPending /\ ~rollbackPending /\ acts["boot"] = Idle /\ \A s \in Slots : ops[s] = None
  BY <1>1 DEF Startups
<1> DEFINE begun == started \cup Starting(x)
<1>3. begun \in SUBSET Components
  BY <1>1 DEF Types, Starting
<1>4. alive' = begun /\ callers' = callers
  BY <1>1 DEF StartStep, Books
<1>5. FailStartup(begun) \/ NextAwait(x, begun)
  BY DEF StartStep
<1> HIDE DEF begun
<1>6. CASE FailStartup(begun)
  BY <1>3, <1>4, <1>6, FailStartupKeeps
<1>7. CASE NextAwait(x, begun)
  <2>1. /\ started' = begun /\ startPlan' \subseteq startPlan
        /\ rt' \in {"running", rt} /\ startupPending' = (startPlan' # {})
        /\ UNCHANGED <<rollbackPending, ops, physical, acts>>
    BY <1>7 DEF NextAwait, stopVars
  <2>2. Types' /\ Books'
    BY <1>1, <1>2, <1>3, <1>4, <2>1, SlotFacts, ContextFacts DEF Types, Books, Running, Gated
  <2>3. Order'
    BY <1>2, <2>1, SlotFacts, ContextFacts DEF Order, Running, Gated
  <2>4. Startups'
    <3>1. ~Ended' /\ rt' # "created"
      BY <1>2, <1>4, <2>1, StopWaits DEF Ended
    <3>2. QED
      BY <1>2, <2>1, <3>1, Zenon DEF Startups
  <2>5. BootInv'
    BY <1>2, <2>1, IdleFacts DEF BootInv
  <2>6. StopInv'
    BY <1>2, <2>1, StopWaits, WaitingStopKeeps
  <2>7. QED
    BY <2>2, <2>3, <2>4, <2>5, <2>6 DEF RuntimeInv
<1>8. QED
  BY <1>5, <1>6, <1>7

\* ... or rejects.
LEMMA StartStepFailsKeeps ==
    ASSUME RuntimeInv, StartStepFails, service' = service
    PROVE  RuntimeInv'
<1>1. startPlan # {} /\ FailStartup(started) /\ alive' = alive /\ callers' = callers
  BY DEF StartStepFails
<1>2. alive = started /\ started \in SUBSET Components
  BY DEF RuntimeInv, Types, Books
<1>3. QED
  BY <1>1, <1>2, FailStartupKeeps
=============================================================================
