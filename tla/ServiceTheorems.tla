--------------------------- MODULE ServiceTheorems --------------------------
(***************************************************************************)
(* The service runtime for every set of components, callers of stop() and  *)
(* services: what is stopped is released, in dependency order; and the     *)
(* task registry for every set of operations and callers of drain(): a     *)
(* drain of the closed registry is final.                                  *)
(***************************************************************************)
EXTENDS ServiceProofs

(***************************************************************************)
(* The activities that stop components                                     *)
(***************************************************************************)

\* The next round of stopSequential().
LEMMA NextGroupKeeps ==
    ASSUME RuntimeInv, NEW a \in {"boot", "stop"}, NextGroup(a), service' = service
    PROVE  RuntimeInv'
<1>1. Types /\ Books /\ Order /\ Startups /\ BootInv /\ StopInv
  BY DEF RuntimeInv
<1> DEFINE ctx == acts[a].ctx
           phase == acts[a].phase
           todo == acts[a].todo
           x == acts'[a]
<1>2. /\ phase \in Groups /\ ~acts[a].err /\ acts[a].wait = {} /\ todo # {}
      /\ Launch(a, ctx, phase, todo)
      /\ UNCHANGED <<rt, startPlan, startupPending, rollbackPending, started, alive, callers>>
  BY DEF NextGroup, startVars
<1>3. phase \in {"rollback", "telemetry"} /\ (a = "boot" => phase = "rollback")
  BY <1>1, <1>2, IdleFacts DEF BootInv, StopInv
<1>4. ctx \in Contexts /\ todo \in SUBSET Components /\ Sound(acts[a])
  BY <1>1, <1>2, <1>3, ContextFacts DEF BootInv, StopInv, Sound
<1>5. /\ phase = "rollback" => Pending
      /\ phase = "telemetry" => ~Pending
  BY <1>1, <1>2, <1>3 DEF BootInv, StopInv, Pending, Groups
<1>6. /\ ops' \in [Slots -> Contexts \cup {None, Done}]
      /\ acts' \in [{"boot", "stop"} -> ActivityType]
      /\ \A b \in {"boot", "stop"} : b # a => acts'[b] = acts[b]
      /\ DOMAIN physical' = Slots
      /\ \A s \in Slots : physical'[s] = IF ops'[s] \in Contexts THEN 1 ELSE 0
      /\ \A s \in Slots : \/ ops'[s] = ops[s]
                          \/ /\ ops[s] = None /\ ops'[s] = ctx
                             /\ \E c \in todo : s = Slot(phase, c)
      /\ x.ctx = ctx /\ x.phase = phase /\ x.drain = "no" /\ x.todo \subseteq todo
      /\ \A c \in todo : c \notin x.todo =>
            x.err \/ c \in x.wait \/ ops'[Slot(phase, c)] = Done
  <2>1. Launched(a, ctx, phase, todo)
    BY <1>1, <1>2, <1>4, LaunchFacts, Zenon
  <2>2. QED
    BY <2>1 DEF Launched
<1> HIDE DEF ctx, phase, todo, x
<1>7. \A c \in todo : Slot(phase, c) = Full(c)
  BY <1>3, <1>4, SlotIs
<1>8. \A c \in Components :
        /\ ops'[Adm(c)] = ops[Adm(c)]
        /\ \/ ops'[Full(c)] = ops[Full(c)]
           \/ ops[Full(c)] = None /\ ops'[Full(c)] = ctx /\ c \in todo /\ c \in started
  <2>1. \A c \in todo : ops[Full(c)] = None => c \in started
    BY <1>4, ContextFacts DEF Sound, todo
  <2>2. QED
    BY <1>4, <1>6, <1>7, <2>1, SlotFacts
<1>9. \A c \in Components : ops'[Full(c)] = Done => ops[Full(c)] = Done
  BY <1>4, <1>8, ContextFacts
<1>10. Types'
  BY <1>1, <1>2, <1>6 DEF Types
<1>11. Books'
  BY <1>1, <1>2, <1>6, <1>8, <1>9, Zenon DEF Books, Running, Gated
<1>12. Order'
  <2>1. CASE phase = "rollback"
    BY <1>1, <1>2, <1>5, <1>8, <2>1, Zenon DEF Order, Pending
  <2>2. CASE phase = "telemetry"
    <3>1. a = "stop"
      BY <1>3, <2>2
    <3>2. \A c \in todo : ReleaseRank(c) = 5
      BY <1>1, <2>2, <3>1 DEF StopInv, phase, todo
    <3>3. \A d \in started : ReleaseRank(d) >= 5
      BY <1>1, <2>2, <3>1 DEF StopInv, PhaseInv, Later, Reached, phase
    <3>4. \A c \in Components : Running(Full(c))' => Running(Full(c)) \/ c \in todo
      BY <1>8 DEF Running
    <3>5. QED
      BY <1>1, <1>2, <1>5, <1>8, <2>2, <3>2, <3>3, <3>4 DEF Order, Pending, Running, Gated
  <2>3. QED
    BY <1>3, <2>1, <2>2
<1>13. Startups'
  <2>1. startPlan = {} /\ rt # "created"
    BY <1>1, <1>2, <1>3, IdleFacts DEF Startups, BootInv, StopInv, Groups, phase
  <2>2. Ended' => Ended
    BY <1>2 DEF Ended
  <2>3. QED
    BY <1>1, <1>2, <2>1, <2>2 DEF Startups
<1>14. Sound(acts[a])'
  BY <1>2, <1>4, <1>6, <1>8, ContextFacts DEF Sound, x, todo
<1>15. ASSUME NEW S \in SUBSET started, TakenUp(acts[a], S) PROVE TakenUp(x, S)
  <2>1. \A c \in S : c \in todo
    BY <1>2, <1>15 DEF TakenUp, todo
  <2>2. \A c \in S : c \in Components /\ ops'[Full(c)] # Done
    BY <1>1, <1>9 DEF Types, Books
  <2>3. QED
    BY <1>6, <1>7, <2>1, <2>2 DEF TakenUp
<1>16. CASE a = "boot"
  <2>1. BootInv'
    <3>1. /\ startupPending /\ rollbackPending /\ startPlan = {} /\ ctx = Startup
          /\ TakenUp(acts[a], started)
      BY <1>1, <1>3, <1>16 DEF BootInv, ctx, phase
    <3>2. TakenUp(x, started)
      BY <1>15, <3>1
    <3>3. QED
      BY <1>2, <1>3, <1>6, <1>14, <1>16, <3>1, <3>2 DEF BootInv, x
  <2>2. StopInv'
    <3>1. startupPending
      BY <1>1, <1>3, <1>16 DEF BootInv, phase
    <3>2. acts'["stop"] = acts["stop"]
      BY <1>6, <1>16
    <3>3. QED
      BY <3>1, <3>2, StopWaits, WaitingStopKeeps
  <2>3. QED
    BY <1>10, <1>11, <1>12, <1>13, <2>1, <2>2 DEF RuntimeInv
<1>17. CASE a = "stop"
  <2>1. BootInv'
    <3>1. acts'["boot"] = acts["boot"] /\ acts["boot"] = Idle
      BY <1>1, <1>2, <1>6, <1>17, Zenon DEF BootInv, StopInv, phase
    <3>2. QED
      BY <3>1, IdleFacts DEF BootInv
  <2>2. StopInv'
    <3>1. /\ ctx \in Callers /\ ~startupPending
          /\ phase = "rollback" => rollbackPending
          /\ phase = "telemetry" => ~rollbackPending
      BY <1>1, <1>2, <1>17, IdleFacts DEF StopInv, ctx, phase, Groups
    <3>2. phase = "telemetry" => \A c \in x.todo : ReleaseRank(c) = 5
      BY <1>1, <1>6, <1>17 DEF StopInv, phase, todo
    <3>3. PhaseInv
      BY <1>1 DEF StopInv
    <3>4. phase = "rollback" => TakenUp(x, started)
      BY <1>15, <1>17, <3>3 DEF PhaseInv, phase
    <3>5. phase = "telemetry" =>
            /\ \A c \in started : ReleaseRank(c) >= Reached(phase)
            /\ \A c \in started : ReleaseRank(c) = 4 => ops'[Adm(c)] = Done
            /\ TakenUp(x, {c \in started : ReleaseRank(c) = Reached(phase)})
      <4> SUFFICES ASSUME phase = "telemetry"
                   PROVE  /\ \A c \in started : ReleaseRank(c) >= Reached(phase)
                          /\ \A c \in started : ReleaseRank(c) = 4 => ops'[Adm(c)] = Done
                          /\ TakenUp(x, {c \in started : ReleaseRank(c) = Reached(phase)})
        OBVIOUS
      <4>1. /\ \A c \in started : ReleaseRank(c) >= Reached(phase)
            /\ \A c \in started : ReleaseRank(c) = 4 => ops[Adm(c)] = Done
            /\ TakenUp(acts[a], {c \in started : ReleaseRank(c) = Reached(phase)})
        BY <1>17, <3>3 DEF PhaseInv, phase, Later
      <4>2. TakenUp(x, {c \in started : ReleaseRank(c) = Reached(phase)})
        BY <1>15, <4>1
      <4>3. started \subseteq Components
        BY <1>1 DEF Types
      <4>4. QED
        BY <1>8, <4>1, <4>2, <4>3
    <3>6. PhaseInv'
      BY <1>2, <1>3, <1>6, <1>17, <3>4, <3>5, Zenon DEF PhaseInv, x, Later
    <3>7. QED
      BY <1>2, <1>3, <1>6, <1>14, <1>17, <3>1, <3>2, <3>6 DEF StopInv, x, Groups, Drains
  <2>3. QED
    BY <1>10, <1>11, <1>12, <1>13, <2>1, <2>2 DEF RuntimeInv
<1>18. QED
  BY <1>16, <1>17

\* startOnce() leaves through its catch and finally blocks.
LEMMA EndStartupKeeps ==
    ASSUME RuntimeInv, acts["boot"].phase \in Groups, NEW ok \in BOOLEAN, EndStartup(ok),
           ok => started = {},
           UNCHANGED <<service, startPlan, started, alive, callers>>
    PROVE  RuntimeInv'
<1>1. Types /\ Books /\ Order /\ Startups /\ BootInv
  BY DEF RuntimeInv
<1>2. /\ rollbackPending' = ~ok /\ startupPending' = FALSE
      /\ rt' \in {"stopped", "stopping"} /\ (rt' = "stopped" => started = {})
      /\ acts' = [acts EXCEPT !["boot"] = Idle] /\ UNCHANGED <<ops, physical>>
  BY DEF EndStartup
<1>3. startupPending /\ rollbackPending /\ startPlan = {}
  BY <1>1 DEF BootInv, Groups
<1>4. /\ acts' \in [{"boot", "stop"} -> ActivityType]
      /\ acts'["boot"] = Idle /\ acts'["stop"] = acts["stop"]
  BY <1>1, <1>2, IdleFacts DEF Types
<1>5. Types' /\ Books'
  BY <1>1, <1>2, <1>4, Zenon DEF Types, Books, Running, Gated
<1>6. Order'
  <2>1. \A c \in Components : ops[Adm(c)] = None
    BY <1>1, <1>3 DEF Order, Pending
  <2>2. ok => \A c \in Components : ~Running(Full(c)) /\ ~Running(Adm(c))
    BY <1>1 DEF Books
  <2>3. QED
    BY <1>2, <2>1, <2>2, ContextFacts, Zenon DEF Order, Pending, Running, Gated
<1>7. Startups'
  <2>1. ~Ended
    BY <1>3, StopWaits
  <2>2. Ended' => started = {}
    BY <1>2, <2>1 DEF Ended
  <2>3. QED
    BY <1>2, <1>3, <2>2 DEF Startups
<1>8. BootInv'
  BY <1>4, IdleFacts DEF BootInv
<1>9. StopInv'
  BY <1>3, <1>4, StopWaits, WaitingStopKeeps
<1>10. QED
  BY <1>5, <1>6, <1>7, <1>8, <1>9 DEF RuntimeInv

\* A phase of an attempt that is done has made the next one possible.
LEMMA NextIsReady ==
    ASSUME RuntimeInv, acts["stop"].phase \in Groups, acts["stop"].wait = {},
           ~acts["stop"].err, acts["stop"].todo = {}
    PROVE  Ready(PhaseAfter(acts["stop"].phase))
<1> DEFINE x == acts["stop"]
<1>1. PhaseInv /\ started \subseteq Components /\ service \in Services
  BY DEF RuntimeInv, StopInv, Types
<1>2. \A c \in started : ReleaseRank(c) \in 1..5 /\ (ReleaseRank(c) = 4 => c \in service.withAdmission)
  BY <1>1, Ranks, ManagedIsGated
<1>3. CASE x.phase = "admission"
  BY <1>1, <1>3 DEF PhaseInv, Closed, PhaseAfter, Ready, Later
<1>4. CASE x.phase = "producers"
  BY <1>1, <1>2, <1>4 DEF PhaseInv, TakenUp, PhaseAfter, Ready, Later
<1>5. CASE x.phase = "managedAdmission"
  BY <1>1, <1>2, <1>5 DEF PhaseInv, Closed, PhaseAfter, Ready, Later, Reached
<1>6. CASE x.phase \in {"pools", "sinks", "managed"}
  <2>1. /\ \A c \in started : ReleaseRank(c) >= Reached(x.phase) /\ ReleaseRank(c) # Reached(x.phase)
        /\ \A c \in started : ReleaseRank(c) = 4 => ops[Adm(c)] = Done
    BY <1>1, <1>6 DEF PhaseInv, TakenUp, Later
  <2>2. CASE x.phase = "pools"
    BY <1>2, <2>1, <2>2 DEF PhaseAfter, Ready, Later, Reached
  <2>3. CASE x.phase = "sinks"
    BY <1>2, <2>1, <2>3 DEF PhaseAfter, Ready, Later, Reached
  <2>4. CASE x.phase = "managed"
    BY <1>2, <2>1, <2>4 DEF PhaseAfter, Ready, Later, Reached
  <2>5. QED
    BY <1>6, <2>2, <2>3, <2>4
<1>7. CASE x.phase = "telemetry"
  BY <1>1, <1>2, <1>7 DEF PhaseInv, TakenUp, PhaseAfter, Ready, Later, Reached
<1>8. CASE x.phase = "rollback"
  BY <1>1, <1>8 DEF PhaseInv, TakenUp, PhaseAfter, Ready, Later
<1>9. QED
  BY <1>3, <1>4, <1>5, <1>6, <1>7, <1>8 DEF Groups

\* The order of the phases.
LEMMA PhaseOrder ==
    /\ \A phase \in Groups : PhaseAfter(phase) \in (Groups \ {"rollback", "admission"}) \cup Drains \cup {"done"}
    /\ \A phase \in Groups :
        /\ PhaseAfter(phase) = "rollbackDrain" <=> phase = "rollback"
        /\ PhaseAfter(phase) = "done" => phase = "telemetry"
    /\ PhaseAfter("drain") = "sinks" /\ PhaseAfter("rollbackDrain") = "done"
  BY DEF PhaseAfter, Groups, Drains

\* A phase is done.
LEMMA PhaseDoneKeeps ==
    ASSUME RuntimeInv, NEW a \in {"boot", "stop"}, PhaseDone(a), service' = service
    PROVE  RuntimeInv'
<1>1. /\ acts[a].phase \in Groups /\ acts[a].wait = {} /\ ~acts[a].err /\ acts[a].todo = {}
      /\ UNCHANGED <<startPlan, started, alive>>
  BY DEF PhaseDone
<1>2. CASE a = "boot"
  <2>1. EndStartup(TRUE) /\ callers' = callers
    BY <1>2, Zenon DEF PhaseDone
  <2>2. started = {}
    BY <1>1, <1>2 DEF RuntimeInv, BootInv, TakenUp, Groups
  <2>3. QED
    BY <1>1, <1>2, <2>1, <2>2, EndStartupKeeps, Zenon
<1>3. CASE a = "stop"
  <2> DEFINE phase == PhaseAfter(acts["stop"].phase)
  <2>1. /\ Enter(acts["stop"].ctx, phase) /\ startupPending' = startupPending
        /\ rollbackPending' = (rollbackPending /\ acts["stop"].phase # "rollback")
    BY <1>3 DEF PhaseDone
  <2>2. Ready(phase)
    BY <1>1, <1>3, NextIsReady
  <2>3. /\ phase \in (Groups \ {"rollback", "admission"}) \cup Drains \cup {"done"}
        /\ phase = "rollbackDrain" <=> acts["stop"].phase = "rollback"
    BY <1>1, <1>3, PhaseOrder
  <2>4. acts["stop"].phase # "rollback" => ~rollbackPending
    BY <1>1, <1>3 DEF RuntimeInv, StopInv
  <2>5. rollbackPending \in BOOLEAN
    BY DEF RuntimeInv, Types
  <2>6. "rollbackDrain" \notin Groups \cup {"drain"}
    BY DEF Groups
  <2> HIDE DEF phase
  <2>7. /\ phase # "rollbackDrain" => rollbackPending' = rollbackPending
        /\ phase = "rollbackDrain" => rollbackPending' = FALSE
        /\ phase \in Groups \cup {"drain"} => ~rollbackPending
    BY <2>1, <2>3, <2>4, <2>5, <2>6, Zenon
  <2>8. QED
    BY <1>1, <1>3, <2>1, <2>2, <2>3, <2>7, EnterKeeps, Zenon
<1>4. QED
  BY <1>2, <1>3

\* A stop of the phase failed, or the context ended the wait.
LEMMA PhaseFailsKeeps ==
    ASSUME RuntimeInv, NEW a \in {"boot", "stop"}, PhaseFails(a), service' = service
    PROVE  RuntimeInv'
<1>1. acts[a].phase \in Groups /\ UNCHANGED <<startPlan, started, alive>>
  BY DEF PhaseFails
<1>2. CASE a = "boot"
  BY <1>1, <1>2, EndStartupKeeps, Zenon DEF PhaseFails
<1>3. CASE a = "stop"
  <2>1. EndAttempt(FALSE) /\ UNCHANGED <<rt, rollbackPending, startupPending>>
    BY <1>3, Zenon DEF PhaseFails
  <2>2. acts["stop"] # Idle
    BY <1>1, <1>3, IdleFacts DEF Groups
  <2>3. QED
    BY <1>1, <2>1, <2>2, EndAttemptKeeps, Zenon
<1>4. QED
  BY <1>2, <1>3

(***************************************************************************)
(* The operations of components settle                                     *)
(***************************************************************************)

\* Who waits for a slot that is running is at work under a context of its own.
LEMMA WaiterFacts ==
    ASSUME RuntimeInv, NEW a \in {"boot", "stop"}, acts[a].wait # {}
    PROVE  acts[a].ctx \in Contexts
  BY IdleFacts, ContextFacts DEF RuntimeInv, BootInv, StopInv

\* While an operation runs the start is over, or has failed.
LEMMA RunningFacts ==
    ASSUME RuntimeInv, NEW s \in Slots, Running(s)
    PROVE  startPlan = {} /\ rt # "created" /\ ~Ended
<1>1. PICK c \in Components : s = Full(c) \/ s = Adm(c)
  BY SlotFacts
<1>2. c \in started
  BY <1>1 DEF RuntimeInv, Books
<1>3. QED
  BY <1>2, ContextFacts DEF RuntimeInv, Startups, Running

\* What an attempt has reached survives when components leave #started, when
\* what is done stays done and when what it waits for is done or reported.
LEMMA PhaseKeeps ==
    ASSUME PhaseInv, service' = service, started' \subseteq started,
           acts'["stop"].phase = acts["stop"].phase,
           acts["stop"].err => acts'["stop"].err,
           \A d \in started' : ops[Adm(d)] = Done => ops'[Adm(d)] = Done,
           ~acts'["stop"].err => \A d \in started' :
                /\ /\ acts["stop"].phase \in {"admission", "managedAdmission"}
                      /\ d \in service.withAdmission /\ Closed(acts["stop"], d)
                   => Closed(acts["stop"], d)'
                /\ acts["stop"].phase = "admission" /\ d \notin service.withAdmission
                      /\ d \in acts["stop"].wait => d \in acts'["stop"].wait
                /\ acts["stop"].phase \notin {"admission", "managedAdmission"}
                      /\ d \in acts["stop"].wait \cup acts["stop"].todo
                   => d \in acts'["stop"].wait \cup acts'["stop"].todo,
           \A d \in started : ReleaseRank(d) = 4 => d \in service.withAdmission
    PROVE  PhaseInv'
<1> DEFINE x == acts["stop"]
           y == acts'["stop"]
<1>1. y.phase = "admission" /\ ~y.err =>
        \A c \in started' : ReleaseRank(c) = 1 =>
            IF c \in service'.withAdmission THEN Closed(acts["stop"], c)' ELSE c \in y.wait
  BY DEF PhaseInv
<1>2. y.phase = "producers" =>
        /\ \A c \in started' : ReleaseRank(c) = 1 => c \in service'.withAdmission /\ ops'[Adm(c)] = Done
        /\ TakenUp(y, {c \in started' : ReleaseRank(c) = 1})
  BY DEF PhaseInv, TakenUp
<1>3. y.phase = "managedAdmission" =>
        /\ \A c \in started' : ReleaseRank(c) >= 2
        /\ ~y.err => \A c \in started' : ReleaseRank(c) = 4 => Closed(acts["stop"], c)'
  BY DEF PhaseInv
<1>4. y.phase \in Later =>
        /\ \A c \in started' : ReleaseRank(c) >= Reached(y.phase)
        /\ \A c \in started' : ReleaseRank(c) = 4 => ops'[Adm(c)] = Done
        /\ y.phase # "drain" =>
            TakenUp(y, {c \in started' : ReleaseRank(c) = Reached(y.phase)})
  BY DEF PhaseInv, TakenUp, Later
<1>5. y.phase = "rollback" => TakenUp(y, started')
  BY DEF PhaseInv, TakenUp
<1>6. y.phase = "rollbackDrain" => started' = {}
  BY DEF PhaseInv
<1>7. QED
  BY <1>1, <1>2, <1>3, <1>4, <1>5, <1>6 DEF PhaseInv, TakenUp

\* stop() of a component resolves.
LEMMA FullSucceeds ==
    ASSUME RuntimeInv, NEW c \in Components, OpSucceeds(Full(c)), service' = service
    PROVE  RuntimeInv'
<1>1. Types /\ Books /\ Order /\ Startups /\ BootInv /\ StopInv
  BY DEF RuntimeInv
<1>2. Full(c) \in Slots /\ Adm(c) \in Slots /\ Full(c)[1] = "full" /\ Full(c)[2] = c /\ Adm(c) # Full(c)
  BY SlotFacts
<1>3. /\ Running(Full(c))
      /\ ops' = [s \in Slots |-> CASE s = Full(c) -> Done
                                   [] s = Adm(c) /\ Full(c)[1] = "full" -> None
                                   [] OTHER -> ops[s]]
      /\ started' = started \ {c} /\ alive' = alive \ {c}
      /\ acts' = [a \in DOMAIN acts |->
            IF Slot(acts[a].phase, c) = Full(c)
            THEN [acts[a] EXCEPT !.wait = @ \ {c}] ELSE acts[a]]
      /\ physical' = [physical EXCEPT ![Full(c)] = @ - 1]
      /\ UNCHANGED <<rt, startPlan, startupPending, rollbackPending, callers>>
  BY <1>2 DEF OpSucceeds, startVars, Running, Adm
<1>4. \A s \in Slots : ops'[s] = IF s = Full(c) THEN Done ELSE IF s = Adm(c) THEN None ELSE ops[s]
  BY <1>2, <1>3
<1>5. \A d \in Components :
        /\ ops'[Full(d)] = IF d = c THEN Done ELSE ops[Full(d)]
        /\ ops'[Adm(d)] = IF d = c THEN None ELSE ops[Adm(d)]
  BY <1>4, SlotFacts
<1>6. ~Running(Adm(c))
  BY <1>1, <1>3, ContextFacts DEF Order, Books, Running
<1>7. \A a \in {"boot", "stop"} :
        /\ acts'[a] \in ActivityType
        /\ acts'[a].ctx = acts[a].ctx /\ acts'[a].phase = acts[a].phase
        /\ acts'[a].todo = acts[a].todo /\ acts'[a].err = acts[a].err
        /\ acts'[a].drain = acts[a].drain
        /\ \A d \in acts[a].wait : d = c \/ d \in acts'[a].wait
        /\ acts[a].wait = {} => acts'[a] = acts[a]
  <2> SUFFICES ASSUME NEW a \in {"boot", "stop"}
               PROVE  /\ acts'[a] \in ActivityType
                      /\ acts'[a].ctx = acts[a].ctx /\ acts'[a].phase = acts[a].phase
                      /\ acts'[a].todo = acts[a].todo /\ acts'[a].err = acts[a].err
                      /\ acts'[a].drain = acts[a].drain
                      /\ \A d \in acts[a].wait : d = c \/ d \in acts'[a].wait
                      /\ acts[a].wait = {} => acts'[a] = acts[a]
    OBVIOUS
  <2>1. acts[a] \in ActivityType /\ a \in DOMAIN acts
    BY <1>1 DEF Types
  <2>2. acts'[a] \in {acts[a], [acts[a] EXCEPT !.wait = @ \ {c}]}
    BY <1>3, <2>1
  <2>3. acts[a].wait = {} => [acts[a] EXCEPT !.wait = @ \ {c}] = acts[a]
    BY <2>1 DEF ActivityType
  <2>4. QED
    BY <2>1, <2>2, <2>3 DEF ActivityType
<1>8. acts' \in [{"boot", "stop"} -> ActivityType]
  BY <1>1, <1>3, <1>7 DEF Types
<1>9. ops' \in [Slots -> Contexts \cup {None, Done}]
  BY <1>1, <1>3, <1>4 DEF Types
<1>10. Types'
  BY <1>1, <1>3, <1>8, <1>9 DEF Types
<1>11. /\ DOMAIN physical' = Slots
       /\ \A s \in Slots : physical'[s] = IF ops'[s] \in Contexts THEN 1 ELSE 0
  BY <1>1, <1>2, <1>3, <1>4, <1>6, ContextFacts DEF Books, Running
<1>12. Books'
  BY <1>1, <1>3, <1>5, <1>11, ContextFacts DEF Books, Running, Gated
<1>13. Order'
  BY <1>1, <1>3, <1>5, ContextFacts DEF Order, Pending, Running, Gated
<1>14. Startups'
  BY <1>2, <1>3, RunningFacts DEF Startups, Ended
<1>15. \A a \in {"boot", "stop"} : \A S \in SUBSET started :
            TakenUp(acts[a], S) => TakenUp(acts'[a], S \ {c})
  BY <1>7 DEF TakenUp
<1>16. \A a \in {"boot", "stop"} : \A d \in acts[a].todo :
            d \in Components /\ (d \in started \/ ops[Full(d)] = Done)
            => d \in Components /\ (d \in started' \/ ops'[Full(d)] = Done)
  BY <1>3, <1>5, Zenon
<1>17. BootInv'
  <2>1. acts["boot"] = Idle => acts'["boot"] = Idle
    BY <1>7, IdleFacts
  <2>2. QED
    BY <1>1, <1>3, <1>7, <1>15, <1>16, <2>1, Zenon DEF BootInv, Sound
<1>18. StopInv'
  <2>1. acts["stop"] = Idle => acts'["stop"] = Idle
    BY <1>7, IdleFacts
  <2>2. \A d \in started' : d \in started /\ d # c /\ d \in Components /\ ops'[Adm(d)] = ops[Adm(d)]
    BY <1>1, <1>3, <1>5 DEF Types
  <2>3. PhaseInv'
    <3>1. \A d \in started : ReleaseRank(d) = 4 => d \in service.withAdmission
      BY <1>1, ManagedIsGated DEF Types
    <3>2. PhaseInv
      BY <1>1 DEF StopInv
    <3>3. \A d \in started' : Closed(acts["stop"], d) => Closed(acts["stop"], d)'
      BY <1>7, <2>2 DEF Closed, Running
    <3>4. QED
      BY <1>3, <1>7, <2>2, <3>1, <3>2, <3>3, PhaseKeeps, Zenon
  <2>4. QED
    BY <1>1, <1>3, <1>7, <1>16, <2>1, <2>3, Zenon DEF StopInv, Sound
<1>19. QED
  BY <1>10, <1>12, <1>13, <1>14, <1>17, <1>18 DEF RuntimeInv

\* stopAdmission() of a component resolves.
LEMMA AdmSucceeds ==
    ASSUME RuntimeInv, NEW c \in Components, OpSucceeds(Adm(c)), service' = service
    PROVE  RuntimeInv'
<1>1. Types /\ Books /\ Order /\ Startups /\ BootInv /\ StopInv
  BY DEF RuntimeInv
<1>2. Adm(c) \in Slots /\ Adm(c)[1] = "admission" /\ Adm(c)[2] = c
  BY SlotFacts
<1>3. /\ Running(Adm(c))
      /\ ops' = [s \in Slots |-> CASE s = Adm(c) -> Done
                                   [] s = Adm(c) /\ Adm(c)[1] = "full" -> None
                                   [] OTHER -> ops[s]]
      /\ acts' = [a \in DOMAIN acts |->
            IF Slot(acts[a].phase, c) = Adm(c)
            THEN [acts[a] EXCEPT !.wait = @ \ {c}] ELSE acts[a]]
      /\ physical' = [physical EXCEPT ![Adm(c)] = @ - 1]
      /\ UNCHANGED <<rt, startPlan, startupPending, rollbackPending, started, alive, callers>>
  BY <1>2 DEF OpSucceeds, startVars, Running, Adm
<1>4. \A s \in Slots : ops'[s] = IF s = Adm(c) THEN Done ELSE ops[s]
  BY <1>2, <1>3
<1>5. \A d \in Components :
        /\ ops'[Full(d)] = ops[Full(d)]
        /\ ops'[Adm(d)] = IF d = c THEN Done ELSE ops[Adm(d)]
  BY <1>4, SlotFacts
<1>6. Gated(c)
  BY <1>1, <1>3, ContextFacts DEF Books, Running
<1>7. \A a \in {"boot", "stop"} :
        /\ acts'[a] \in ActivityType
        /\ acts'[a].ctx = acts[a].ctx /\ acts'[a].phase = acts[a].phase
        /\ acts'[a].todo = acts[a].todo /\ acts'[a].err = acts[a].err
        /\ acts'[a].drain = acts[a].drain
        /\ \A d \in acts[a].wait : d = c \/ d \in acts'[a].wait
        /\ acts[a].phase \notin {"admission", "managedAdmission"} => acts'[a] = acts[a]
  <2> SUFFICES ASSUME NEW a \in {"boot", "stop"}
               PROVE  /\ acts'[a] \in ActivityType
                      /\ acts'[a].ctx = acts[a].ctx /\ acts'[a].phase = acts[a].phase
                      /\ acts'[a].todo = acts[a].todo /\ acts'[a].err = acts[a].err
                      /\ acts'[a].drain = acts[a].drain
                      /\ \A d \in acts[a].wait : d = c \/ d \in acts'[a].wait
                      /\ acts[a].phase \notin {"admission", "managedAdmission"} => acts'[a] = acts[a]
    OBVIOUS
  <2>1. acts[a] \in ActivityType /\ a \in DOMAIN acts
    BY <1>1 DEF Types
  <2>2. acts'[a] \in {acts[a], [acts[a] EXCEPT !.wait = @ \ {c}]}
    BY <1>3, <2>1
  <2>3. acts[a].phase \notin {"admission", "managedAdmission"} => acts'[a] = acts[a]
    BY <1>3, <2>1, SlotIs, SlotFacts
  <2>4. QED
    BY <2>1, <2>2, <2>3 DEF ActivityType
<1>8. acts' \in [{"boot", "stop"} -> ActivityType]
  BY <1>1, <1>3, <1>7 DEF Types
<1>9. ops' \in [Slots -> Contexts \cup {None, Done}]
  BY <1>1, <1>3, <1>4 DEF Types
<1>10. Types'
  BY <1>1, <1>3, <1>8, <1>9 DEF Types
<1>11. /\ DOMAIN physical' = Slots
       /\ \A s \in Slots : physical'[s] = IF ops'[s] \in Contexts THEN 1 ELSE 0
  BY <1>1, <1>2, <1>3, <1>4, ContextFacts DEF Books, Running
<1>12. Books'
  BY <1>1, <1>3, <1>5, <1>6, <1>11, ContextFacts DEF Books, Running, Gated
<1>13. Order'
  BY <1>1, <1>3, <1>5, ContextFacts DEF Order, Pending, Running, Gated
<1>14. Startups'
  BY <1>2, <1>3, RunningFacts DEF Startups, Ended
<1>15. BootInv'
  <2>1. acts'["boot"] = acts["boot"]
    BY <1>1, <1>7 DEF BootInv
  <2>2. QED
    BY <1>1, <1>3, <1>5, <2>1, Zenon DEF BootInv, Sound
<1>16. StopInv'
  <2>1. acts["stop"] = Idle => acts'["stop"] = Idle
    BY <1>7, IdleFacts
  <2>2. \A d \in started : d \in Components
    BY <1>1 DEF Types
  <2>3. PhaseInv'
    <3>1. \A d \in started : ReleaseRank(d) = 4 => d \in service.withAdmission
      BY <1>1, ManagedIsGated DEF Types
    <3>2. PhaseInv
      BY <1>1 DEF StopInv
    <3>3. \A d \in started : Closed(acts["stop"], d) => Closed(acts["stop"], d)'
      BY <1>5, <1>7, <2>2 DEF Closed, Running
    <3>4. \A d \in started : ops[Adm(d)] = Done => ops'[Adm(d)] = Done
      BY <1>5, <2>2
    <3>5. \A d \in started : d \notin service.withAdmission /\ d \in acts["stop"].wait => d \in acts'["stop"].wait
      BY <1>6, <1>7 DEF Gated
    <3>6. QED
      BY <1>3, <1>7, <3>1, <3>2, <3>3, <3>4, <3>5, PhaseKeeps, Zenon
  <2>4. QED
    BY <1>1, <1>3, <1>5, <1>7, <2>1, <2>3, Zenon DEF StopInv, Sound
<1>17. QED
  BY <1>10, <1>12, <1>13, <1>14, <1>15, <1>16 DEF RuntimeInv

\* stop() or stopAdmission() of a component rejects.
LEMMA OpFailsKeeps ==
    ASSUME RuntimeInv, NEW slot \in Slots, NEW byContext \in BOOLEAN, OpFails(slot, byContext),
           service' = service
    PROVE  RuntimeInv'
<1>1. Types /\ Books /\ Order /\ Startups /\ BootInv /\ StopInv
  BY DEF RuntimeInv
<1> DEFINE again == {a \in DOMAIN acts : Rejoins(a, slot, byContext)}
           told == {a \in DOMAIN acts \ again :
                       slot[2] \in acts[a].wait /\ Slot(acts[a].phase, slot[2]) = slot}
           next == IF again = {} THEN None ELSE acts[CHOOSE a \in again : TRUE].ctx
<1>2. /\ Running(slot)
      /\ ops' = [ops EXCEPT ![slot] = next]
      /\ physical' = [physical EXCEPT ![slot] = IF again = {} THEN @ - 1 ELSE @]
      /\ acts' = [a \in DOMAIN acts |->
            IF a \in told
            THEN [acts[a] EXCEPT !.wait = @ \ {slot[2]}, !.err = TRUE] ELSE acts[a]]
      /\ UNCHANGED <<rt, startPlan, startupPending, rollbackPending, started, alive, callers>>
  BY Zenon DEF OpFails, startVars, Running
<1>3. DOMAIN acts = {"boot", "stop"}
  BY <1>1 DEF Types
<1>4. again # {} => next \in Contexts
  <2>1. \A a \in again : acts[a].ctx \in Contexts
    BY <1>3, WaiterFacts DEF Rejoins
  <2>2. QED
    BY <2>1
<1>5. \A a \in {"boot", "stop"} :
        /\ acts'[a] \in ActivityType
        /\ acts'[a].ctx = acts[a].ctx /\ acts'[a].phase = acts[a].phase
        /\ acts'[a].todo = acts[a].todo /\ acts'[a].drain = acts[a].drain
        /\ IF a \in told THEN acts'[a].err ELSE acts'[a] = acts[a]
  <2> SUFFICES ASSUME NEW a \in {"boot", "stop"}
               PROVE  /\ acts'[a] \in ActivityType
                      /\ acts'[a].ctx = acts[a].ctx /\ acts'[a].phase = acts[a].phase
                      /\ acts'[a].todo = acts[a].todo /\ acts'[a].drain = acts[a].drain
                      /\ IF a \in told THEN acts'[a].err ELSE acts'[a] = acts[a]
    OBVIOUS
  <2> HIDE DEF again, told, next
  <2> DEFINE y == [acts[a] EXCEPT !.wait = @ \ {slot[2]}, !.err = TRUE]
  <2>1. acts[a] \in ActivityType
    BY <1>1 DEF Types
  <2>2. y \in ActivityType /\ y.ctx = acts[a].ctx /\ y.phase = acts[a].phase /\ y.todo = acts[a].todo
        /\ y.drain = acts[a].drain /\ y.err
    BY <2>1, Zenon DEF ActivityType
  <2>3. acts'[a] = IF a \in told THEN y ELSE acts[a]
    BY <1>2, <1>3
  <2> HIDE DEF y
  <2>4. QED
    BY <2>1, <2>2, <2>3
<1>6. again = {} => next = None
  OBVIOUS
<1>7. \A a \in {"boot", "stop"} : acts[a].wait = {} => acts'[a] = acts[a]
  BY <1>5
<1> HIDE DEF next, told, again
<1>8. ops' \in [Slots -> Contexts \cup {None, Done}] /\ acts' \in [{"boot", "stop"} -> ActivityType]
  BY <1>1, <1>2, <1>3, <1>4, <1>5, <1>6 DEF Types
<1>9. /\ DOMAIN physical' = Slots
      /\ \A s \in Slots : physical'[s] = IF ops'[s] \in Contexts THEN 1 ELSE 0
  <2>1. physical[slot] = 1 /\ ops'[slot] = next /\ \A s \in Slots : s # slot => ops'[s] = ops[s]
    BY <1>1, <1>2, Zenon DEF Books, Types, Running
  <2>2. physical'[slot] = IF ops'[slot] \in Contexts THEN 1 ELSE 0
    <3>1. slot \in DOMAIN physical
      BY <1>1 DEF Books
    <3>2. physical'[slot] = IF again = {} THEN physical[slot] - 1 ELSE physical[slot]
      BY <1>2, <3>1, Zenon
    <3>3. CASE again = {}
      BY <1>6, <2>1, <3>2, <3>3, ContextFacts
    <3>4. CASE again # {}
      BY <1>4, <2>1, <3>2, <3>4
    <3>5. QED
      BY <3>3, <3>4
  <2>3. QED
    BY <1>1, <1>2, <2>1, <2>2, Zenon DEF Books, Running
<1>10. \A s \in Slots : /\ s # slot => ops'[s] = ops[s]
                        /\ s = slot => ops[s] \in Contexts /\ ops'[s] = next
  BY <1>1, <1>2, Zenon DEF Types, Running
<1>11. next # Done
  BY <1>4, <1>6, ContextFacts
<1>12. \A s \in Slots :
        /\ ops'[s] = Done <=> ops[s] = Done
        /\ ops'[s] \in Contexts => ops[s] \in Contexts
        /\ ops[s] = None => ops'[s] = None
  BY <1>10, <1>11, ContextFacts
<1>13. \A c \in Components : Full(c) \in Slots /\ Adm(c) \in Slots
  BY SlotFacts
<1>14. Types'
  BY <1>1, <1>2, <1>8, Zenon DEF Types
<1>15. Books'
  BY <1>1, <1>2, <1>9, <1>12, <1>13, Zenon DEF Books, Running, Gated
<1>16. Order'
  BY <1>1, <1>2, <1>12, <1>13, Zenon DEF Order, Pending, Running, Gated
<1>17. Startups'
  BY <1>2, RunningFacts, Zenon DEF Startups, Ended
<1>18. ASSUME NEW a \in {"boot", "stop"}, ~acts'[a].err PROVE acts'[a] = acts[a]
  BY <1>5, <1>18
<1>19. BootInv'
  <2>1. acts["boot"] = Idle => acts'["boot"] = Idle
    BY <1>7, IdleFacts
  <2>2. TakenUp(acts["boot"], started) => TakenUp(acts'["boot"], started)
    BY <1>18 DEF TakenUp
  <2>3. QED
    BY <1>1, <1>2, <1>5, <1>12, <1>13, <2>1, <2>2, Zenon DEF BootInv, Sound
<1>20. StopInv'
  <2>1. acts["stop"] = Idle => acts'["stop"] = Idle
    BY <1>7, IdleFacts
  <2>2. \A d \in started : d \in Components
    BY <1>1 DEF Types
  <2>3. ~acts'["stop"].err => \A d \in started :
            /\ acts["stop"].phase \in {"admission", "managedAdmission"}
            /\ d \in service.withAdmission /\ Closed(acts["stop"], d)
            => Closed(acts["stop"], d)'
    <3> SUFFICES ASSUME ~acts'["stop"].err, NEW d \in started, d \in service.withAdmission,
                        acts["stop"].phase \in {"admission", "managedAdmission"},
                        Closed(acts["stop"], d)
                 PROVE  Closed(acts["stop"], d)'
      OBVIOUS
    <3>1. acts'["stop"] = acts["stop"] /\ "stop" \notin told
      BY <1>5
    <3>2. CASE ops[Adm(d)] = Done
      BY <1>12, <1>13, <2>2, <3>2 DEF Closed
    <3>3. CASE ops[Adm(d)] \in Contexts /\ d \in acts["stop"].wait
      <4>1. CASE slot = Adm(d)
        <5>1. slot[2] = d /\ Slot(acts["stop"].phase, d) = slot
          BY <2>2, <4>1, SlotFacts, SlotIs
        <5>2. "stop" \in again
          BY <1>3, <3>1, <3>3, <5>1 DEF told
        <5>3. QED
          BY <1>4, <1>10, <3>1, <3>3, <4>1, <5>2 DEF Closed, Running
      <4>2. CASE slot # Adm(d)
        BY <1>10, <1>13, <2>2, <3>1, <3>3, <4>2 DEF Closed, Running
      <4>3. QED
        BY <4>1, <4>2
    <3>4. QED
      BY <3>2, <3>3 DEF Closed, Running
  <2>4. PhaseInv'
    <3>1. \A d \in started : ReleaseRank(d) = 4 => d \in service.withAdmission
      BY <1>1, ManagedIsGated DEF Types
    <3>2. PhaseInv
      BY <1>1 DEF StopInv
    <3>3. \A d \in started : ops[Adm(d)] = Done => ops'[Adm(d)] = Done
      BY <1>12, <1>13, <2>2
    <3>4. acts["stop"].err => acts'["stop"].err
      BY <1>5
    <3>5. ~acts'["stop"].err => acts'["stop"] = acts["stop"]
      BY <1>18
    <3>6. QED
      BY <1>2, <1>5, <2>3, <3>1, <3>2, <3>3, <3>4, <3>5, PhaseKeeps, Zenon
  <2>5. QED
    BY <1>1, <1>2, <1>5, <1>12, <1>13, <2>1, <2>4, Zenon DEF StopInv, Sound
<1>21. QED
  BY <1>14, <1>15, <1>16, <1>17, <1>19, <1>20 DEF RuntimeInv

(***************************************************************************)
(* The attempt to stop, and its callers                                    *)
(***************************************************************************)

\* stopOnce() goes on after the startup.
LEMMA StartupSettlesKeeps ==
    ASSUME RuntimeInv, StartupSettles, service' = service
    PROVE  RuntimeInv'
<1>1. /\ acts["stop"].phase = "awaitStartup" /\ ~startupPending
      /\ Enter(acts["stop"].ctx, FirstPhase)
      /\ UNCHANGED <<startPlan, startupPending, rollbackPending, started, alive>>
  BY DEF StartupSettles, startVars
<1>2. acts["stop"].ctx \in Callers /\ rt # "created"
  BY <1>1, IdleFacts DEF RuntimeInv, StopInv, Startups
<1>3. /\ FirstPhase \in Groups /\ FirstPhase \notin Drains /\ FirstPhase # "done"
      /\ FirstPhase = "rollback" <=> rollbackPending
      /\ Ready(FirstPhase)
  BY DEF FirstPhase, Groups, Drains, Ready, Later
<1>4. Launch("stop", acts["stop"].ctx, FirstPhase, Targets(FirstPhase)) /\ UNCHANGED <<rt, callers>>
  BY <1>1, <1>3, Zenon DEF Enter
<1>5. Ended' => Ended
  BY <1>4 DEF Ended
<1>6. QED
  BY <1>1, <1>2, <1>3, <1>4, <1>5, EnterGroup

\* The context ends the wait for the startup or for the drain.
LEMMA AttemptExpiresKeeps ==
    ASSUME RuntimeInv, AttemptExpires, service' = service
    PROVE  RuntimeInv'
<1>1. /\ EndAttempt(FALSE)
      /\ acts["stop"].phase = "awaitStartup" \/ acts["stop"].drain # "no"
      /\ UNCHANGED <<rt, startPlan, startupPending, rollbackPending, started, alive>>
  BY Zenon DEF AttemptExpires, startVars
<1>2. acts["stop"] # Idle
  BY <1>1, IdleFacts
<1>3. QED
  BY <1>1, <1>2, EndAttemptKeeps, Zenon

\* The registry's drain is over: on to the next phase.
LEMMA DrainDone ==
    ASSUME RuntimeInv, acts["stop"].drain # "no",
           Enter(acts["stop"].ctx, PhaseAfter(acts["stop"].phase)),
           UNCHANGED <<service, startPlan, startupPending, rollbackPending, started, alive>>
    PROVE  RuntimeInv'
<1>1. /\ acts["stop"].phase \in Drains
      /\ acts["stop"].phase = "drain" => ~rollbackPending
      /\ PhaseInv
  BY DEF RuntimeInv, StopInv
<1>2. CASE acts["stop"].phase = "drain"
  <2>1. Ready("sinks")
    BY <1>1, <1>2 DEF PhaseInv, Ready, Later, Reached
  <2>2. "sinks" \in Groups \ {"rollback", "admission"} /\ "sinks" # "rollbackDrain"
    BY DEF Groups
  <2>3. QED
    BY <1>1, <1>2, <2>1, <2>2, PhaseOrder, EnterKeeps, Zenon
<1>3. CASE acts["stop"].phase = "rollbackDrain"
  <2>1. Ready("done")
    BY <1>1, <1>3 DEF PhaseInv, Ready, Later
  <2>2. "done" \notin Groups \cup {"drain"} /\ "done" # "rollbackDrain"
    BY DEF Groups
  <2>3. QED
    BY <1>1, <1>3, <2>1, <2>2, PhaseOrder, EnterKeeps, Zenon
<1>4. QED
  BY <1>1, <1>2, <1>3 DEF Drains

\* The drain goes on.
LEMMA DrainGoesOn ==
    ASSUME RuntimeInv, acts["stop"].drain # "no", NEW drain \in {"waiting", "resolved"},
           acts' = [acts EXCEPT !["stop"].drain = drain],
           UNCHANGED <<service, rt, startPlan, startupPending, rollbackPending, started, alive,
                       ops, physical, callers>>
    PROVE  RuntimeInv'
<1> DEFINE y == [acts["stop"] EXCEPT !.drain = drain]
<1>1. acts["stop"] \in ActivityType /\ acts \in [{"boot", "stop"} -> ActivityType]
      /\ rollbackPending \in BOOLEAN
  BY DEF RuntimeInv, Types
<1>2. /\ y \in ActivityType /\ y.phase = acts["stop"].phase /\ y.ctx = acts["stop"].ctx
      /\ y.todo = acts["stop"].todo
  BY <1>1 DEF ActivityType
<1>3. acts' = [acts EXCEPT !["stop"] = y]
  BY <1>1, Zenon
<1>4. /\ acts["stop"].phase \in Drains /\ PhaseInv /\ acts["stop"].ctx \in Callers
      /\ acts["stop"].todo = {} /\ ~startupPending
      /\ acts["stop"].phase = "drain" => ~rollbackPending
  BY DEF RuntimeInv, StopInv, Drains
<1>5. Ready(acts["stop"].phase)
  BY <1>4 DEF PhaseInv, Ready, Drains, Later
<1>6. rt' # "created" /\ (Ended' => Ended)
  BY <1>4, IdleFacts DEF RuntimeInv, Startups, Drains, Ended
<1> HIDE DEF y
<1>7. QED
  BY <1>1, <1>2, <1>3, <1>4, <1>5, <1>6, StopBecomes, Zenon

\* The steps of the attempt.
LEMMA AttemptStepKeeps ==
    ASSUME RuntimeInv, AttemptStep, service' = service
    PROVE  RuntimeInv'
<1>1. CASE StartupSettles
  BY <1>1, StartupSettlesKeeps
<1>2. CASE AttemptExpires
  BY <1>2, AttemptExpiresKeeps
<1>3. CASE DrainTasks
  <2>1. /\ acts["stop"].drain = "check"
        /\ UNCHANGED <<startPlan, startupPending, rollbackPending, started, alive>>
    BY <1>3 DEF DrainTasks, startVars
  <2>2. \/ Enter(acts["stop"].ctx, PhaseAfter(acts["stop"].phase))
        \/ /\ acts' = [acts EXCEPT !["stop"].drain = "waiting"]
           /\ UNCHANGED <<rt, ops, physical, callers>>
    BY <1>3, Zenon DEF DrainTasks
  <2>3. QED
    BY <2>1, <2>2, DrainDone, DrainGoesOn
<1>4. CASE DrainResolves
  BY <1>4, DrainGoesOn DEF DrainResolves, startVars
<1>5. CASE DrainReturns
  BY <1>5, DrainDone DEF DrainReturns, startVars
<1>6. QED
  BY <1>1, <1>2, <1>3, <1>4, <1>5 DEF AttemptStep

\* A round of the loop in stop().
LEMMA AttemptKeeps ==
    ASSUME RuntimeInv, NEW k \in Callers, Attempt(k), callers[k] # "returned", service' = service,
           rt # "created" \/ acts["stop"] = Idle
    PROVE  RuntimeInv'
<1>1. UNCHANGED <<startPlan, startupPending, rollbackPending, started, alive>>
  BY DEF Attempt, startVars
<1>2. CASE acts["stop"] = Idle /\ startupPending
  <2> DEFINE y == Activity(k, "awaitStartup", {}, {}, FALSE)
  <2>1. /\ rt' = "stopping" /\ acts' = [acts EXCEPT !["stop"] = y] /\ UNCHANGED <<ops, physical>>
        /\ callers' = [callers EXCEPT ![k] = "owner"]
    BY <1>2, Zenon DEF Attempt, OwnAttempt
  <2>2. y \in ActivityType /\ y.phase = "awaitStartup" /\ y.ctx = k /\ y.drain = "no" /\ y.todo = {}
    BY ContextFacts DEF Activity, ActivityType, Drains
  <2>3. Ended' => Ended
    BY <2>1 DEF Ended
  <2>4. rollbackPending \in BOOLEAN
    BY DEF RuntimeInv, Types
  <2> HIDE DEF y
  <2>5. QED
    BY <1>1, <2>1, <2>2, <2>3, <2>4, StopBecomes, Zenon
<1>3. CASE acts["stop"] = Idle /\ ~startupPending
  <2>1. /\ rt' = "stopping" /\ Launch("stop", k, FirstPhase, Targets(FirstPhase))
        /\ callers' = [callers EXCEPT ![k] = "owner"]
    BY <1>3 DEF Attempt, OwnAttempt
  <2>2. /\ FirstPhase \in Groups /\ Ready(FirstPhase)
        /\ FirstPhase = "rollback" <=> rollbackPending
    BY DEF FirstPhase, Groups, Ready, Later
  <2>3. Ended' => Ended
    BY <2>1 DEF Ended
  <2>4. QED
    BY <1>1, <1>3, <2>1, <2>2, <2>3, EnterGroup
<1>4. CASE acts["stop"] # Idle
  <2>1. UNCHANGED <<rt, stopVars>> /\ callers' = [callers EXCEPT ![k] = "joiner"]
    BY <1>4 DEF Attempt
  <2>2. (Ended' => Ended) /\ rt # "created"
    BY <1>4, <2>1 DEF Ended
  <2>3. QED
    BY <1>1, <2>1, <2>2, ElsewhereKeeps
<1>5. QED
  BY <1>2, <1>3, <1>4

\* The calls of stop().
LEMMA StopCallKeeps ==
    ASSUME RuntimeInv, NEW k \in Callers, Stop(k) \/ StopCallStep(k), service' = service
    PROVE  RuntimeInv'
<1>1. rt # "created" \/ acts["stop"] = Idle
  BY DEF RuntimeInv, Startups
<1>2. CASE Stop(k)
  <2>1. callers[k] # "returned"
    BY <1>2 DEF Stop
  <2>2. CASE Attempt(k)
    BY <1>1, <2>1, <2>2, AttemptKeeps
  <2>3. CASE ~Attempt(k)
    <3>1. /\ ~startupPending /\ started = {} /\ rt' = "stopped"
          /\ UNCHANGED <<startPlan, startupPending, rollbackPending, started, alive, stopVars>>
      BY <1>2, <2>3 DEF Stop, startVars
    <3>2. QED
      BY <3>1, ElsewhereKeeps
  <2>4. QED
    BY <2>2, <2>3
<1>3. CASE StopThrows(k)
  <2>1. /\ callers' = [callers EXCEPT ![k] = "failed"]
        /\ UNCHANGED <<rt, startPlan, startupPending, rollbackPending, started, alive, stopVars>>
    BY <1>3 DEF StopThrows, startVars
  <2>2. Ended' => Ended
    BY <2>1 DEF Ended
  <2>3. Ended => rt # "created"
    BY DEF RuntimeInv, Startups
  <2>4. QED
    BY <2>1, <2>2, <2>3, ElsewhereKeeps
<1>4. CASE StopRetries(k)
  BY <1>1, <1>4, AttemptKeeps DEF StopRetries
<1>5. QED
  BY <1>2, <1>3, <1>4 DEF StopCallStep

(***************************************************************************)
(* The runtime, for any components, services and callers of stop()         *)
(***************************************************************************)

\* Every step of the runtime keeps the invariant.
LEMMA RuntimeStepKeeps == RuntimeInv /\ [Next]_runtimeVars => RuntimeInv'
<1> SUFFICES ASSUME RuntimeInv, [Next]_runtimeVars PROVE RuntimeInv'
  OBVIOUS
<1>1. CASE UNCHANGED runtimeVars
  <2>1. UNCHANGED <<service, rt, startPlan, startupPending, rollbackPending, started, alive,
                    stopVars, callers>>
    BY <1>1 DEF runtimeVars, vars, startVars
  <2>2. (Ended' => Ended) /\ (Ended => rt # "created")
    BY <2>1 DEF Ended, RuntimeInv, Startups
  <2>3. QED
    BY <2>1, <2>2, ElsewhereKeeps
<1>2. CASE Next
  <2>1. service' = service /\ RuntimeStep
    BY <1>2 DEF Next
  <2>2. DOMAIN acts = {"boot", "stop"}
    BY DEF RuntimeInv, Types
  <2>3. ASSUME NEW admission \in BOOLEAN, Start(admission) PROVE RuntimeInv'
    BY <2>1, <2>3, StartKeeps
  <2>4. ASSUME NEW x \in startPlan, StartStep(x) PROVE RuntimeInv'
    BY <2>1, <2>4, StartStepKeeps
  <2>5. CASE StartStepFails
    BY <2>1, <2>5, StartStepFailsKeeps
  <2>6. ASSUME NEW a \in DOMAIN acts, ActivityStep(a) PROVE RuntimeInv'
    BY <2>1, <2>2, <2>6, NextGroupKeeps, PhaseDoneKeeps, PhaseFailsKeeps DEF ActivityStep
  <2>7. CASE AttemptStep
    BY <2>1, <2>7, AttemptStepKeeps
  <2>8. ASSUME NEW slot \in Slots, OpSettles(slot) PROVE RuntimeInv'
    <3>1. CASE OpSucceeds(slot)
      BY <2>1, <3>1, SlotFacts, FullSucceeds, AdmSucceeds
    <3>2. ASSUME NEW b \in BOOLEAN, OpFails(slot, b) PROVE RuntimeInv'
      BY <2>1, <3>2, OpFailsKeeps
    <3>3. QED
      BY <2>8, <3>1, <3>2 DEF OpSettles
  <2>9. ASSUME NEW k \in Callers, Stop(k) \/ StopCallStep(k) PROVE RuntimeInv'
    BY <2>1, <2>9, StopCallKeeps
  <2>10. ASSUME \/ \E x \in Contexts : CancelContext(x)
                \/ \E j \in service.jobs : Submit(j) \/ TaskSettles(j)
         PROVE  RuntimeInv'
    <3>1. UNCHANGED <<rt, startPlan, startupPending, rollbackPending, started, alive,
                      stopVars, callers>>
      BY <2>10 DEF CancelContext, Submit, TaskSettles, startVars
    <3>2. (Ended' => Ended) /\ (Ended => rt # "created")
      BY <3>1 DEF Ended, RuntimeInv, Startups
    <3>3. QED
      BY <2>1, <3>1, <3>2, ElsewhereKeeps
  <2>11. QED
    BY <2>1, <2>3, <2>4, <2>5, <2>6, <2>7, <2>8, <2>9, <2>10 DEF RuntimeStep
<1>3. QED
  BY <1>1, <1>2

\* It holds when the runtime is created.
LEMMA RuntimeStarts == Init => RuntimeInv
<1> SUFFICES ASSUME Init PROVE RuntimeInv
  OBVIOUS
<1> USE DEF Init
<1>1. Types
  BY IdleFacts, Zenon DEF Types
<1>2. Books
  BY SlotFacts, ContextFacts DEF Books, Running
<1>3. Order
  BY SlotFacts, ContextFacts DEF Order, Pending, Running
<1>4. Startups
  BY DEF Startups, Ended
<1>5. BootInv /\ StopInv
  BY IdleFacts DEF BootInv, StopInv, PhaseInv, Sound, Groups, Drains, Later
<1>6. QED
  BY <1>1, <1>2, <1>3, <1>4, <1>5 DEF RuntimeInv

\* stop() that returns, and the state "stopped", mean that nothing is left
\* running or stopping (service-runtime.ts: startOnce, stopOnce, stopComponent),
\* and no component is ever inside two calls of the same stop method.
THEOREM StopReleases == Spec => []StoppedMeansReleased
<1>1. RuntimeInv => StoppedMeansReleased
  <2> SUFFICES ASSUME RuntimeInv PROVE StoppedMeansReleased
    OBVIOUS
  <2>1. Books /\ Startups
    BY DEF RuntimeInv
  <2>2. \A s \in Slots : physical[s] <= 1
    BY <2>1 DEF Books
  <2>3. ASSUME Ended PROVE ~startupPending /\ alive = {} /\ \A s \in Slots : physical[s] = 0
    BY <2>1, <2>3, RunningFacts DEF Books, Startups
  <2>4. QED
    BY <2>2, <2>3 DEF StoppedMeansReleased, Ended
<1>2. QED
  BY <1>1, RuntimeStarts, RuntimeStepKeeps, PTL DEF Spec

\* A service that had started is taken down in dependency order, whoever drives
\* the stop and after whatever timeouts (service-runtime.ts: stopOnce,
\* stopGroup, stopSequential).
THEOREM ReleaseInOrder == Spec => []OrderlyRelease
<1>1. RuntimeInv => OrderlyRelease
  <2> SUFFICES ASSUME RuntimeInv, ~startupPending, ~rollbackPending,
                      NEW c \in Components, NEW d \in started
               PROVE  /\ physical[Full(c)] > 0 => ReleaseRank(d) >= ReleaseRank(c)
                      /\ physical[Adm(c)] > 0 /\ ReleaseRank(c) = 4 => ReleaseRank(d) >= 2
    BY Zenon DEF OrderlyRelease, Full, Adm
  <2>1. Books /\ Order
    BY DEF RuntimeInv
  <2>2. /\ physical[Full(c)] > 0 => Running(Full(c))
        /\ physical[Adm(c)] > 0 => Running(Adm(c))
    BY <2>1, SlotFacts DEF Books
  <2>3. QED
    BY <2>1, <2>2 DEF Order, Pending
<1>2. QED
  BY <1>1, RuntimeStarts, RuntimeStepKeeps, PTL DEF Spec

(***************************************************************************)
(* The task registry, for any operations and any callers of drain()        *)
(***************************************************************************)

\* SealedDrainIsFinal alone is not inductive: an operation could be admitted
\* after the drain.  Admission, once closed, stays closed.
SealedInv ==
    /\ drains \in [Drainers -> {"idle", "waiting", "drained", "sealed", "timedOut"}]
    /\ (\E d \in Drainers : drains[d] = "sealed") => tasks = {} /\ ~accepting

\* A look at the tasks seals a drain only when the registry is empty and closed.
LEMMA LookSeals == Looked = "sealed" => tasks = {} /\ ~accepting
  BY DEF Looked

\* Every step of the registry and of the callers of drain() keeps the
\* invariant.
LEMMA StepKeepsSealed == SealedInv /\ [RegistryNext]_drainVars => SealedInv'
<1> SUFFICES ASSUME SealedInv, [RegistryNext]_drainVars PROVE SealedInv'
  OBVIOUS
<1> USE DEF SealedInv
<1>1. ASSUME NEW j \in Jobs, Admit(j), UNCHANGED <<drains, snapshot>> PROVE SealedInv'
  BY <1>1 DEF Admit
<1>2. ASSUME NEW j \in Jobs, Refuse(j), UNCHANGED <<drains, snapshot>> PROVE SealedInv'
  BY <1>2 DEF Refuse
<1>3. ASSUME NEW j \in Jobs, Settle(j), UNCHANGED <<drains, snapshot>> PROVE SealedInv'
  BY <1>3 DEF Settle
<1>4. CASE (StopAdmission \/ Cancel) /\ UNCHANGED <<drains, snapshot>>
  BY <1>4 DEF StopAdmission, Cancel
<1>5. ASSUME NEW d \in Drainers, DrainStart(d) \/ DrainLoop(d) PROVE SealedInv'
  <2>1. /\ drains' = [drains EXCEPT ![d] = Looked]
        /\ tasks' = tasks /\ accepting' = accepting
    BY <1>5 DEF DrainStart, DrainLoop, registryVars
  <2>2. Looked \in {"waiting", "drained", "sealed"}
    BY DEF Looked
  <2>3. QED
    BY <2>1, <2>2, LookSeals
<1>6. ASSUME NEW d \in Drainers, DrainTimeout(d) PROVE SealedInv'
  BY <1>6 DEF DrainTimeout, registryVars
<1>7. CASE UNCHANGED drainVars
  BY <1>7 DEF drainVars, registryVars
<1>8. QED
  BY <1>1, <1>2, <1>3, <1>4, <1>5, <1>6, <1>7 DEF RegistryNext

\* A drain() that returned after admission was closed is final (task-registry.ts:
\* drain, stopAdmission, cancel), however operations nest and drains overlap.
THEOREM DrainFinal == RegistrySpec => []SealedDrainIsFinal
<1>1. RegistryInit => SealedInv
  BY DEF RegistryInit, SealedInv
<1>2. SealedInv => SealedDrainIsFinal
  BY DEF SealedInv, SealedDrainIsFinal
<1>3. QED
  BY <1>1, <1>2, StepKeepsSealed, PTL DEF RegistrySpec
=============================================================================
