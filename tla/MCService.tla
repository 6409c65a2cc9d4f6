----------------------------- MODULE MCService ------------------------------
(***************************************************************************)
(* The service around the streams: its runtime, in a service whose sink    *)
(* may fail to stop and in a smaller one whose components fail only when   *)
(* their context ends; the registry of detached tasks; and the loader of   *)
(* the mutable configuration. A behaviour is one of a single scene; the    *)
(* other components stay in their initial state.                           *)
(***************************************************************************)
EXTENDS ServiceRuntime, TLC

CONSTANTS NPaths, Contents, Broken, Refused, MaxWrites, poolC, managedC,
          sinkC, sourceC, teleC, j1, Initial

VARIABLES
    scene,   \* the component whose behaviour this is
    \* ConfigLoader
    file, writes, state, phase, before, candidate, after, observed, current,
    stopping, seen, reverted

\* The values of the constants for TLC.
ComponentCategory ==
    (poolC :> "taskPool") @@ (managedC :> "managedDataConnector")
    @@ (sinkC :> "dataSink") @@ (sourceC :> "dataSource")
    @@ (teleC :> "telemetry")

UnreliableService ==
    [registered |-> <<sourceC, sinkC, teleC, poolC, managedC>>,
     withAdmission |-> {managedC, sourceC}, unreliable |-> {sinkC}, jobs |-> {j1}]
ReliableService ==
    [registered |-> <<sinkC, teleC, sourceC>>,
     withAdmission |-> {managedC}, unreliable |-> {}, jobs |-> {j1}]
TwoServices == {UnreliableService, ReliableService}

Config == INSTANCE ConfigLoader

configVars == <<file, writes, state, phase, before, candidate, after,
                observed, current, stopping, seen, reverted>>
sceneVars == <<scene, runtimeVars, configVars>>

SceneInit ==
    /\ scene \in {"runtime", "registry", "config"}
    /\ Init
    /\ scene # "runtime" => service = ReliableService
    /\ Config!Init
    /\ current = [p \in 1..NPaths |-> Initial]
    /\ scene # "config" => file = current

SceneNext ==
    \/ scene = "runtime" /\ Next /\ UNCHANGED <<scene, configVars>>
    \/ /\ scene = "registry" /\ RegistryNext
       /\ UNCHANGED <<scene, service, rt, startVars, rollbackPending, started, alive, stopVars,
                      callers, cancelledCtx, configVars>>
    \/ scene = "config" /\ Config!Next /\ UNCHANGED <<scene, runtimeVars>>

\* Promise reactions always run; the awaited start, stop and task operations of
\* the service of reliable components are taken to settle.
reliable == scene = "runtime" /\ service = ReliableService
ReliableFairness ==
    /\ WF_vars(reliable /\ (StartStepFails \/ \E x \in startPlan : StartStep(x)))
    /\ \A act \in {"boot", "stop"} : WF_vars(reliable /\ ActivityStep(act))
    /\ WF_vars(reliable /\ AttemptStep)
    /\ \A slot \in Slots : WF_vars(reliable /\ OpSettles(slot))
    /\ \A k \in Callers : WF_vars(reliable /\ StopCallStep(k))
    /\ WF_vars(reliable /\ TaskSettles(j1))

SceneSpec ==
    /\ SceneInit /\ [][SceneNext]_sceneVars
    /\ ReliableFairness

ASSUME LoaderAssumption == Config!LoaderAssumption

\* The configuration that becomes current is valid; unless a file was changed
\* and changed back meanwhile, it was in the files, all of it at one time; and
\* nothing is published after stop() has returned.
PublishesStable ==
    [][scene = "config" =>
        Config!PublishesStable /\ Config!QuietAfterStop /\ Config!CurrentIsValid']_sceneVars
=============================================================================
