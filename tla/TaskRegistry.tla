---------------------------- MODULE TaskRegistry ----------------------------
(***************************************************************************)
(* RuntimeTaskRegistry of src/runtime/task-registry.ts: the set of         *)
(* detached or awaited asynchronous operations an owner has admitted and   *)
(* must see settled before it releases what they use.                      *)
(***************************************************************************)
EXTENDS Integers

CONSTANTS
    Jobs,      \* admit / admitDetached / admitDetachedWithContext calls
    Drainers   \* callers of drain()

VARIABLES
    accepting,  \* #accepting
    tasks,      \* #tasks: admitted operations that have not settled
    settled,    \* history: operations that have settled
    refused,    \* history: operations turned away by a closed registry
    cancelled,  \* the registry's own signal has fired
    drains,     \* progress of each drain() call
    snapshot    \* what a drain() call is waiting for

registryVars == <<accepting, tasks, settled, refused, cancelled>>
drainVars == <<registryVars, drains, snapshot>>

RegistryInit ==
    /\ accepting = TRUE
    /\ tasks = {}
    /\ settled = {}
    /\ refused = {}
    /\ cancelled = FALSE
    /\ drains = [d \in Drainers |-> "idle"]
    /\ snapshot = [d \in Drainers |-> {}]

New(j) == j \notin tasks \cup settled \cup refused

\* admit*(): the operation is started and tracked in one turn.  Running
\* operations may admit further ones until admission closes.
Admit(j) ==
    /\ New(j)
    /\ accepting
    /\ tasks' = tasks \cup {j}
    /\ UNCHANGED <<accepting, settled, refused, cancelled>>

Refuse(j) ==
    /\ New(j)
    /\ ~accepting
    /\ refused' = refused \cup {j}
    /\ UNCHANGED <<accepting, tasks, settled, cancelled>>

\* The operation's promise settles and its reaction removes it.
Settle(j) ==
    /\ j \in tasks
    /\ tasks' = tasks \ {j}
    /\ settled' = settled \cup {j}
    /\ UNCHANGED <<accepting, refused, cancelled>>

StopAdmission ==
    /\ accepting' = FALSE
    /\ UNCHANGED <<tasks, settled, refused, cancelled>>

\* cancel(): closes admission and fires the signal every task received.
Cancel ==
    /\ accepting' = FALSE
    /\ cancelled' = TRUE
    /\ UNCHANGED <<tasks, settled, refused>>

\* How a drain() call stands after it looked at #tasks.  A return is recorded
\* as "sealed" when admission was already closed at that moment.
Looked == CASE tasks # {} -> "waiting"
            [] tasks = {} /\ accepting -> "drained"
            [] OTHER -> "sealed"

\* drain(): nothing to wait for, or wait for the tasks of the moment.
DrainStart(d) ==
    /\ drains[d] = "idle"
    /\ drains' = [drains EXCEPT ![d] = Looked]
    /\ snapshot' = [snapshot EXCEPT ![d] = tasks]
    /\ UNCHANGED registryVars

\* Mutant: one round only, nested admissions are not waited for.
DrainOnce(d) ==
    /\ drains[d] = "waiting"
    /\ snapshot[d] \cap tasks = {}
    /\ drains' = [drains EXCEPT ![d] = IF accepting THEN "drained" ELSE "sealed"]
    /\ snapshot' = [snapshot EXCEPT ![d] = {}]
    /\ UNCHANGED registryVars

\* The snapshot has settled: return if nothing was admitted meanwhile, else
\* take the next snapshot.
DrainLoop(d) ==
    /\ drains[d] = "waiting"
    /\ snapshot[d] \cap tasks = {}
    /\ drains' = [drains EXCEPT ![d] = Looked]
    /\ snapshot' = [snapshot EXCEPT ![d] = tasks]
    /\ UNCHANGED registryVars

\* drain(timeoutMs): one timer bounds all the rounds.
DrainTimeout(d) ==
    /\ drains[d] = "waiting"
    /\ drains' = [drains EXCEPT ![d] = "timedOut"]
    /\ UNCHANGED <<registryVars, snapshot>>

RegistryNext ==
    \/ /\ \/ \E j \in Jobs : Admit(j) \/ Refuse(j) \/ Settle(j)
          \/ StopAdmission
          \/ Cancel
       /\ UNCHANGED <<drains, snapshot>>
    \/ \E d \in Drainers : DrainStart(d) \/ DrainLoop(d) \/ DrainTimeout(d)

RegistrySpec == RegistryInit /\ [][RegistryNext]_drainVars

(***************************************************************************)
(* Properties                                                              *)
(***************************************************************************)

\* Types; and every operation is in at most one place.
RegistryTypeOK ==
    /\ accepting \in BOOLEAN
    /\ tasks \in SUBSET Jobs
    /\ settled \in SUBSET Jobs
    /\ refused \in SUBSET Jobs
    /\ tasks \cap settled = {} /\ refused \cap (tasks \cup settled) = {}
    /\ cancelled \in BOOLEAN
    /\ drains \in [Drainers -> {"idle", "waiting", "drained", "sealed", "timedOut"}]
    /\ snapshot \in [Drainers -> SUBSET Jobs]

\* The order every owner uses, stopAdmission() then drain(), is final: once a
\* drain has returned with admission closed, no operation of the registry is
\* or becomes active, however many nested operations were admitted while the
\* earlier rounds of the drain were waiting.
SealedDrainIsFinal ==
    (\E d \in Drainers : drains[d] = "sealed") => tasks = {}
=============================================================================
