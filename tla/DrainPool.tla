------------------------------ MODULE DrainPool ------------------------------
(***************************************************************************)
(* What every pool of the runtime promises its callers: work is accepted   *)
(* only while the pool is open, at most limit accepted callbacks are       *)
(* unsettled when one is started, work once started runs to its end, and   *)
(* the pool is drained only when it is closed and every callback it ever   *)
(* accepted has settled.  No queue, no microtasks, no cancellation.        *)
(***************************************************************************)
EXTENDS Integers, FiniteSets

CONSTANT Tasks

VARIABLES open, accepted, started, finished, limit, drained

vars == <<open, accepted, started, finished, limit, drained>>

Init ==
    /\ open = TRUE
    /\ accepted = {}
    /\ started = {}
    /\ finished = {}
    /\ limit \in Nat \ {0}
    /\ drained = FALSE

\* Any step may start accepted work, as long as it stays within the limit.
Admit ==
    /\ started \subseteq started'
    /\ started' \subseteq accepted'
    /\ started' # started => Cardinality(started' \ finished') <= limit'

Accept(t) ==
    /\ open
    /\ t \notin accepted
    /\ accepted' = accepted \cup {t}
    /\ Admit
    /\ UNCHANGED <<open, finished, limit, drained>>

\* Starting the pool and changing its limit.
Configure ==
    /\ open
    /\ limit' \in Nat \ {0}
    /\ Admit
    /\ UNCHANGED <<open, accepted, finished, drained>>

\* Accepted work starts, also while the pool drains.
Begin ==
    /\ Admit
    /\ UNCHANGED <<open, accepted, finished, limit, drained>>

Finish(t) ==
    /\ t \in started \ finished
    /\ finished' = finished \cup {t}
    /\ Admit
    /\ drained' = (~open /\ accepted = finished')
    /\ UNCHANGED <<open, accepted, limit>>

Close ==
    /\ open
    /\ open' = FALSE
    /\ Admit
    /\ drained' = (accepted = finished)
    /\ UNCHANGED <<accepted, finished, limit>>

Next ==
    \/ \E t \in Tasks : Accept(t) \/ Finish(t)
    \/ Configure \/ Begin
    \/ Close

Spec == Init /\ [][Next]_vars
=============================================================================
