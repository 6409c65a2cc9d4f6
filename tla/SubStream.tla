----------------------------- MODULE SubStream ------------------------------
(***************************************************************************)
(* One invocation of a service-local SubStream (src/operators/             *)
(* substream.ts): consume() emits a value into the body and waits until    *)
(* the caller's collector has had enough results.  The body delivers       *)
(* results at any time, also concurrently and after the call has ended;    *)
(* collector callbacks may be synchronous or return a promise.             *)
(***************************************************************************)
EXTENDS Integers, FiniteSets, SequencesExt

CONSTANTS
    Results,   \* results that the body delivers, each at most once
    None,
    Workflow   \* the environment has waitSubStreamResult()

VARIABLES
    context,   \* the caller's context: live, past its deadline, or aborted
    call,      \* where consume() stands
    closed,    \* #closed
    failure,   \* #failure is set
    active,    \* the result whose callback promise is #active
    handled,   \* the callback of active has settled: no, yes, or with an error
    chained,   \* deliveries that wait for #active
    woken,     \* deliveries whose turn comes after #active settled
    running,   \* results whose callback has not settled
    delivered, \* results that were delivered by the body
    graphFailed, \* the workflow graph has failed
    enough     \* history: a callback returned true

vars == <<context, call, closed, failure, active, handled, chained, woken,
          running, delivered, graphFailed, enough>>

Init ==
    /\ context \in {"live", "aborted"}
    /\ call = "new"
    /\ closed = FALSE /\ failure = FALSE
    /\ active = None /\ handled = "no"
    /\ chained = <<>> /\ woken = <<>>
    /\ running = {} /\ delivered = {}
    /\ graphFailed = FALSE
    /\ enough = FALSE

\* finish(): the first one decides, and drops the context and the collector.
finish(failed) ==
    /\ closed' = TRUE
    /\ failure' = IF closed THEN failure ELSE failed

(***************************************************************************)
(* deliver()                                                               *)
(***************************************************************************)

\* The callback of v returns a promise, true, false, or throws.
Collect(v) ==
    \/ /\ active' = v /\ handled' = "no"
       /\ running' = running \cup {v}
       /\ UNCHANGED <<closed, failure, enough>>
    \/ finish(FALSE) /\ enough' = TRUE /\ UNCHANGED <<active, handled, running>>
    \/ finish(TRUE) /\ UNCHANGED <<active, handled, running, enough>>
    \/ UNCHANGED <<closed, failure, active, handled, running, enough>>

\* deliver(): a closed call drops the value, a running callback is waited for.
deliver(v) ==
    IF closed THEN UNCHANGED <<closed, failure, active, handled, chained, running, enough>>
    ELSE IF active # None
    THEN /\ chained' = Append(chained, v)
         /\ UNCHANGED <<closed, failure, active, handled, running, enough>>
    ELSE IF context # "live"
    THEN finish(TRUE) /\ UNCHANGED <<active, handled, chained, running, enough>>
    ELSE Collect(v) /\ UNCHANGED chained

\* ResultLink.consume(): the body produces a result.
Deliver(v) ==
    /\ call # "new" /\ v \notin delivered
    /\ delivered' = delivered \cup {v}
    /\ deliver(v)
    /\ UNCHANGED <<context, call, woken, graphFailed>>

\* A delivery that waited for #active is tried again.
Redeliver ==
    /\ woken # <<>>
    /\ deliver(Head(woken))
    /\ woken' = Tail(woken)
    /\ UNCHANGED <<context, call, delivered, graphFailed>>

\* The promise of the callback settles: enough, more, or an error.
CallbackSettles ==
    /\ active \in running
    /\ running' = running \ {active}
    /\ \/ finish(FALSE) /\ enough' = TRUE /\ handled' = "yes"
       \/ UNCHANGED <<closed, failure, enough>> /\ handled' = "yes"
       \/ finish(TRUE) /\ handled' = "error" /\ UNCHANGED enough
    /\ UNCHANGED <<context, call, active, chained, woken, delivered, graphFailed>>

\* Its finally(): #active is cleared, and what was chained to it gets its
\* turn, or is rejected together with it.
Clear ==
    /\ active # None /\ handled # "no"
    /\ active' = None /\ handled' = "no"
    /\ woken' = IF handled = "yes" THEN woken \o chained ELSE woken
    /\ chained' = <<>>
    /\ UNCHANGED <<context, call, closed, failure, running, delivered, graphFailed, enough>>

(***************************************************************************)
(* The caller                                                              *)
(***************************************************************************)

\* The deadline passes before the timer fires the signal.
Expire ==
    /\ context = "live"
    /\ context' = "expired"
    /\ UNCHANGED <<call, closed, failure, active, handled, chained, woken, running,
                   delivered, graphFailed, enough>>

\* The signal fires; the listener finishes the call with its reason.
Abort ==
    /\ context # "aborted"
    /\ context' = "aborted"
    /\ IF call = "new" THEN UNCHANGED <<closed, failure>> ELSE finish(TRUE)
    /\ UNCHANGED <<call, active, handled, chained, woken, running, delivered,
                   graphFailed, enough>>

\* consume(): a cancelled context fails the call before the body is entered.
Consume ==
    /\ call = "new"
    /\ IF context # "live"
       THEN finish(TRUE) /\ call' = "throwing"
       ELSE call' = "emitting" /\ UNCHANGED <<closed, failure>>
    /\ UNCHANGED <<context, active, handled, chained, woken, running, delivered,
                   graphFailed, enough>>

\* emit() into the body returns, or throws.
Emitted ==
    /\ call = "emitting"
    /\ call' \in {"awaiting", "throwing"}
    /\ UNCHANGED <<context, closed, failure, active, handled, chained, woken, running,
                   delivered, graphFailed, enough>>

\* recordFailure() of the workflow environment.
GraphFails ==
    /\ Workflow /\ ~graphFailed
    /\ graphFailed' = TRUE
    /\ UNCHANGED <<context, call, closed, failure, active, handled, chained, woken,
                   running, delivered, enough>>

\* The completion promise, or the failure of the workflow graph.
Completed ==
    /\ call = "awaiting"
    /\ closed \/ graphFailed
    /\ call' = IF failure \/ graphFailed THEN "throwing" ELSE "returning"
    /\ UNCHANGED <<context, closed, failure, active, handled, chained, woken, running,
                   delivered, graphFailed, enough>>

\* Mutant: close() does not wait for the callback.
CloseAtOnce ==
    /\ call \in {"returning", "throwing"}
    /\ finish(FALSE)
    /\ call' = IF call = "returning" THEN "returned" ELSE "thrown"
    /\ UNCHANGED <<context, active, handled, chained, woken, running, delivered,
                   graphFailed, enough>>

\* close(): finish, then wait for the callback that is active.
Close ==
    /\ call \in {"returning", "throwing"}
    /\ finish(FALSE)
    /\ call' = IF active # None THEN call
               ELSE IF call = "returning" THEN "returned" ELSE "thrown"
    /\ UNCHANGED <<context, active, handled, chained, woken, running, delivered,
                   graphFailed, enough>>

Next ==
    \/ \E v \in Results : Deliver(v)
    \/ Redeliver \/ CallbackSettles \/ Clear
    \/ Expire \/ Abort \/ GraphFails
    \/ Consume \/ Emitted \/ Completed \/ Close

\* Callbacks settle, the body's emission returns, promise reactions run.
Fairness ==
    /\ WF_vars(CallbackSettles) /\ WF_vars(Clear) /\ WF_vars(Redeliver)
    /\ WF_vars(Emitted) /\ WF_vars(Completed) /\ WF_vars(Close)

Spec == Init /\ [][Next]_vars /\ Fairness

(***************************************************************************)
(* Properties                                                              *)
(***************************************************************************)

Ended == call \in {"returned", "thrown"}

\* "callbacks for one call are serialized", although deliveries that waited
\* and new ones compete for the moment at which #active is cleared.
CallbacksSerialized == Cardinality(running) <= 1

\* consume() does not return or throw while a callback of it still runs.
NoCallbackOutlivesCall == Ended => running = {}

\* consume() returns normally only when a callback asked to complete: an
\* abort, a deadline or a failed graph that comes first makes it throw.
ReturnMeansEnough == call = "returned" => enough

\* The collector has had enough, the context is aborted or the workflow graph
\* has failed.
ShouldEnd == call # "new" /\ (enough \/ context = "aborted" \/ graphFailed)
=============================================================================
