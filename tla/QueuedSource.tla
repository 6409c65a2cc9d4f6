---------------------------- MODULE QueuedSource ----------------------------
(***************************************************************************)
(* The endpoint consumers of the custom and the Kafka source: requests     *)
(* that pass a semaphore of concurrency() slots before their handler runs. *)
(* The counter and the queue of wake-up functions are the semaphore; a     *)
(* waiter that is woken looks again and may have been overtaken.           *)
(***************************************************************************)
EXTENDS SourceRequest, FiniteSets, Sequences, Functions

CONSTANTS Concurrencies   \* what concurrency() may answer

VARIABLES
    concurrency, \* concurrency() of the handler, fixed in a behaviour; 0 is no limit
    active,     \* #active
    waiters,    \* #waiters
    started,    \* #started of the consumer
    stopped,    \* #stopped of the consumer
    tasksAborted \* the signal every admitted task has in common is aborted

slotVars == <<concurrency, active, waiters>>
queuedVars == <<requestVars, slotVars, started, stopped, tasksAborted>>

QueuedInit ==
    /\ RequestInit
    /\ concurrency \in Concurrencies
    /\ active = 0
    /\ waiters = <<>>
    /\ started = FALSE
    /\ stopped = FALSE
    /\ tasksAborted = FALSE

Admitted(r) == stage[r] \notin {"new", "done"}
HoldsSlot(r) == Admitted(r) /\ stage[r] \notin {"queued", "acquire"}
Aborted(r) == cancelled[r] \/ tasksAborted

HasSlot == concurrency = 0 \/ active < concurrency

\* One pass of the loop of acquire(), which takes r out of the queue q.
AcquireFrom(r, q) ==
    /\ \/ /\ stopped \/ Aborted(r)
          /\ Goto(r, "done") /\ waiters' = q /\ UNCHANGED active
       \/ /\ ~stopped /\ ~Aborted(r) /\ HasSlot
          /\ Goto(r, "begin") /\ waiters' = q /\ active' = active + 1
       \/ /\ ~stopped /\ ~Aborted(r) /\ ~HasSlot
          /\ Goto(r, "queued") /\ waiters' = Append(q, r) /\ UNCHANGED active
    /\ UNCHANGED concurrency

\* handle(): the registry runs the task, and so the first pass, at once.
Handle(r) ==
    /\ stage[r] = "new"
    /\ IF started /\ ~stopped
       THEN AcquireFrom(r, waiters)
       ELSE Goto(r, "done") /\ UNCHANGED slotVars
    /\ UNCHANGED <<hasResult, failure, cancelled, pending, activeRequests, resultVars,
                   started, stopped, tasksAborted>>

\* Mutant: the slot is given back and nobody is woken.
LeaveUnnoticed(r) ==
    Goto(r, "done") /\ active' = active - 1 /\ UNCHANGED <<concurrency, waiters>>

\* The finally block of handleOnce().
Leave(r) ==
    /\ active' = active - 1
    /\ IF waiters = <<>>
       THEN Goto(r, "done") /\ UNCHANGED waiters
       ELSE /\ stage' = [stage EXCEPT ![r] = "done", ![Head(waiters)] = "acquire"]
            /\ waiters' = Tail(waiters)
    /\ UNCHANGED concurrency

BeginFails(r) ==
    /\ stage[r] = "begin"
    /\ Leave(r)
    /\ UNCHANGED <<hasResult, failure, cancelled, pending, activeRequests, resultVars>>

\* endRequest() for a duplicate stream ID; its error leaves handleTraced()
\* before onRequestEnd().
Refused(r) ==
    /\ stage[r] = "refuse"
    /\ activeRequests' \in {activeRequests - 1, activeRequests}
    /\ Leave(r)
    /\ UNCHANGED <<hasResult, failure, cancelled, pending, resultVars>>

\* endRequest() settled; onRequestEnd() is in a finally block.
Ended(r) ==
    /\ stage[r] = "end"
    /\ onRequestEnd
    /\ Leave(r)
    /\ Forget(r)
    /\ UNCHANGED <<hasResult, cancelled, pending>>

\* stop() and stopAdmission() wake every waiter.
WakeAll ==
    /\ stage' = [r \in Requests |-> IF stage[r] = "queued" THEN "acquire" ELSE stage[r]]
    /\ waiters' = <<>>
    /\ UNCHANGED concurrency

Drained == \A r \in Requests : ~Admitted(r)

(***************************************************************************)
(* Properties                                                              *)
(***************************************************************************)

\* #active counts the requests that hold a slot, and never exceeds what
\* concurrency() allows, whatever wakes, refusals and errors came before.
WithinConcurrency ==
    /\ active = Cardinality({r \in Requests : HoldsSlot(r)})
    /\ concurrency > 0 => active <= concurrency

\* No lost wake-up: while a request is queued, the slots are taken or a
\* woken request is about to take one -- as long as no request was cancelled.
\* (A cancelled waiter swallows the wake it was given in acquire().)
SlotsServeQueue ==
    (\A r \in Requests : ~cancelled[r]) /\ waiters # <<>> /\ HasSlot
        => \E r \in Requests : stage[r] = "acquire"

\* A stopped consumer has nothing in flight: no request, no reserved stream
\* ID and no running callback, although it may stop in any state of them.
StopMeansQuiet ==
    ~started /\ stopped => Drained /\ \A d \in Deliveries : callbackOf[d] = None
=============================================================================
