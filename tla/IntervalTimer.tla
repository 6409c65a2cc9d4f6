---------------------------- MODULE IntervalTimer ----------------------------
(***************************************************************************)
(* The native interval of src/datasource/cron/croner.ts (#startInterval):  *)
(* a chain of setTimeout calls that keeps a cadence against Date.now().    *)
(* setTimeout runs on a monotonic clock and its delay is capped; Date.now()*)
(* is the wall clock, which may be stepped; the owner context may have a   *)
(* deadline.                                                               *)
(***************************************************************************)
EXTENDS Integers, FiniteSetsExt

CONSTANTS
    Milliseconds,  \* the interval
    MaxDelay,      \* largest delay of setTimeout (2_147_483_647 in the code)
    MaxTime,       \* bound on the wall clock
    MaxSteps       \* bound on clock steps

IntervalAssumption ==
    /\ Milliseconds \in Nat \ {0} /\ MaxDelay \in Nat \ {0}
    /\ MaxTime \in Nat /\ MaxSteps \in Nat

Off == -1
NoDeadline == MaxTime + Milliseconds + 1
Never == -1

VARIABLES
    now,        \* Date.now()
    steps,      \* clock steps so far
    deadline,   \* of the owner context
    policy,     \* missedRunPolicy
    aborted,    \* the owner's signal is aborted
    next,       \* next occurrence
    delay,      \* ticks until the timer is due, Off if there is none
    dispatched  \* scheduledAt of the last dispatch, Never before the first

env == <<deadline, policy>>
vars == <<now, steps, env, aborted, next, delay, dispatched>>

Cancelled == aborted \/ now >= deadline

\* The delay that arm() passes to setTimeout at time t.
Delay(n, t) == Max({0, Min({n - t, MaxDelay} \cup (IF deadline = NoDeadline THEN {} ELSE {deadline - t}))})

Init ==
    /\ now \in 0..MaxTime /\ steps = 0
    /\ deadline \in 0..MaxTime \cup {NoDeadline}
    /\ policy \in {"FireOnce", "Skip"}
    /\ aborted \in BOOLEAN
    /\ next = now + Milliseconds
    /\ delay = IF Cancelled THEN Off ELSE Delay(next, now)
    /\ dispatched = Never

\* Time passes; a due timer may be late.
Tick ==
    /\ now < MaxTime
    /\ now' = now + 1
    /\ delay' = IF delay > 0 THEN delay - 1 ELSE delay
    /\ UNCHANGED <<steps, env, aborted, next, dispatched>>

\* The wall clock is set.
ClockStep ==
    /\ steps < MaxSteps
    /\ now' \in (0..MaxTime) \ {now}
    /\ steps' = steps + 1
    /\ UNCHANGED <<env, aborted, next, delay, dispatched>>

\* The abort listener stops the timer.
Abort ==
    /\ ~aborted
    /\ aborted' = TRUE
    /\ delay' = Off
    /\ UNCHANGED <<now, steps, env, next, dispatched>>

\* Number of occurrences that are due.
Due == (now - next) \div Milliseconds + 1

\* Mutant: the cadence restarts from the time of the callback.
FireDrifts ==
    /\ delay = 0
    /\ next' = now + Milliseconds
    /\ delay' = Delay(next', now)
    /\ dispatched' = now
    /\ UNCHANGED <<now, steps, env, aborted>>

\* fire(): the timer callback.
Fire ==
    /\ delay = 0
    /\ IF Cancelled
       THEN delay' = Off /\ UNCHANGED <<next, dispatched>>
       ELSE IF Due < 1
       THEN delay' = Delay(next, now) /\ UNCHANGED <<next, dispatched>>
       ELSE /\ next' = next + Due * Milliseconds
            /\ delay' = Delay(next', now)
            /\ dispatched' = IF Due = 1 \/ policy = "FireOnce"
                             THEN next + (Due - 1) * Milliseconds ELSE dispatched
    /\ UNCHANGED <<now, steps, env, aborted>>

Next == Tick \/ ClockStep \/ Abort \/ Fire

Spec == Init /\ [][Next]_vars

(***************************************************************************)
(* Properties                                                              *)
(***************************************************************************)

\* Types; a delay fits setTimeout.
TypeOK ==
    /\ now \in 0..MaxTime /\ next \in Nat
    /\ delay \in {Off} \cup 0..MaxDelay
    /\ dispatched \in {Never} \cup Nat

\* Each dispatch is for the latest occurrence that is due: on the cadence, not
\* in the future, less than an interval old; and no occurrence is dispatched
\* twice, however late the timers are and however the clock is set.
LatestDueOnce ==
    dispatched' # dispatched =>
        /\ dispatched' > dispatched
        /\ dispatched' <= now /\ now < dispatched' + Milliseconds
        /\ (dispatched' - next) % Milliseconds = 0

\* A cancelled owner, also one whose deadline has passed before the timer
\* that is due runs, starts no execution.
CancelledStaysQuiet ==
    Cancelled => dispatched' = dispatched
=============================================================================
