------------------------- MODULE HashMapJoinStorage -------------------------
(***************************************************************************)
(* The join storage of the Join and MultiJoin operators (src/runtime/      *)
(* store/hash-map-join-storage.ts).  Messages with the same key meet in a  *)
(* group; every join and every expiry of a group is an operation of the    *)
(* group's promise chain, and runs a callback of the stream there.  Two    *)
(* generations of a map hold the live groups.                              *)
(*                                                                         *)
(* Time is relative: left counts the ticks to a deadline, and Tick lets    *)
(* one pass.                                                               *)
(***************************************************************************)
EXTENDS Integers, FiniteSets, Sequences, TLC

CONSTANTS
    Messages, Keys,
    Key,          \* the key of a message, [Messages -> Keys]
    Life,         \* ticks to the deadline of a message's context, or Never
    TTLs,         \* what the configuration's ttlMs() may return
    Groups,       \* identities of groups, reused once a group is unreachable
    SHRINK_FACTOR,
    EarlyCancel,  \* a context may be cancelled before its value is stored
    Lag,          \* a tick may pass before a promise job that is due has run
    None

Never == -1

\* The values of the constants for TLC: messages of one key, of which one has
\* a context deadline.
OneKey == [m \in Messages |-> CHOOSE k \in Keys : TRUE]
OneDeadline == [m \in Messages |-> IF m = CHOOSE n \in Messages : TRUE THEN 1 ELSE Never]

VARIABLES
    group,         \* the state of every group
    current, previous, \* the two generations: [Keys -> Groups \cup {None}]
    highWaterMark,
    join,          \* joinValue() of every message: its stage, ttl and renewTTL
    left, aborted, \* per message: ticks to its context deadline, its signal
    activeTTLJoins,
    stop,          \* stop(): "no", "waiting" for joins, or "done"
    closed         \* history: messages of groups that completed or expired

vars == <<group, current, previous, highWaterMark, join, left, aborted,
          activeTTLJoins, stop, closed>>

HasDeadline(m) == Life[m] # Never

Unused == [key |-> None, left |-> Never, processed |-> FALSE, values |-> {},
           arm |-> None, tail |-> <<>>, running |-> FALSE]

\* A message outside of joinValue().
Outside(stage) == [stage |-> stage, ttl |-> 0, renew |-> FALSE]

Init ==
    /\ group = [g \in Groups |-> Unused]
    /\ current = [k \in Keys |-> None] /\ previous = [k \in Keys |-> None]
    /\ highWaterMark = 0
    /\ join = [m \in Messages |-> Outside("new")]
    /\ left = Life
    /\ aborted = [m \in Messages |-> FALSE]
    /\ activeTTLJoins = 0
    /\ stop = "no" /\ closed = {}

Op(kind, m) == [kind |-> kind, m |-> m]

expired(x) == x.left = 0

Located(g) == group[g].key # None /\ g \in {current[group[g].key], previous[group[g].key]}

Expiring(x) == \E j \in 1..Len(x.tail) : x.tail[j].kind = "expire"

\* Nothing refers to the group any more.
Free(g) == group[g] = Unused

findLive(k) ==
    LET g == IF current[k] # None THEN current[k] ELSE previous[k]
    IN  IF g # None /\ ~expired(group[g]) THEN g ELSE None

\* armDeadline(): a context with a deadline is listened to, and expires the
\* group at once when it was aborted; any other one gets a timer.
armDeadline(x, m) ==
    IF HasDeadline(m) /\ aborted[m]
    THEN [x EXCEPT !.arm = None, !.tail = Append(@, Op("expire", m))]
    ELSE [x EXCEPT !.arm = m]

Created(m, ttl) ==
    LET x == [Unused EXCEPT !.key = Key[m]]
    IN  IF ttl > 0 THEN armDeadline([x EXCEPT !.left = ttl], m) ELSE x

\* One turn of the loop in joinValue(): the live group of the key, or a new
\* one (createItem) that replaces an expired one, gets one more operation.
Attempt(m, ttl, renew) ==
    LET found == findLive(Key[m])
    IN  /\ join' = [join EXCEPT ![m] = [stage |-> "queued", ttl |-> ttl, renew |-> renew]]
        /\ IF found # None
           THEN /\ group' = [group EXCEPT ![found].tail = Append(@, Op("join", m))]
                /\ UNCHANGED <<current, previous>>
           ELSE \E g \in Groups :
                /\ Free(g)
                /\ group' = [group EXCEPT ![g] =
                       LET x == Created(m, ttl)
                       IN  [x EXCEPT !.tail = Append(@, Op("join", m))]]
                /\ current' = [current EXCEPT ![Key[m]] = g]
                /\ previous' = [previous EXCEPT ![Key[m]] = None]

Entered(ttl) == activeTTLJoins' = activeTTLJoins + (IF ttl > 0 THEN 1 ELSE 0)

\* joinValue() of m.  A TTL join waits for a stop() that was called.
JoinValue(m) ==
    /\ join[m].stage = "new"
    /\ \E t \in TTLs, renew \in BOOLEAN :
        LET ttl == IF HasDeadline(m) THEN left[m] ELSE t IN
        IF ttl > 0 /\ stop # "no"
        THEN /\ join' = [join EXCEPT ![m] = [stage |-> "held", ttl |-> ttl, renew |-> renew]]
             /\ UNCHANGED <<group, current, previous, activeTTLJoins>>
        ELSE Attempt(m, ttl, renew) /\ Entered(ttl)
    /\ UNCHANGED <<highWaterMark, left, aborted, stop, closed>>

Resume(m) ==
    /\ \/ /\ join[m].stage = "held" /\ stop = "done"
          /\ Entered(join[m].ttl)
       \/ join[m].stage = "retry" /\ UNCHANGED activeTTLJoins
    /\ Attempt(m, join[m].ttl, join[m].renew)
    /\ UNCHANGED <<highWaterMark, left, aborted, stop, closed>>

(***************************************************************************)
(* The operations of a group's tail                                        *)
(***************************************************************************)

\* The head of the tail may start: it is of the given kind and not running.
Ready(g, kind) ==
    /\ group[g].tail # <<>> /\ ~group[g].running
    /\ Head(group[g].tail).kind = kind

Dequeued(x) == [x EXCEPT !.tail = Tail(@), !.running = FALSE]

\* The group x after its head operation, forgotten when nothing refers to it.
Settled(x, located) ==
    IF located \/ Len(x.tail) > 1 \/ x.arm # None THEN Dequeued(x) ELSE Unused

\* The operation of a join: the group must still be the live one of its key.
StartJoin(g) ==
    /\ Ready(g, "join")
    /\ LET m == Head(group[g].tail).m IN
       IF group[g].processed \/ expired(group[g]) \/ ~Located(g)
       THEN /\ group' = [group EXCEPT ![g] = Settled(@, Located(g))]
            /\ join' = [join EXCEPT ![m].stage = "retry"]
       ELSE /\ group' = [group EXCEPT ![g].values = @ \cup {m}, ![g].running = TRUE]
            /\ join' = [join EXCEPT ![m].stage = "callback"]
    /\ UNCHANGED <<current, previous, highWaterMark, left, aborted, activeTTLJoins,
                   stop, closed>>

removed(generation, g) == [k \in Keys |-> IF generation[k] = g THEN None ELSE generation[k]]

\* The finally block of joinValue().
Leave(m) ==
    LET n == activeTTLJoins - (IF join[m].ttl > 0 THEN 1 ELSE 0) IN
    /\ activeTTLJoins' = n
    /\ stop' = IF join[m].ttl > 0 /\ n = 0 /\ stop = "waiting" THEN "done" ELSE stop

\* The callback of a join returned true: the group is complete.
Complete(g, m) ==
    /\ group' = [group EXCEPT ![g] =
           Settled([@ EXCEPT !.processed = TRUE, !.arm = IF Located(g) THEN None ELSE @], FALSE)]
    /\ current' = removed(current, g) /\ previous' = removed(previous, g)
    /\ closed' = closed \cup group[g].values

\* It returned false: the group stays, and may have its TTL renewed.
Keep(g, m) ==
    LET renews == Located(g) /\ join[m].renew /\ join[m].ttl > 0
        k == group[g].key IN
    /\ group' = [group EXCEPT ![g] =
           IF renews THEN armDeadline([Dequeued(@) EXCEPT !.left = join[m].ttl], m)
           ELSE Settled(@, Located(g))]
    /\ IF renews
       THEN /\ current' = [current EXCEPT ![k] = g]
            /\ previous' = removed(previous, g)
       ELSE UNCHANGED <<current, previous>>
    /\ UNCHANGED closed

\* It threw: the value stays in the group, the error goes to the caller.
Fail(g, m) ==
    /\ group' = [group EXCEPT ![g] = Settled(@, Located(g))]
    /\ UNCHANGED <<current, previous, closed>>

EndJoin(g) ==
    /\ group[g].running /\ Head(group[g].tail).kind = "join"
    /\ LET m == Head(group[g].tail).m IN
       /\ \/ Complete(g, m) /\ join' = [join EXCEPT ![m] = Outside("joined")]
          \/ Keep(g, m) /\ join' = [join EXCEPT ![m] = Outside("joined")]
          \/ Fail(g, m) /\ join' = [join EXCEPT ![m] = Outside("failed")]
       /\ Leave(m)
    /\ UNCHANGED <<highWaterMark, left, aborted>>

\* Mutant: the expiry does not look whether the TTL was renewed meanwhile.
Renewed(g) == FALSE

\* The timer of a configured TTL finds that the group was renewed.
renewedMeanwhile(g) ==
    LET m == Head(group[g].tail).m
    IN  ~HasDeadline(m) /\ group[g].left > 0

\* Mutant: a group that completed is expired all the same.
StartExpireAgain(g) ==
    /\ Ready(g, "expire")
    /\ IF renewedMeanwhile(g)
       THEN /\ group' = [group EXCEPT ![g] = armDeadline(Dequeued(@), Head(@.tail).m)]
            /\ UNCHANGED closed
       ELSE /\ group' = [group EXCEPT ![g].processed = TRUE, ![g].running = TRUE]
            /\ closed' = closed \cup group[g].values
    /\ UNCHANGED <<current, previous, highWaterMark, join, left, aborted, activeTTLJoins,
                   stop>>

\* The operation of an expiry.
StartExpire(g) ==
    /\ Ready(g, "expire")
    /\ IF group[g].processed
       THEN group' = [group EXCEPT ![g] = Settled(@, Located(g))] /\ UNCHANGED closed
       ELSE IF renewedMeanwhile(g)
       THEN /\ group' = [group EXCEPT ![g] = armDeadline(Dequeued(@), Head(@.tail).m)]
            /\ UNCHANGED closed
       ELSE /\ group' = [group EXCEPT ![g].processed = TRUE, ![g].running = TRUE]
            /\ closed' = closed \cup group[g].values
    /\ UNCHANGED <<current, previous, highWaterMark, join, left, aborted, activeTTLJoins,
                   stop>>

\* The deadline callback settled, also with an error.
EndExpire(g) ==
    /\ group[g].running /\ Head(group[g].tail).kind = "expire"
    /\ group' = [group EXCEPT ![g] = Settled(@, FALSE)]
    /\ current' = removed(current, g) /\ previous' = removed(previous, g)
    /\ UNCHANGED <<highWaterMark, join, left, aborted, activeTTLJoins, stop, closed>>

(***************************************************************************)
(* Timers, contexts, rotation and stop                                     *)
(***************************************************************************)

\* Mutant: the timer of a group that was replaced is dropped.
expireLocated(g) ==
    IF Located(g)
    THEN [group[g] EXCEPT !.arm = None, !.tail = Append(@, Op("expire", group[g].arm))]
    ELSE [group[g] EXCEPT !.arm = None]

\* expire(): the deadline is disarmed and the expiry joins the tail.
expire(g) == [group[g] EXCEPT !.arm = None, !.tail = Append(@, Op("expire", group[g].arm))]

\* The TTL timer of a group fires.
Timeout(g) ==
    /\ group[g].arm # None /\ ~HasDeadline(group[g].arm) /\ expired(group[g])
    /\ group' = [group EXCEPT ![g] = expire(g)]
    /\ UNCHANGED <<current, previous, highWaterMark, join, left, aborted, activeTTLJoins,
                   stop, closed>>

\* The context of m is cancelled, or its deadline timer fires.
Abort(m) ==
    /\ HasDeadline(m) /\ ~aborted[m]
    /\ EarlyCancel \/ join[m].stage \in {"callback", "joined", "failed"}
    /\ aborted' = [aborted EXCEPT ![m] = TRUE]
    /\ group' = [g \in Groups |-> IF group[g].arm = m THEN expire(g) ELSE group[g]]
    /\ UNCHANGED <<current, previous, highWaterMark, join, left, activeTTLJoins, stop,
                   closed>>

Down(n) == IF n > 0 THEN n - 1 ELSE n

\* A promise job of the storage is due.
JobDue ==
    \/ \E g \in Groups : group[g].tail # <<>> /\ ~group[g].running
    \/ \E m \in Messages : join[m].stage = "retry" \/ (join[m].stage = "held" /\ stop = "done")

\* Time passes.
Tick ==
    /\ Lag \/ ~JobDue
    /\ left' = [m \in Messages |-> Down(left[m])]
    /\ group' = [g \in Groups |-> [group[g] EXCEPT !.left = Down(@)]]
    /\ UNCHANGED <<current, previous, highWaterMark, join, aborted, activeTTLJoins, stop,
                   closed>>

Size(generation) == Cardinality({k \in Keys : generation[k] # None})

\* The old generation's groups join the young ones.
Rescued(k) == IF current[k] # None THEN current[k] ELSE previous[k]

\* The rotation timer, which stop() clears, fires.
Rotate ==
    LET total == Size(current) + Size(previous) IN
    /\ stop = "no" /\ \E t \in TTLs : t > 0
    /\ IF highWaterMark = 0 \/ total * SHRINK_FACTOR < highWaterMark
       THEN /\ highWaterMark' = total
            /\ previous' = [k \in Keys |-> Rescued(k)]
            /\ current' = [k \in Keys |-> None]
       ELSE /\ highWaterMark' = IF total > highWaterMark THEN total ELSE highWaterMark
            /\ UNCHANGED <<current, previous>>
    /\ UNCHANGED <<group, join, left, aborted, activeTTLJoins, stop, closed>>

\* A TTL join was admitted and has not returned.
Active(m) == join[m].ttl > 0 /\ join[m].stage \in {"queued", "callback", "retry"}

Stop ==
    /\ stop = "no"
    /\ stop' = IF activeTTLJoins = 0 THEN "done" ELSE "waiting"
    /\ UNCHANGED <<group, current, previous, highWaterMark, join, left, aborted,
                   activeTTLJoins, closed>>

GroupStep(g) == StartJoin(g) \/ EndJoin(g) \/ StartExpire(g) \/ EndExpire(g)

Next ==
    \/ \E m \in Messages : JoinValue(m) \/ Resume(m) \/ Abort(m)
    \/ \E g \in Groups : GroupStep(g) \/ Timeout(g)
    \/ Tick \/ Rotate \/ Stop

Spec == Init /\ [][Next]_vars

\* Promise jobs run, callbacks settle, time passes, timers fire, and the
\* timer of a context deadline aborts its signal.
Fairness ==
    /\ WF_vars(Tick)
    /\ \A g \in Groups : WF_vars(GroupStep(g)) /\ WF_vars(Timeout(g))
    /\ \A m \in Messages : WF_vars(Resume(m)) /\ WF_vars(left[m] = 0 /\ Abort(m))

FairSpec == Spec /\ Fairness

(***************************************************************************)
(* Properties                                                              *)
(***************************************************************************)

TypeOK ==
    /\ group \in [Groups -> [key : Keys \cup {None}, left : Nat \cup {Never},
                             processed : BOOLEAN, values : SUBSET Messages,
                             arm : Messages \cup {None},
                             tail : Seq([kind : {"join", "expire"}, m : Messages]),
                             running : BOOLEAN]]
    /\ current \in [Keys -> Groups \cup {None}]
    /\ previous \in [Keys -> Groups \cup {None}]
    /\ activeTTLJoins = Cardinality({m \in Messages : Active(m)})

\* A stored value is never lost: until its group completed or expired, the
\* group is in one of the generations, or its expiry is armed or pending,
\* whatever replaced or rotated it and whatever its callbacks answered.
NoValueLost ==
    \A m \in Messages : join[m].stage \in {"callback", "joined", "failed"} =>
        \/ m \in closed
        \/ \E g \in Groups :
            /\ m \in group[g].values /\ ~group[g].processed
            /\ Located(g) \/ group[g].arm # None \/ Expiring(group[g]) \/ group[g].running

\* A value is part of one closing callback at most, and is not shown to any
\* other callback after it: none starts on a group with a value of a group
\* that completed or expired.
ClosedOnce ==
    \A g \in Groups :
        group[g].running' /\ ~group[g].running => group[g].values \cap closed = {}

\* A key has a group in one generation only, so that rotation evicts none.
OneGeneration ==
    \A k \in Keys : current[k] = None \/ previous[k] = None

\* A group that was replaced while a callback of it was waiting is never
\* put back (README.md:120).
NeverRepublished ==
    \A g \in Groups : ~Located(g) /\ ~Free(g) => ~Located(g)'

\* A configured TTL that was renewed while its timer's expiry was waiting is
\* respected: the expiry callback runs on a group whose time is up, or for
\* a context that was aborted (README.md:119).
ExpiresWhenDue ==
    \A g \in Groups :
        group[g].running' /\ ~group[g].running /\ Head(group[g].tail).kind = "expire"
            => expired(group[g]) \/ aborted[Head(group[g].tail).m]

\* README.md:117: "An explicit context deadline controls expiry, including
\* cancellation of that context."  The join of a message whose context was
\* cancelled comes to an end.
CancelledJoinEnds ==
    \A m \in Messages :
        aborted[m] /\ join[m].stage = "queued" ~> join[m].stage \in {"joined", "failed"}
=============================================================================
