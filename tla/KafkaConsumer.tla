--------------------------- MODULE KafkaConsumer ----------------------------
(***************************************************************************)
(* ConfluentConsumer of src/datasource/kafka/confluent.ts: what a record   *)
(* goes through between the native consumer and the endpoint, and which    *)
(* offsets are acknowledged, across rebalances, failures and the stop.     *)
(*                                                                         *)
(* An assignment lease is named by the generation that installed it.  The  *)
(* native consumer (positions, paused partitions, fetched batches, commit  *)
(* callbacks, rebalance events) is modelled from how it is used: a batch   *)
(* is fetched under the assignment of the moment and is dropped with it.   *)
(* Handlers are application code: they mark or commit their record, keep   *)
(* the control, return, or throw.                                          *)
(***************************************************************************)
EXTENDS Integers, FiniteSets

CONSTANTS
    Partitions,
    Records,     \* number of records in every partition
    Batch,       \* most records of one fetch
    MaxGen,      \* bound on #generation
    Restoring,   \* the endpoint restores a checkpoint
    Owned        \* the consumer is run and stopped by its endpoint

VARIABLES
    owned,      \* native: the group gave partitions to this consumer
    position,   \* native: next offset to fetch
    fetched,    \* native: the batch consume() will return, <<first, end>>
    paused,     \* native
    stored,     \* native: stored offset, for auto commit
    committed,  \* the broker's offset of the group
    acked,      \* history: offsets whose handler marked or committed them
    generation, \* #generation
    lease,      \* #assignments: the generation that installed it, or 0
    delivered,  \* offsets delivered under the lease, whose controls exist
    restores,   \* running restoreAssignment() calls, <<generation, phase>>
    commits,    \* #commits: <<partition, lease, offset>>
    tasks,      \* #tasks: deliver() calls
    failure,    \* #failure: "none", "error" or "checkpoint"
    stopping,   \* #stopping
    cancelled,  \* checkpoint.context: the endpoint's owner context
    run         \* the consume() loop: "polling", "draining" or "ended"

native == <<owned, position, fetched, paused, stored, committed>>
leases == <<generation, lease, delivered>>
vars == <<native, leases, acked, restores, commits, tasks, failure, stopping, cancelled, run>>

Empty == <<0, 0>>
Offsets == 0..(Records - 1)

Init ==
    /\ owned = FALSE
    /\ position = [p \in Partitions |-> 0]
    /\ fetched = [p \in Partitions |-> Empty]
    /\ paused = [p \in Partitions |-> FALSE]
    /\ stored = [p \in Partitions |-> 0]
    /\ committed = [p \in Partitions |-> 0]
    /\ acked = [p \in Partitions |-> {}]
    /\ generation = 0
    /\ lease = [p \in Partitions |-> 0]
    /\ delivered = [p \in Partitions |-> {}]
    /\ restores = {}
    /\ commits = {}
    /\ tasks = {}
    /\ failure = "none"
    /\ stopping = FALSE
    /\ cancelled = FALSE
    /\ run = "polling"

\* The context of restoreAssignment(), of the loop and of current().
Alive == failure = "none" /\ ~cancelled

\* current(); the end of a lease is its removal from #assignments.
Current(t) == Alive /\ lease[t.p] = t.lease

\* invalidate()
Invalidate ==
    /\ generation' = generation + 1
    /\ lease' = [p \in Partitions |-> 0]
    /\ delivered' = [p \in Partitions |-> {}]

\* fail(): the first failure is kept, all leases end, all commits are rejected.
Fail(kind) ==
    /\ failure' = (IF failure = "none" THEN kind ELSE failure)
    /\ Invalidate
    /\ commits' = {}

(***************************************************************************)
(* Rebalances, dispatched by the polls of a running loop                   *)
(***************************************************************************)

\* Native unassign(): stored offsets are committed, fetched records dropped.
Unassign ==
    /\ committed' = [p \in Partitions |-> IF stored[p] > 0 THEN stored[p] ELSE committed[p]]
    /\ stored' = [p \in Partitions |-> 0]
    /\ fetched' = [p \in Partitions |-> Empty]
    /\ paused' = [p \in Partitions |-> FALSE]

\* ERR__REVOKE_PARTITIONS
Revoke ==
    /\ run = "polling" /\ owned /\ generation < MaxGen
    /\ owned' = FALSE
    /\ Invalidate
    /\ Unassign
    /\ UNCHANGED <<position, acked, restores, commits, tasks, failure, stopping, cancelled, run>>

\* ERR__ASSIGN_PARTITIONS: the assignment stays closed while it is restored.
Assign ==
    /\ run = "polling" /\ ~owned /\ generation < MaxGen
    /\ owned' = TRUE
    /\ Invalidate
    /\ restores' = restores \cup {<<generation + 1, "reading">>}
    /\ UNCHANGED <<position, fetched, paused, stored, committed, acked, commits, tasks, failure,
                   stopping, cancelled, run>>

Latest(g) == g = generation /\ ~stopping

\* The checkpoint is read and its offsets are within the log, or the restore
\* is out of date by then.
RestoreRead(g) ==
    /\ <<g, "reading">> \in restores
    /\ restores' = (restores \ {<<g, "reading">>}) \cup
                   {<<h, "settling">> : h \in {h \in {g} : Latest(h) /\ Alive}}
    /\ UNCHANGED <<native, leases, acked, commits, tasks, failure, stopping, cancelled, run>>

\* The checkpoint is invalid, does not cover a partition or is out of the
\* log: only the restore of the current generation fails the consumer.
RestoreFails(g) ==
    /\ <<g, "reading">> \in restores
    /\ restores' = restores \ {<<g, "reading">>}
    /\ IF Latest(g)
       THEN Fail("checkpoint") /\ Unassign
       ELSE UNCHANGED <<leases, commits, failure, fetched, paused, stored, committed>>
    /\ UNCHANGED <<owned, position, acked, tasks, stopping, cancelled, run>>

\* The offsets from which p may be consumed: the broker's, or a checkpoint,
\* which covers only what was acknowledged.
Start(p) ==
    IF Restoring
    THEN {o \in 0..Records : \A q \in 0..(o - 1) : q \in acked[p]}
    ELSE {committed[p]}

\* assign() and the new leases.
Open(g) ==
    /\ \E o \in [Partitions -> 0..Records] :
        /\ \A p \in Partitions : o[p] \in Start(p)
        /\ position' = o
    /\ lease' = [p \in Partitions |-> g]

\* Mutant: the pending commits of the previous assignment are not waited for.
InstallUnsettled(g) ==
    /\ <<g, "settling">> \in restores
    /\ restores' = restores \ {<<g, "settling">>}
    /\ IF Latest(g) /\ Alive THEN Open(g) ELSE UNCHANGED <<position, lease>>
    /\ UNCHANGED <<owned, fetched, paused, stored, committed, generation, delivered, acked,
                   commits, tasks, failure, stopping, cancelled, run>>

\* The commits of older generations have settled: while the assignment is
\* closed no other commit is submitted.
Install(g) ==
    /\ <<g, "settling">> \in restores /\ commits = {}
    /\ restores' = restores \ {<<g, "settling">>}
    /\ IF Latest(g) /\ Alive THEN Open(g) ELSE UNCHANGED <<position, lease>>
    /\ UNCHANGED <<owned, fetched, paused, stored, committed, generation, delivered, acked,
                   commits, tasks, failure, stopping, cancelled, run>>

(***************************************************************************)
(* The consume() loop                                                      *)
(***************************************************************************)

\* Native: the consume() call in flight fetches a batch.
Fetch(p) ==
    /\ run = "polling" /\ owned /\ lease[p] # 0 /\ ~paused[p]
    /\ fetched[p] = Empty /\ position[p] < Records
    /\ \E end \in (position[p] + 1)..(position[p] + Batch) :
        /\ end <= Records
        /\ fetched' = [fetched EXCEPT ![p] = <<position[p], end>>]
        /\ position' = [position EXCEPT ![p] = end]
    /\ UNCHANGED <<owned, paused, stored, committed, leases, acked, restores, commits, tasks,
                   failure, stopping, cancelled, run>>

\* A delivery whose first handler is called.
Task(p) ==
    [p |-> p, lease |-> lease[p], next |-> fetched[p][1], end |-> fetched[p][2],
     at |-> "handler", marked |-> "no", done |-> FALSE]

\* The partitions of a returned batch that are assigned.
Accepted == {p \in Partitions : fetched[p] # Empty /\ lease[p] # 0 /\ ~stopping}

\* consume() returns: every accepted partition is paused and gets a delivery.
\* A stopping consumer drops the batch.
Poll ==
    /\ run = "polling" /\ \E p \in Partitions : fetched[p] # Empty
    /\ tasks' = tasks \cup {Task(p) : p \in {p \in Accepted : Alive}}
    /\ delivered' = [p \in Partitions |-> delivered[p] \cup
                        (IF p \in Accepted /\ Alive THEN {fetched[p][1]} ELSE {})]
    /\ paused' = [p \in Partitions |-> paused[p] \/ p \in Accepted]
    /\ fetched' = [p \in Partitions |-> Empty]
    /\ UNCHANGED <<owned, position, stored, committed, generation, lease, acked, restores, commits,
                   failure, stopping, cancelled, run>>

\* consume() rejects, or the native client reports an error.
NativeError ==
    /\ run = "polling" /\ failure = "none"
    /\ Fail("error")
    /\ UNCHANGED <<native, acked, restores, tasks, stopping, cancelled, run>>

\* The loop ends, and with it the polls; what is accepted is waited for.
LoopEnds ==
    /\ run = "polling"
    /\ ~Alive \/ (stopping /\ tasks = {})
    /\ IF Alive THEN UNCHANGED leases ELSE Invalidate
    /\ run' = "draining"
    /\ UNCHANGED <<native, acked, restores, commits, tasks, failure, stopping, cancelled>>

RunEnds ==
    /\ run = "draining" /\ tasks = {}
    /\ run' = "ended"
    /\ UNCHANGED <<native, leases, acked, restores, commits, tasks, failure, stopping, cancelled>>

(***************************************************************************)
(* deliver() and the controls of its records                               *)
(***************************************************************************)

\* control.mark(), with metadata or not.
Mark(t) ==
    /\ t.at = "handler" /\ t.marked = "no" /\ Current(t)
    /\ \E m \in {"store", "metadata"} :
        tasks' = (tasks \ {t}) \cup {[t EXCEPT !.marked = m]}
    /\ acked' = [acked EXCEPT ![t.p] = @ \cup {t.next}]
    /\ UNCHANGED <<native, leases, restores, commits, failure, stopping, cancelled, run>>

\* control.commit(), also of a control the application kept: assertCurrent().
Commit(p, o) ==
    /\ Alive /\ o \in delivered[p] /\ <<p, lease[p], o>> \notin commits
    /\ commits' = commits \cup {<<p, lease[p], o>>}
    /\ acked' = [acked EXCEPT ![p] = @ \cup {o}]
    /\ UNCHANGED <<native, leases, restores, tasks, failure, stopping, cancelled, run>>

\* The delivery is over and its partition is resumed.
Ends(t) ==
    /\ tasks' = tasks \ {t}
    /\ paused' = [p \in Partitions |-> paused[p] /\ ~(p = t.p /\ Current(t) /\ ~stopping)]
    /\ UNCHANGED delivered

\* The next record is delivered, or the batch is done.
Advance(t) ==
    IF t.next + 1 < t.end
    THEN /\ tasks' = (tasks \ {t}) \cup
                     {[t EXCEPT !.next = @ + 1, !.at = "handler", !.marked = "no", !.done = FALSE]}
         /\ delivered' = [delivered EXCEPT ![t.p] = @ \cup {t.next + 1}]
         /\ UNCHANGED paused
    ELSE Ends(t)

\* Mutant: the whole batch is stored with its first record.
StoreBatch(t) == [stored EXCEPT ![t.p] = t.end]

\* offsetsStore()
Store(t) == [stored EXCEPT ![t.p] = t.next + 1]

\* The handler returned.
Returned(t) ==
    /\ t.at = "handler"
    /\ \/ /\ ~Current(t) /\ Ends(t)
          /\ UNCHANGED <<stored, commits>>
       \/ /\ Current(t) /\ t.done /\ Advance(t)
          /\ UNCHANGED <<stored, commits>>
       \/ /\ Current(t) /\ ~t.done /\ t.marked = "no"
          /\ tasks' = (tasks \ {t}) \cup {[t EXCEPT !.at = "seek"]}
          /\ UNCHANGED <<paused, delivered, stored, commits>>
       \/ /\ Current(t) /\ ~t.done /\ t.marked = "metadata"
          /\ commits' = commits \cup {<<t.p, t.lease, t.next>>}
          /\ tasks' = (tasks \ {t}) \cup {[t EXCEPT !.at = "commit"]}
          /\ UNCHANGED <<paused, delivered, stored>>
       \/ /\ Current(t) /\ ~t.done /\ t.marked = "store"
          /\ stored' = Store(t)
          /\ Advance(t)
          /\ UNCHANGED commits
    /\ UNCHANGED <<owned, position, fetched, committed, generation, lease, acked, restores,
                   failure, stopping, cancelled, run>>

\* Mutant: a record that was not acknowledged is passed over.
SoughtPast(t) ==
    /\ t.at = "seek"
    /\ Ends(t)
    /\ UNCHANGED <<owned, position, fetched, stored, committed, generation, lease, acked, restores,
                   commits, failure, stopping, cancelled, run>>

\* seek() back to the record that was not acknowledged has settled.
Sought(t) ==
    /\ t.at = "seek"
    /\ position' = IF lease[t.p] = t.lease THEN [position EXCEPT ![t.p] = t.next] ELSE position
    /\ Ends(t)
    /\ UNCHANGED <<owned, fetched, stored, committed, generation, lease, acked, restores, commits,
                   failure, stopping, cancelled, run>>

\* The commit with metadata has settled: the loop goes on.
Committed(t) ==
    /\ t.at = "commit" /\ t.done
    /\ IF Current(t) THEN Advance(t) ELSE Ends(t)
    /\ UNCHANGED <<owned, position, fetched, stored, committed, generation, lease, acked, restores,
                   commits, failure, stopping, cancelled, run>>

\* The handler throws, seek() fails, or the commit with metadata is rejected:
\* an error of the current lease fails the consumer.
Throws(t) ==
    /\ \/ t.at \in {"handler", "seek", "rejected"}
       \/ t.at = "commit" /\ ~t.done /\ <<t.p, t.lease, t.next>> \notin commits
    /\ tasks' = tasks \ {t}
    /\ IF Current(t) THEN Fail("error") ELSE UNCHANGED <<leases, commits, failure>>
    /\ UNCHANGED <<native, acked, restores, stopping, cancelled, run>>

(***************************************************************************)
(* Commits settle (offset_commit_cb), dispatched by polls                  *)
(***************************************************************************)

\* The broker has the offset: the promises of that offset resolve.
Settle(p, next) ==
    /\ committed' = [committed EXCEPT ![p] = next]
    /\ commits' = {c \in commits : ~(c[1] = p /\ c[3] + 1 = next)}
    /\ tasks' = {[t EXCEPT !.done = @ \/ (<<t.p, t.lease, t.next>> \in commits
                                          /\ t.p = p /\ t.next + 1 = next)] : t \in tasks}

CommitDone(c) ==
    /\ run = "polling"
    /\ Settle(c[1], c[3] + 1)
    /\ UNCHANGED <<owned, position, fetched, paused, stored, leases, acked, restores, failure,
                   stopping, cancelled, run>>

AutoCommit(p) ==
    /\ run = "polling" /\ stored[p] > 0
    /\ Settle(p, stored[p])
    /\ stored' = [stored EXCEPT ![p] = 0]
    /\ UNCHANGED <<owned, position, fetched, paused, leases, acked, restores, failure, stopping,
                   cancelled, run>>

\* An error rejects every pending commit.
CommitError ==
    /\ run = "polling" /\ commits # {}
    /\ commits' = {}
    /\ tasks' = {IF t.at = "commit" /\ ~t.done THEN [t EXCEPT !.at = "rejected"] ELSE t : t \in tasks}
    /\ UNCHANGED <<native, leases, acked, restores, failure, stopping, cancelled, run>>

(***************************************************************************)
(* stop() and disconnect()                                                 *)
(***************************************************************************)

\* stop() pauses what is assigned.  An endpoint cancels its owner context
\* first, in the same turn (stopAdmission).
Stop ==
    /\ ~stopping
    /\ stopping' = TRUE
    /\ cancelled' = (cancelled \/ Owned)
    /\ paused' = [p \in Partitions |-> paused[p] \/ lease[p] # 0]
    /\ UNCHANGED <<owned, position, fetched, stored, committed, leases, acked, restores, commits,
                   tasks, failure, run>>

\* disconnect() ends all leases and rejects all commits.  An endpoint calls
\* it once run() has ended.
Disconnect ==
    /\ stopping /\ (Owned => run = "ended")
    /\ commits # {} \/ \E p \in Partitions : lease[p] # 0
    /\ Invalidate
    /\ commits' = {}
    /\ UNCHANGED <<native, acked, restores, tasks, failure, stopping, cancelled, run>>

Next ==
    \/ Revoke \/ Assign
    \/ \E g \in 1..MaxGen : RestoreRead(g) \/ RestoreFails(g) \/ Install(g)
    \/ \E p \in Partitions : Fetch(p) \/ AutoCommit(p)
    \/ Poll \/ NativeError \/ LoopEnds \/ RunEnds
    \/ \E t \in tasks : Mark(t) \/ Returned(t) \/ Sought(t) \/ Committed(t) \/ Throws(t)
    \/ \E p \in Partitions : \E o \in delivered[p] : Commit(p, o)
    \/ \E c \in commits : CommitDone(c)
    \/ CommitError
    \/ Stop \/ Disconnect

\* Handlers and native calls settle; the callbacks of commits come while the
\* loop polls.
Fairness ==
    /\ WF_vars(\E t \in tasks : \/ Returned(t) \/ Sought(t) \/ Committed(t)
                                \/ t.at \in {"commit", "rejected"} /\ Throws(t))
    /\ \A p \in Partitions, o \in Offsets :
        WF_vars(\E c \in commits : c[1] = p /\ c[3] = o /\ CommitDone(c))
    /\ WF_vars(\E g \in 1..MaxGen : RestoreRead(g) \/ Install(g))
    /\ WF_vars(Poll) /\ WF_vars(LoopEnds) /\ WF_vars(RunEnds)

Spec == Init /\ [][Next]_vars
FairSpec == Spec /\ Fairness

(***************************************************************************)
(* Properties                                                              *)
(***************************************************************************)

\* Types, and the order of generations: a lease and a restore are of a
\* generation that began, and a delivery never runs past its batch.
TypeOK ==
    /\ position \in [Partitions -> 0..Records]
    /\ committed \in [Partitions -> 0..Records]
    /\ stored \in [Partitions -> 0..Records]
    /\ acked \in [Partitions -> SUBSET Offsets]
    /\ delivered \in [Partitions -> SUBSET Offsets]
    /\ generation \in Nat
    /\ lease \in [Partitions -> 0..generation]
    /\ \A r \in restores : r[1] \in 1..generation
    /\ failure \in {"none", "error", "checkpoint"}
    /\ \A t \in tasks : t.next < t.end /\ t.end <= Records
    /\ run \in {"polling", "draining", "ended"}

\* At least once, on the broker: the group's offset never passes a record
\* that no handler acknowledged, through batches, seeks, explicit commits,
\* stored offsets and rebalances.
CommittedIsAcknowledged ==
    \A p \in Partitions : \A o \in Offsets : o < committed[p] => o \in acked[p]

\* At least once, in the process: behind the position of an open assignment
\* every record was acknowledged or is held by a delivery of this lease,
\* which acknowledges it, seeks back to it or fails the consumer.
NothingSkipped ==
    Alive /\ ~stopping =>
        \A p \in Partitions : lease[p] # 0 =>
            \A o \in Offsets : o < position[p] =>
                \/ o \in acked[p]
                \/ fetched[p][1] <= o /\ o < fetched[p][2]
                \/ \E t \in tasks : t.p = p /\ t.lease = lease[p] /\ t.next <= o /\ o < t.end

\* A partition has one delivery per lease at a time, so that its records are
\* handled one after the other.
DeliveriesSerialized ==
    \A t, u \in tasks : t.p = u.p /\ t.lease = u.lease => t = u

\* A partition that is assigned and has no delivery is not left paused.
NoStuckPartition ==
    Alive /\ ~stopping =>
        \A p \in Partitions :
            lease[p] # 0 /\ paused[p] => \E t \in tasks : t.p = p /\ t.lease = lease[p]

\* An assignment is open only for the current generation, and no commit of an
\* older one is then pending on the same native consumer.
OpensCurrent ==
    \A p \in Partitions : lease[p] # 0 =>
        /\ lease[p] = generation
        /\ \A c \in commits : c[2] = generation

\* Stopping ends the loop, after the deliveries that were accepted.
StopEnds == stopping ~> run = "ended"
=============================================================================
