---------------------------- MODULE ConfigLoader ----------------------------
(***************************************************************************)
(* RuntimeConfigLoader and RuntimeConfigStore of                           *)
(* src/runtime/config/loader.ts.  A timer polls the mutable files.  A poll *)
(* reads them (before), loads a candidate, which reads them again one      *)
(* after the other, reads them a third time (after), and publishes the     *)
(* candidate if the first and the third reading agree.  start() does the   *)
(* same until they agree.                                                  *)
(*                                                                         *)
(* Somebody else writes the files, one at a time, between any two reads: a *)
(* reading is a function built path by path and may mix contents that were *)
(* never together in the files.                                            *)
(***************************************************************************)
EXTENDS Integers, FiniteSets, TLC

CONSTANTS
    NPaths,     \* number of files; load() reads them in this order
    Contents,   \* contents of a file
    Broken,     \* contents that do not parse: load() throws
    Refused,    \* contents that a validator refuses: publish() throws
    MaxWrites   \* bound on writes

LoaderAssumption ==
    /\ NPaths \in Nat \ {0}
    /\ Broken \subseteq Contents /\ Refused \subseteq Contents
    /\ MaxWrites \in Nat

Paths == 1..NPaths
Snapshots == [Paths -> Contents]
Readings == UNION {[P -> Contents] : P \in SUBSET Paths}
NoReading == [p \in {} |-> p]
Complete(r) == DOMAIN r = Paths
IsValid(s) == \A p \in Paths : s[p] \notin Broken \cup Refused

VARIABLES
    file,       \* what the files hold
    writes,     \* number of writes
    state,      \* #state; "starting" is "created" while start() is pending
    phase,      \* where the poll, or start(), is: "idle", "before", "load", "after"
    before, candidate, after,   \* its three readings
    observed,   \* #observed, NoReading if undefined
    current,    \* #current of the store
    stopping,   \* stop(): "no", "waiting" for the poll, or "returned"
    seen,       \* history: what the files held, together, since the attempt began
    reverted    \* history: since then a file went back to a content it had before

fileVars == <<file, writes>>
readVars == <<before, candidate, after>>
attemptVars == <<seen, reverted>>
vars == <<fileVars, state, phase, readVars, observed, current, stopping, attemptVars>>

Init ==
    /\ file \in Snapshots /\ writes = 0
    /\ state = "created" /\ phase = "idle"
    /\ before = NoReading /\ candidate = NoReading /\ after = NoReading
    /\ observed = NoReading
    /\ current \in {s \in Snapshots : IsValid(s)}
    /\ stopping = "no"
    /\ seen = {} /\ reverted = FALSE

\* The environment replaces the content of one file.
Write ==
    /\ writes < MaxWrites
    /\ \E p \in Paths, c \in Contents :
        /\ c # file[p]
        /\ file' = [file EXCEPT ![p] = c]
        /\ reverted' = (reverted \/ \E s \in seen : s[p] = c)
    /\ seen' = IF phase = "idle" THEN {} ELSE seen \cup {file'}
    /\ writes' = writes + 1
    /\ UNCHANGED <<state, phase, readVars, observed, current, stopping>>

(***************************************************************************)
(* start() and stop().  ServiceRuntime does not call stop() before start() *)
(* has settled, and never starts a component again.                        *)
(***************************************************************************)

Start ==
    /\ state = "created"
    /\ state' = "starting" /\ phase' = "before"
    /\ seen' = {file}
    /\ UNCHANGED <<fileVars, readVars, observed, current, stopping, reverted>>

\* The timer is cleared; stop() awaits #polling.
Stop ==
    /\ state = "running"
    /\ state' = "stopped"
    /\ stopping' = IF phase = "idle" THEN "returned" ELSE "waiting"
    /\ UNCHANGED <<fileVars, phase, readVars, observed, current, attemptVars>>

(***************************************************************************)
(* poll() and synchronizeInitialSnapshot()                                 *)
(***************************************************************************)

\* The readings made from here on start afresh.
Enter(ph) ==
    /\ phase' = ph
    /\ before' = NoReading /\ candidate' = NoReading /\ after' = NoReading
    /\ seen' = IF ph = "idle" THEN {} ELSE {file}
    /\ reverted' = FALSE

\* poll() settles: #polling is cleared, which lets a waiting stop() return.
PollEnds ==
    /\ Enter("idle")
    /\ stopping' = IF stopping = "waiting" THEN "returned" ELSE stopping

\* The interval fires; it starts a poll unless one is in flight.
Tick ==
    /\ state = "running" /\ phase = "idle"
    /\ Enter("before")
    /\ UNCHANGED <<fileVars, state, observed, current, stopping>>

\* readSnapshots(): the files are read concurrently, in any order.
ReadBefore ==
    /\ phase = "before"
    /\ \E p \in Paths \ DOMAIN before :
        LET reading == before @@ (p :> file[p]) IN
        IF Complete(reading) /\ state # "starting" /\ reading = observed
        THEN PollEnds
        ELSE /\ before' = reading
             /\ phase' = IF Complete(reading) THEN "load" ELSE "before"
             /\ UNCHANGED <<candidate, after, stopping, attemptVars>>
    /\ UNCHANGED <<fileVars, state, observed, current>>

\* A read of the first reading fails: the poll ends and start() rejects.
ReadFails ==
    /\ phase = "before"
    /\ PollEnds
    /\ state' = IF state = "starting" THEN "failed" ELSE state
    /\ UNCHANGED <<fileVars, observed, current>>

\* load(), the third reading or publish() throws: start() rejects, a poll
\* remembers the contents it started from.
Reject ==
    /\ PollEnds
    /\ IF state = "starting"
       THEN state' = "failed" /\ UNCHANGED observed
       ELSE observed' = before /\ UNCHANGED state

\* load() reads one file after the other; a broken one makes it throw.
Load ==
    /\ phase = "load"
    /\ LET p == Cardinality(DOMAIN candidate) + 1
           reading == candidate @@ (p :> file[p])
       IN  IF file[p] \in Broken
           THEN Reject
           ELSE /\ candidate' = reading
                /\ phase' = IF Complete(reading) THEN "after" ELSE "load"
                /\ UNCHANGED <<state, before, after, observed, stopping, attemptVars>>
    /\ UNCHANGED <<fileVars, current>>

\* A read of load() or of the third reading fails.
LoadFails ==
    /\ phase \in {"load", "after"}
    /\ Reject
    /\ UNCHANGED <<fileVars, current>>

\* publish() returns.
Published(reading) ==
    /\ current' = candidate
    /\ observed' = reading
    /\ state' = IF state = "starting" THEN "running" ELSE state
    /\ PollEnds

\* publish(): the validators see the candidate before it becomes current, the
\* listeners after that, and either may throw.
Publish(reading) ==
    IF IsValid(candidate)
    THEN Published(reading) \/ (current' = candidate /\ Reject)
    ELSE Reject /\ UNCHANGED current

\* Mutant: whatever was loaded is published.
SettleUnstable(reading) == Publish(reading)

\* The third reading is complete: publish if it agrees with the first;
\* otherwise start() reads again and a poll leaves it to the next one.
Settle(reading) ==
    IF before = reading
    THEN Publish(reading)
    ELSE /\ UNCHANGED <<current, observed, state>>
         /\ IF state = "starting" THEN Enter("before") /\ UNCHANGED stopping ELSE PollEnds

ReadAfter ==
    /\ phase = "after"
    /\ \E p \in Paths \ DOMAIN after :
        LET reading == after @@ (p :> file[p]) IN
        IF Complete(reading)
        THEN Settle(reading)
        ELSE /\ after' = reading
             /\ UNCHANGED <<state, phase, before, candidate, observed, current, stopping, attemptVars>>
    /\ UNCHANGED fileVars

Next ==
    \/ Write \/ Start \/ Stop
    \/ Tick \/ ReadBefore \/ ReadFails \/ Load \/ LoadFails \/ ReadAfter

Spec == Init /\ [][Next]_vars

\* The interval keeps firing, file operations settle, and the first reading
\* does not fail for ever.
Fairness ==
    /\ WF_vars(Tick) /\ WF_vars(Load) /\ WF_vars(ReadAfter)
    /\ SF_vars(ReadBefore) /\ SF_vars(ReadBefore /\ phase' # "before")

FairSpec == Spec /\ Fairness

(***************************************************************************)
(* Properties                                                              *)
(***************************************************************************)

\* Types; each reading is complete before the next begins.
TypeOK ==
    /\ file \in Snapshots /\ seen \subseteq Snapshots /\ reverted \in BOOLEAN
    /\ state \in {"created", "starting", "running", "failed", "stopped"}
    /\ phase \in {"idle", "before", "load", "after"}
    /\ stopping \in {"no", "waiting", "returned"}
    /\ {before, candidate, after, observed} \subseteq Readings
    /\ phase \in {"load", "after"} => Complete(before)
    /\ phase = "after" => Complete(candidate)

\* RuntimeConfigStore.validate: "must pass before a candidate becomes
\* observable".  Contents that do not parse or that a validator refuses are
\* never current, although the poll that reads them may have started from, and
\* may end with, contents that are fine.
CurrentIsValid == IsValid(current)

\* What becomes current is what the first and the third reading saw, and the
\* files held all of it at one time: it never mixes contents of different
\* times.  Two readings that agree say nothing of a file that was changed and
\* changed back between them, so an attempt that such an edit met is excluded.
PublishesStable ==
    current' # current => reverted \/ (current' = before /\ current' \in seen)

\* RuntimeConfigLoader: "atomically publishes only stable, valid snapshots".
\* What becomes current is what the readings around load() agreed on, whatever
\* was written meanwhile.
PublishesWhatAgreed ==
    [][current' # current => current' = before]_vars

\* After stop() has returned nothing is published, not even by a poll whose
\* reads were in flight when it was called.
QuietAfterStop ==
    stopping = "returned" => UNCHANGED <<observed, current>>
=============================================================================
