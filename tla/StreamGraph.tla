---------------------------- MODULE StreamGraph ----------------------------
(***************************************************************************)
(* Delivery through a built stream graph: the operators of src/operators/  *)
(* and the callers of src/runtime/caller.ts that join them.                *)
(*                                                                         *)
(* A frame is one pending consume() call.  A stream calls its links one    *)
(* after the other and waits for each direct one, so the frames of one     *)
(* message form a chain; a task pool, the registry of parallel calls and   *)
(* the delay pool start chains of their own.                               *)
(***************************************************************************)
EXTENDS Integers, Sequences, FiniteSets, SequencesExt, FiniteSetsExt

CONSTANTS
    Messages,
    Streams,
    Entry,      \* the input stream the data source consumes into
    Kind,       \* the operator of each stream
    Out,        \* the outgoing links of each stream: target and call semantics
    Executors,  \* executorsCount of the task pool
    MaxItems,   \* items of one flat-map output
    MaxLaps     \* messages sent round a cycle link

Kinds == {"input", "result", "map", "keyBy", "filter", "flatMap", "iterable",
          "merge", "link", "process", "sink", "split", "case", "delay"}

\* functionCall, functionCall with its async bit, task pool, parallel call.
CallSemantics == {"call", "callAsync", "pool", "parallel"}

GraphAssumption ==
    /\ Entry \in Streams
    /\ Kind \in [Streams -> Kinds]
    /\ DOMAIN Out = Streams
    /\ \A s \in Streams : \A i \in DOMAIN Out[s] :
        Out[s][i] \in [to : Streams, call : CallSemantics]

VARIABLES
    order,      \* #dispatchOrder of each split, empty until it is built
    frames,     \* pending consume() calls
    settled,    \* how the source's consume() of each message ended
    cancelled,  \* messages whose context has been cancelled
    accepting,  \* which of the Pools accept work
    calls,      \* link call counts of the environment
    dropped,    \* history: calls a pool refused
    thrown      \* history: failures, by message and by who started the chain

vars == <<order, frames, settled, cancelled, accepting, calls, dropped, thrown>>

\* A frame is named by its path from the source: the message, then at each
\* stream on the way how many emissions were left when it was called.
NoParent == <<>>

Links == {<<s, i>> \in Streams \X (1 .. Max({Len(Out[s]) : s \in Streams})) :
            i <= Len(Out[s])}
Splits == {s \in Streams : Kind[s] = "split"}

\* The pools the graph uses: the task pool, the registry of parallel calls and
\* the delay pool.
Pools ==
    {p \in {"pool", "parallel", "delay"} :
        \/ \E l \in Links : Out[l[1]][l[2]].call = p
        \/ \E s \in Streams : Kind[s] = p}

\* A caller's isAsync(): all but a plain functionCall.
IsAsync(l) == l.call # "call"

Live == DOMAIN frames
Children(f) == {c \in Live : frames[c].parent = f}
Path(f) == Append(f, Len(frames[f].todo))
Pooled == {f \in Live : frames[f].by = "pool" /\ frames[f].stage # "queued"}

Frame(m, s, parent, by, stage) ==
    [msg |-> m, stream |-> s, parent |-> parent, by |-> by, stage |-> stage,
     todo |-> <<>>, failed |-> FALSE]

With(fs, n, frame) == [k \in DOMAIN fs \cup {n} |-> IF k = n THEN frame ELSE fs[k]]
Without(fs, f) == [n \in DOMAIN fs \ {f} |-> fs[n]]

Init ==
    /\ order = [s \in Splits |-> <<>>]
    /\ frames = <<>>
    /\ settled = [m \in Messages |-> "new"]
    /\ cancelled = {}
    /\ accepting = [p \in Pools |-> TRUE]
    /\ calls = [l \in Links |-> 0]
    /\ dropped = [l \in Links |-> 0]
    /\ thrown = {}

\* SplitStream.build(): a stable sort that puts the asynchronous links first.
Build(s) ==
    /\ order[s] = <<>>
    /\ LET indices == [i \in DOMAIN Out[s] |-> i]
       IN order' = [order EXCEPT ![s] =
              SelectSeq(indices, LAMBDA i : IsAsync(Out[s][i]))
              \o SelectSeq(indices, LAMBDA i : ~IsAsync(Out[s][i]))]
    /\ UNCHANGED <<frames, settled, cancelled, accepting, calls, dropped, thrown>>

\* A source endpoint consumes a message; the runtime has built the graph.
Arrive(m) ==
    /\ settled[m] = "new"
    /\ \A s \in Splits : order[s] # <<>>
    /\ settled' = [settled EXCEPT ![m] = "pending"]
    /\ frames' = With(frames, <<m>>, Frame(m, Entry, NoParent, "source", "called"))
    /\ UNCHANGED <<order, cancelled, accepting, calls, dropped, thrown>>

Cancel(m) ==
    /\ settled[m] # "new"
    /\ cancelled' = cancelled \cup {m}
    /\ UNCHANGED <<order, frames, settled, accepting, calls, dropped, thrown>>

\* The runtime stops a pool; what it has accepted stays.
Close(p) ==
    /\ accepting' = [accepting EXCEPT ![p] = FALSE]
    /\ UNCHANGED <<order, frames, settled, cancelled, calls, dropped, thrown>>

(***************************************************************************)
(* What each operator's consume() emits: the indices of the links it will  *)
(* call, in order.                                                         *)
(***************************************************************************)

Called(f, kind) ==
    frames[f].stage = "called" /\ Kind[frames[f].stream] = kind

Emits(f, links) ==
    /\ frames' = [frames EXCEPT ![f].stage = "emitting", ![f].todo = links]
    /\ UNCHANGED <<order, settled, cancelled, accepting, calls, dropped, thrown>>

Items == {[k \in 1 .. n |-> 1] : n \in 0 .. MaxItems}

InputConsume(f) == Called(f, "input") /\ Emits(f, <<1>>)

\* A result link hands the value back to the source; it emits nothing.
ResultConsume(f) == Called(f, "result") /\ Emits(f, <<>>)

MapConsume(f) == Called(f, "map") /\ Emits(f, <<1>>)

KeyByConsume(f) == Called(f, "keyBy") /\ Emits(f, <<1>>)

FilterConsume(f) == Called(f, "filter") /\ \E o \in {<<>>, <<1>>} : Emits(f, o)

FlatMapConsume(f) == Called(f, "flatMap") /\ \E o \in Items : Emits(f, o)

IterableConsume(f) == Called(f, "iterable") /\ \E o \in Items : Emits(f, o)

MergeConsume(f) == Called(f, "merge") /\ Emits(f, <<1>>)

\* A cycle link passes on; the model sends MaxLaps messages round it.
LinkConsume(f) ==
    /\ Called(f, "link")
    /\ Emits(f, IF calls[<<frames[f].stream, 1>>] < MaxLaps THEN <<1>> ELSE <<>>)

\* Link 1 is the result, link 2 the error stream.
ProcessConsume(f) == Called(f, "process") /\ \E o \in {<<1>>, <<2>>} : Emits(f, o)

SinkConsume(f) == Called(f, "sink") /\ \E o \in {<<>>, <<1>>, <<2>>} : Emits(f, o)

SplitConsume(f) == Called(f, "split") /\ Emits(f, order[frames[f].stream])

\* Mutant: a value no branch takes is ignored.
CaseConsumeSome(f) ==
    /\ Called(f, "case")
    /\ \E i \in 0 .. Len(Out[frames[f].stream]) :
        Emits(f, IF i = 0 THEN <<>> ELSE <<i>>)

\* The selector picks one branch.
CaseConsume(f) ==
    Called(f, "case") /\ \E i \in DOMAIN Out[frames[f].stream] : Emits(f, <<i>>)

\* No delay: emit at once, cancelled or not.
DelayNow(f) == Called(f, "delay") /\ Emits(f, <<1>>)

\* The pools turn away what comes after their stop, the task pool and the
\* delay pool also what is cancelled already.
Takes(p, m) == accepting[p] /\ (p = "parallel" \/ m \notin cancelled)

\* The delay pool takes the emission over and consume() returns.
DelaySchedule(f) ==
    /\ Called(f, "delay")
    /\ Takes("delay", frames[f].msg)
    /\ frames' = With([frames EXCEPT ![f].stage = "emitting"], Path(f),
                      Frame(frames[f].msg, frames[f].stream, NoParent, "delay", "timer"))
    /\ UNCHANGED <<order, settled, cancelled, accepting, calls, dropped, thrown>>

\* The delay pool refuses: delayError() may still emit.
DelayRefused(f) ==
    /\ Called(f, "delay")
    /\ ~Takes("delay", frames[f].msg)
    /\ \E o \in {<<>>, <<1>>} : Emits(f, o)

\* A delayed emission is skipped if its context was cancelled meanwhile.
DelayFires(f) ==
    /\ frames[f].stage = "timer"
    /\ Emits(f, IF frames[f].msg \in cancelled THEN <<>> ELSE <<1>>)

Consume(f) ==
    \/ InputConsume(f) \/ ResultConsume(f) \/ MapConsume(f) \/ KeyByConsume(f)
    \/ FilterConsume(f) \/ FlatMapConsume(f) \/ IterableConsume(f)
    \/ MergeConsume(f) \/ LinkConsume(f) \/ ProcessConsume(f) \/ SinkConsume(f)
    \/ SplitConsume(f) \/ CaseConsume(f)
    \/ DelayNow(f) \/ DelaySchedule(f) \/ DelayRefused(f) \/ DelayFires(f)

Root[f \in Live] ==
    IF frames[f].parent # NoParent THEN Root[frames[f].parent] ELSE f

\* Streams that call user code or check the value: the others only pass on.
Fallible == Kinds \ {"input", "merge", "link", "split"}

\* A user function throws or rejects, or a branch or a value type is invalid.
Throw(f) ==
    /\ frames[f].stage = "called"
    /\ Kind[frames[f].stream] \in Fallible
    /\ frames' = [frames EXCEPT ![f].stage = "emitting", ![f].failed = TRUE]
    /\ thrown' = thrown \cup {<<frames[f].msg, frames[Root[f]].by>>}
    /\ UNCHANGED <<order, settled, cancelled, accepting, calls, dropped>>

(***************************************************************************)
(* Links                                                                   *)
(***************************************************************************)

\* The pending emission of a stream: its next link, once no call it waits for
\* is pending.
Ready(f) == frames[f].stage = "emitting" /\ Children(f) = {}
LinkOf(f) == <<frames[f].stream, Head(frames[f].todo)>>
Target(f) == Out[LinkOf(f)[1]][LinkOf(f)[2]]

Sent(f) == [frames EXCEPT ![f].todo = Tail(@)]

Counted(f) == calls' = [calls EXCEPT ![LinkOf(f)] = @ + 1]

\* A stream without a consumer emits into nothing.
EmitUnbound(f) ==
    /\ Ready(f) /\ frames[f].todo # <<>>
    /\ LinkOf(f) \notin Links
    /\ frames' = Sent(f)
    /\ UNCHANGED <<order, settled, cancelled, accepting, calls, dropped, thrown>>

\* FunctionCaller: the call is awaited, whatever its async bit says.
CallDirect(f) ==
    /\ Ready(f) /\ frames[f].todo # <<>>
    /\ LinkOf(f) \in Links /\ Target(f).call \in {"call", "callAsync"}
    /\ Counted(f)
    /\ frames' = With(Sent(f), Path(f), Frame(frames[f].msg, Target(f).to, f, "call", "called"))
    /\ UNCHANGED <<order, settled, cancelled, accepting, dropped, thrown>>

\* TaskPoolCaller: a refused task is reported to onRejected and dropped.
CallPool(f) ==
    /\ Ready(f) /\ frames[f].todo # <<>>
    /\ LinkOf(f) \in Links /\ Target(f).call = "pool"
    /\ Counted(f)
    /\ IF Takes("pool", frames[f].msg)
       THEN /\ frames' = With(Sent(f), Path(f), Frame(frames[f].msg, Target(f).to, NoParent,
                                             "pool", "queued"))
            /\ UNCHANGED dropped
       ELSE /\ frames' = Sent(f)
            /\ dropped' = [dropped EXCEPT ![LinkOf(f)] = @ + 1]
    /\ UNCHANGED <<order, settled, cancelled, accepting, thrown>>

\* ParallelCaller: a detached call that starts at once, unless the registry
\* has stopped admission.
CallParallel(f) ==
    /\ Ready(f) /\ frames[f].todo # <<>>
    /\ LinkOf(f) \in Links /\ Target(f).call = "parallel"
    /\ Counted(f)
    /\ IF Takes("parallel", frames[f].msg)
       THEN /\ frames' = With(Sent(f), Path(f), Frame(frames[f].msg, Target(f).to, NoParent,
                                                      "parallel", "called"))
            /\ UNCHANGED dropped
       ELSE /\ frames' = Sent(f)
            /\ dropped' = [dropped EXCEPT ![LinkOf(f)] = @ + 1]
    /\ UNCHANGED <<order, settled, cancelled, accepting, thrown>>

\* Mutant: a stopped pool starts nothing more.
StartTaskWhileOpen(f) ==
    /\ frames[f].stage = "queued"
    /\ accepting["pool"]
    /\ Cardinality(Pooled) < Executors
    /\ frames' = [frames EXCEPT ![f].stage = "called"]
    /\ UNCHANGED <<order, settled, cancelled, accepting, calls, dropped, thrown>>

\* The task pool starts a queued task, also after it was stopped.
StartTask(f) ==
    /\ frames[f].stage = "queued"
    /\ Cardinality(Pooled) < Executors
    /\ frames' = [frames EXCEPT ![f].stage = "called"]
    /\ UNCHANGED <<order, settled, cancelled, accepting, calls, dropped, thrown>>

\* Mutant: a failure ends the call that met it and nothing else.
FinishQuietly(f) ==
    /\ Ready(f) /\ frames[f].todo = <<>>
    /\ frames' = Without(frames, f)
    /\ settled' = IF frames[f].by # "source" THEN settled
                  ELSE [settled EXCEPT ![frames[f].msg] =
                            IF frames[f].failed THEN "failed" ELSE "ok"]
    /\ UNCHANGED <<order, cancelled, accepting, calls, dropped, thrown>>

\* A consume() call settles.  A rejection makes the waiting stream skip its
\* remaining links and reject in turn, up to the source or the detached root.
Finish(f) ==
    /\ Ready(f) /\ frames[f].todo = <<>>
    /\ frames' = LET p == frames[f].parent
                     rest == Without(frames, f)
                 IN IF p # NoParent /\ frames[f].failed
                    THEN [rest EXCEPT ![p].failed = TRUE, ![p].todo = <<>>]
                    ELSE rest
    /\ settled' = IF frames[f].by # "source" THEN settled
                  ELSE [settled EXCEPT ![frames[f].msg] =
                            IF frames[f].failed THEN "failed" ELSE "ok"]
    /\ UNCHANGED <<order, cancelled, accepting, calls, dropped, thrown>>

Advance(f) ==
    \/ Consume(f) \/ Throw(f) \/ EmitUnbound(f)
    \/ CallDirect(f) \/ CallPool(f) \/ CallParallel(f)
    \/ StartTask(f) \/ Finish(f)

Done == frames = <<>> /\ \A m \in Messages : settled[m] \in {"ok", "failed"}

Next ==
    \/ \E s \in Splits : Build(s)
    \/ \E m \in Messages : Arrive(m) \/ Cancel(m)
    \/ \E p \in Pools : Close(p)
    \/ \E f \in Live : Advance(f)
    \/ Done /\ UNCHANGED vars

\* The event loop keeps running the turns that are due: the work one message
\* causes is finite, so progress as a whole needs no finer fairness.
Fairness == WF_vars(\E f \in Live : Advance(f))

Spec == Init /\ [][Next]_vars /\ Fairness

(***************************************************************************)
(* Properties                                                              *)
(***************************************************************************)

TypeOK ==
    /\ order \in [Splits -> Seq(1 .. Cardinality(Links))]
    /\ \A f \in Live :
        /\ frames[f].msg \in Messages /\ frames[f].stream \in Streams
        /\ frames[f].parent \in Live \cup {NoParent}
        /\ frames[f].by \in {"source", "call", "pool", "parallel", "delay"}
        /\ frames[f].stage \in {"queued", "timer", "called", "emitting"}
        /\ frames[f].failed \in BOOLEAN
    /\ settled \in [Messages -> {"new", "pending", "ok", "failed"}]
    /\ cancelled \subseteq Messages
    /\ thrown \subseteq Messages \X {"source", "pool", "parallel", "delay"}
    /\ accepting \in [Pools -> BOOLEAN]
    /\ calls \in [Links -> Nat] /\ dropped \in [Links -> Nat]

\* Direct links are sequential: of the branches a split, a flat-map or any
\* other stream calls directly, at most one is running for one message, so an
\* operator's function never overlaps with its sibling's.
BranchesAreSequential ==
    \A f \in Live : Cardinality(Children(f)) <= 1

\* The promise a source awaits is honest: when it is fulfilled, nothing the
\* message reached through function calls is still running or has failed,
\* also not behind a link that only carries the async bit.
SourceSeesOutcome ==
    \A m \in Messages : settled[m] = "ok" =>
        /\ <<m, "source">> \notin thrown
        /\ \A f \in Live : frames[f].msg = m => frames[Root[f]].by \in {"pool", "parallel", "delay"}

\* Values that have entered a stream.
Into(s) == {l \in Links : Out[l[1]][l[2]].to = s}
Inflow(s) ==
    MapThenSumSet(LAMBDA l : calls[l] - dropped[l], Into(s))
    + (IF s = Entry THEN Cardinality({m \in Messages : settled[m] # "new"}) ELSE 0)

\* The detached branches of a split are not at the mercy of the direct ones:
\* since build() puts them first, each is offered every value the split
\* consumed, even when a direct branch fails.  (A functionCall link with the
\* async bit is sorted with them and is awaited: splits that have one are
\* excluded.)
DetachedBranchesServed ==
    \A s \in Splits : (\A i \in DOMAIN Out[s] : Out[s][i].call # "callAsync") =>
        \A i \in DOMAIN Out[s] : Out[s][i].call \in {"pool", "parallel"} =>
            LET owed == {f \in Live : frames[f].stream = s /\
                            (frames[f].stage \in {"queued", "called"}
                             \/ i \in Range(frames[f].todo))}
            IN calls[<<s, i>>] + Cardinality(owed) = Inflow(s)

\* Once the graph is quiet, no failure means no loss: what entered a merge, a
\* one-to-one operator or a split has left through each of its links, and what
\* entered a case has left through exactly one, through every interleaving of
\* direct, pooled, parallel and delayed deliveries.
NothingLost ==
    (frames = <<>> /\ thrown = {}) =>
        \A s \in Streams :
            /\ Kind[s] \in {"input", "map", "keyBy", "merge", "split"} =>
                \A i \in DOMAIN Out[s] : calls[<<s, i>>] = Inflow(s)
            /\ Kind[s] = "case" =>
                MapThenSumSet(LAMBDA i : calls[<<s, i>>], DOMAIN Out[s]) = Inflow(s)
            /\ (Kind[s] = "delay" /\ cancelled = {} /\ accepting["delay"]) =>
                calls[<<s, 1>>] = Inflow(s)

\* A message has come back to its source, and what it started in the pools has
\* ended as well.
Settled(m) == settled[m] \in {"ok", "failed"} /\ \A f \in Live : frames[f].msg # m
=============================================================================
