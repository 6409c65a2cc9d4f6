------------------------------ MODULE MCGraph -------------------------------
(***************************************************************************)
(* Stream graphs and the SubStream call. One graph has a split with a      *)
(* direct, a pooled and a parallel branch; one has a process whose error   *)
(* stream feeds a cycle, and a split of direct links; in one two messages  *)
(* compete for the task pool. A behaviour is one of a single scene; the    *)
(* other components stay in their initial state.                           *)
(***************************************************************************)
EXTENDS Integers, TLC

CONSTANTS Entry, Executors, MaxLaps, Results, None, Workflow, m1, m2

VARIABLES
    scene,   \* the component whose behaviour this is
    \* StreamGraph
    order, frames, settled, cancelled, accepting, calls, dropped, thrown,
    \* SubStream
    context, call, closed, failure, active, handled, chained, woken,
    running, delivered, graphFailed, enough

Link(to, semantics) == [to |-> to, call |-> semantics]

FanKind ==
    [in |-> "input", split |-> "split", filter |-> "filter", flat |-> "flatMap",
     case |-> "case", sink |-> "sink", result |-> "result"]
FanOut ==
    [in |-> <<Link("split", "call")>>,
     split |-> <<Link("filter", "call"), Link("flat", "pool"), Link("case", "parallel")>>,
     filter |-> <<Link("sink", "call")>>,
     flat |-> <<Link("sink", "call")>>,
     case |-> <<Link("sink", "call"), Link("result", "call")>>,
     sink |-> <<>>,
     result |-> <<>>]

PairKind == [in |-> "input", split |-> "split", sink |-> "sink"]
PairOut ==
    [in |-> <<Link("split", "call")>>,
     split |-> <<Link("sink", "pool"), Link("sink", "pool")>>,
     sink |-> <<>>]

LoopKind ==
    [in |-> "input", key |-> "keyBy", merge |-> "merge", process |-> "process", link |-> "link",
     split |-> "split", map |-> "map", delay |-> "delay", items |-> "iterable", sink |-> "sink",
     result |-> "result"]
LoopOut ==
    [in |-> <<Link("key", "call")>>,
     key |-> <<Link("merge", "call")>>,
     merge |-> <<Link("process", "call")>>,
     process |-> <<Link("split", "call"), Link("link", "pool")>>,
     link |-> <<Link("merge", "call")>>,
     split |-> <<Link("map", "call"), Link("sink", "callAsync")>>,
     map |-> <<Link("delay", "call")>>,
     delay |-> <<Link("items", "call")>>,
     items |-> <<Link("result", "pool")>>,
     sink |-> <<Link("result", "call")>>,
     result |-> <<>>]

Fan == INSTANCE StreamGraph WITH
    Messages <- {m1}, Streams <- DOMAIN FanKind, Kind <- FanKind,
    Out <- FanOut, MaxItems <- 2
Pair == INSTANCE StreamGraph WITH
    Messages <- {m1, m2}, Streams <- DOMAIN PairKind, Kind <- PairKind,
    Out <- PairOut, MaxItems <- 1
Loop == INSTANCE StreamGraph WITH
    Messages <- {m1}, Streams <- DOMAIN LoopKind, Kind <- LoopKind,
    Out <- LoopOut, MaxItems <- 1
Call == INSTANCE SubStream

fanVars == <<order, frames, settled, cancelled, accepting, calls, dropped,
             thrown>>
callVars == <<context, call, closed, failure, active, handled, chained, woken,
              running, delivered, graphFailed, enough>>
sceneVars == <<scene, fanVars, callVars>>

SceneInit ==
    /\ scene \in {"fan", "pair", "loop", "call"}
    /\ \/ scene = "fan" /\ Fan!Init
       \/ scene = "pair" /\ Pair!Init
       \/ scene \notin {"fan", "pair"} /\ Loop!Init
    /\ Call!Init

SceneNext ==
    \/ scene = "fan" /\ Fan!Next /\ UNCHANGED <<scene, callVars>>
    \/ scene = "pair" /\ Pair!Next /\ UNCHANGED <<scene, callVars>>
    \/ scene = "loop" /\ Loop!Next /\ UNCHANGED <<scene, callVars>>
    \/ scene = "call" /\ Call!Next /\ UNCHANGED <<scene, fanVars>>

\* The fairness of StreamGraph in the scene of the cycle, and of SubStream.
GraphFairness == WF_fanVars(scene = "loop" /\ \E f \in Loop!Live : Loop!Advance(f))
CallFairness ==
    /\ WF_callVars(scene = "call" /\ Call!CallbackSettles)
    /\ WF_callVars(scene = "call" /\ Call!Clear)
    /\ WF_callVars(scene = "call" /\ Call!Redeliver)
    /\ WF_callVars(scene = "call" /\ Call!Emitted)
    /\ WF_callVars(scene = "call" /\ Call!Completed)
    /\ WF_callVars(scene = "call" /\ Call!Close)

SceneSpec ==
    /\ SceneInit /\ [][SceneNext]_sceneVars
    /\ GraphFairness /\ CallFairness

ASSUME GraphAssumption ==
    Fan!GraphAssumption /\ Pair!GraphAssumption /\ Loop!GraphAssumption

\* Once a graph is quiet, no failure means no loss: what entered a stream has
\* left through the links it should leave through; and the detached branches of
\* a split are offered every value, also when a direct branch fails.
NothingLost ==
    /\ scene = "fan" => Fan!NothingLost /\ Fan!DetachedBranchesServed
    /\ scene = "pair" => Pair!NothingLost /\ Pair!DetachedBranchesServed

\* The promise a source awaits is honest: when it is fulfilled, nothing the
\* message reached through function calls is still running or has failed; and
\* of the branches that a stream calls directly one runs at a time.
SourceSeesOutcome ==
    /\ scene = "fan" => Fan!SourceSeesOutcome /\ Fan!BranchesAreSequential
    /\ scene = "pair" => Pair!SourceSeesOutcome /\ Pair!BranchesAreSequential
    /\ scene = "loop" => Loop!SourceSeesOutcome /\ Loop!BranchesAreSequential

\* Every message of the cyclic graph comes back to its source, and everything
\* it started in the pools ends as well; and a SubStream call ends once its
\* collector has had enough, its context is aborted or the graph has failed.
MessagesSettle ==
    (\/ scene = "loop" /\ settled[m1] = "pending"
     \/ scene = "call" /\ Call!ShouldEnd)
        ~> (IF scene = "call" THEN Call!Ended ELSE Loop!Settled(m1))

\* The callbacks of a SubStream call run one after the other and within the
\* call: it does not end while one runs, and returns only when one asked to
\* complete.
CallbacksWithinCall ==
    /\ Call!CallbacksSerialized /\ Call!NoCallbackOutlivesCall
    /\ Call!ReturnMeansEnough
=============================================================================
