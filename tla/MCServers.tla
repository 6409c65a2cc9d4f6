----------------------------- MODULE MCServers ------------------------------
(***************************************************************************)
(* The sources that serve requests of remote peers, HTTP and gRPC, and the *)
(* gRPC host that several sources share.  A behaviour is one of a single   *)
(* scene: the two sources share the variables of SourceRequest, what the   *)
(* scene does not use stays in its initial state.                          *)
(*                                                                         *)
(* For TLC two requests carry the same stream ID, results come for it, and *)
(* of three host sources two bind the same method.                         *)
(***************************************************************************)
EXTENDS Integers

CONSTANTS
    Requests, StreamIds, StreamId, Deliveries, Target, None, Modes, MaxWrites,
    Sources, Methods, MaxHosts

\* Every request carries a stream ID and every result is for one.
ASSUME ServersAssumption ==
    /\ StreamId \in [Requests -> StreamIds] /\ Target \in [Deliveries -> StreamIds]
    /\ None \notin Requests
    /\ MaxWrites \in Nat /\ MaxHosts \in Nat

\* The values of the constants for TLC.
SameStreamId == [r \in Requests |-> CHOOSE s \in StreamIds : TRUE]
SameTarget == [d \in Deliveries |-> CHOOSE s \in StreamIds : TRUE]
SharedMethod == [orders |-> {"place"}, stock |-> {"reserve"}, mirror |-> {"reserve"}]

VARIABLES
    scene,   \* the component whose behaviour this is
    watched, \* the source of the host whose shutdown StopReturns follows
    \* SourceRequest
    hasResult, stage, failure, cancelled, pending, registered, completed, retiring,
    callbackOf, delivered, activeRequests,
    \* HttpSource and GrpcSource
    stop,
    dedicated, life, started, expired, tasksAborted, connections,
    mode, holds, response, tail, sending, answered, admitting, calls,
    \* GrpcHost
    grpcServers, hosts, methods, phase, on, stopping, tracked

Http == INSTANCE HttpSource
Grpc == INSTANCE GrpcSource
Host == INSTANCE GrpcHost WITH calls <- tracked

sourceVars == <<hasResult, stage, failure, cancelled, pending, registered, completed, retiring,
                callbackOf, delivered, activeRequests, stop>>
httpVars == <<dedicated, life, started, expired, tasksAborted, connections>>
grpcVars == <<mode, holds, response, tail, sending, answered, admitting, calls>>
hostVars == <<grpcServers, hosts, methods, phase, on, stopping, tracked>>
sceneVars == <<scene, watched, sourceVars, httpVars, grpcVars, hostVars>>

SceneInit ==
    /\ scene \in {"http", "grpc", "host"}
    /\ watched \in Sources
    /\ Http!Init /\ Grpc!Init /\ Host!Init
    /\ scene # "http" => dedicated
    /\ scene # "grpc" => mode = "unary"
    /\ scene = "host" => ~hasResult
    /\ scene # "host" => watched = CHOOSE s \in Sources : TRUE

SceneNext ==
    \/ scene = "http" /\ Http!Next /\ UNCHANGED <<scene, watched, grpcVars, hostVars>>
    \/ scene = "grpc" /\ Grpc!Next /\ UNCHANGED <<scene, watched, httpVars, hostVars>>
    \/ scene = "host" /\ Host!Next /\ UNCHANGED <<scene, watched, sourceVars, httpVars, grpcVars>>

\* The fairness of the components, each in its scene.
httpScene == <<sourceVars, httpVars>>
grpcScene == <<sourceVars, grpcVars>>

HttpFairness ==
    /\ \A r \in Requests : WF_httpScene(scene = "http" /\ Http!serveAccepted(r))
    /\ \A d \in Deliveries :
        WF_httpScene(scene = "http" /\ Http!CallbackEnds(d) /\ UNCHANGED <<stop, httpVars>>)
    /\ WF_httpScene(scene = "http" /\ Http!ServerClosed)
    /\ WF_httpScene(scene = "http" /\ Http!Expire)
    /\ WF_httpScene(scene = "http" /\ (Http!Drained \/ Http!DrainExpired))

GrpcFairness ==
    /\ \A r \in Requests : WF_grpcScene(scene = "grpc" /\ Grpc!Release(r))
    /\ WF_grpcScene(scene = "grpc" /\ Grpc!Idle)

HostFairness ==
    /\ \A h \in Host!HostIds : WF_hostVars(scene = "host" /\ Host!Bound(h))
    /\ \A s \in Sources : WF_hostVars(scene = "host" /\ Host!Advance(s))

SceneSpec ==
    /\ SceneInit /\ [][SceneNext]_sceneVars
    /\ HttpFairness /\ GrpcFairness /\ HostFairness

\* Nothing of a request runs on after its EndRequest: no result callback, and
\* for gRPC no write that its sender accepted; a gRPC request holds its stream
\* ID until then, a unary call that succeeded has its response, and a shutdown
\* that returned leaves only cancelled requests behind.
EndIsFinal ==
    /\ Http!CallbacksBeforeEnd /\ Grpc!WritesBeforeEnd
    /\ scene = "http" => Http!StopLeavesOnlyCancelled
    /\ scene = "grpc" =>
        Grpc!ReservedUntilEnded /\ Grpc!UnaryAnswerHasResponse /\ Grpc!StopLeavesOnlyCancelled

\* A started source keeps the listener and the handlers that it shares with
\* others, whatever these do: fail to start, bind a method twice, or stop.  The
\* port has one listener, and none when no source uses it.
PeersUnharmed == Host!PeersUnharmed /\ Host!OneListener /\ Host!NoListenerLeft

Stopping ==
    \/ scene = "http" /\ stop = "closing"
    \/ scene = "grpc" /\ stop = "draining" /\ \A r \in Requests : ~Grpc!Active(r)
    \/ scene = "host" /\ watched \in stopping

Stopped == IF scene = "host" THEN watched \notin stopping ELSE stop = "stopped"

\* Every shutdown returns: of the HTTP source although a response may never
\* end, of the gRPC source without its deadline once its handlers have ended,
\* of a source of the host whatever start() it has to wait for.
StopReturns == Stopping ~> Stopped
=============================================================================
