---------------------------- MODULE ServerProofs ----------------------------
(***************************************************************************)
(* The serving sources, for every set of requests, stream IDs, results and *)
(* modes, and the gRPC host for every set of sources and methods: nothing  *)
(* of a request runs on after its end, and a source leaves its peers       *)
(* unharmed.                                                               *)
(***************************************************************************)
EXTENDS MCServers, TLAPS, FiniteSetTheorems

(***************************************************************************)
(* Requests of the HTTP and the gRPC source                                *)
(***************************************************************************)

RequestTypes ==
    /\ hasResult \in BOOLEAN
    /\ stage \in [Requests -> {"new", "rejected", "begin", "recv", "consume", "eof", "wait",
                               "retire", "retired", "end", "close", "done"}]
    /\ cancelled \in [Requests -> BOOLEAN]
    /\ pending \in [StreamIds -> Requests \cup {None}]
    /\ registered \in [Requests -> {"unset", "set", "removed"}]
    /\ completed \in [Requests -> BOOLEAN] /\ retiring \in [Requests -> BOOLEAN]
    /\ callbackOf \in [Deliveries -> Requests \cup {None}]

\* A callback runs only for a request that has not finished to retire.
CallbacksInTime ==
    \A d \in Deliveries : callbackOf[d] # None =>
        hasResult /\ stage[callbackOf[d]] \in {"recv", "consume", "eof", "wait", "retire"}

\* HTTP: a stream ID leads to its request only until it has retired, and
\* that request takes no result once it retires.
HttpPending ==
    /\ \A s \in StreamIds : pending[s] # None =>
        /\ hasResult /\ StreamId[pending[s]] = s
        /\ stage[pending[s]] \in {"consume", "wait", "retire", "retired"}
    /\ \A r \in Requests :
        /\ stage[r] \in {"retire", "retired"} => retiring[r]
        /\ stage[r] \notin {"recv", "eof", "close"}

\* HTTP: admission is closed for good when stop() begins.
HttpStop ==
    /\ stop # "none" => ~started /\ life = "up"
    /\ Http!StopLeavesOnlyCancelled

HttpInv ==
    /\ RequestTypes /\ CallbacksInTime /\ HttpPending /\ HttpStop
    /\ started \in BOOLEAN /\ \A r \in Requests : tail[r] = 0

\* gRPC: a request holds its stream ID from its admission to its end, and a
\* holder that retires takes no result.
GrpcPending ==
    /\ holds \subseteq Requests
    /\ \A s \in StreamIds : pending[s] # None => pending[s] \in holds /\ StreamId[pending[s]] = s
    /\ \A r \in holds :
        /\ pending[StreamId[r]] = r
        /\ stage[r] \in {"recv", "consume", "eof", "wait", "retire", "retired", "end", "close"}
        /\ stage[r] \in {"retire", "retired", "end", "close"} => retiring[r]
    /\ \A r \in Requests :
        stage[r] \in {"recv", "consume", "eof", "wait", "retire", "retired"} => r \in holds

\* gRPC: only a holder has writes in delivery; the response of a unary call
\* that succeeded was given.
GrpcAnswers ==
    /\ tail \in [Requests -> Nat] /\ response \in [Requests -> BOOLEAN]
    /\ answered \in [Requests -> {"none", "ok", "error"}]
    /\ \A r \in Requests : r \notin holds => tail[r] = 0
    /\ Grpc!UnaryAnswerHasResponse

\* gRPC: a handler that runs is tracked or cancelled, and admission is closed
\* for good when stop() begins.
GrpcStop ==
    /\ stop # "none" => ~admitting
    /\ \A r \in Requests : Grpc!Active(r) => r \in calls \/ cancelled[r]
    /\ Grpc!StopLeavesOnlyCancelled

GrpcInv == RequestTypes /\ CallbacksInTime /\ GrpcPending /\ GrpcAnswers /\ GrpcStop

(***************************************************************************)
(* The host                                                                *)
(***************************************************************************)

HostRecord == [ready : {"none", "binding", "bound", "failed"}, sources : SUBSET Sources,
               closing : BOOLEAN]

HostTypes ==
    /\ grpcServers \in Host!HostIds \cup {0}
    /\ hosts \in [Host!HostIds -> HostRecord]
    /\ DOMAIN methods = Host!HostIds
    /\ phase \in [Sources -> {"idle", "starting", "failing", "started", "draining", "closing"}]
    /\ on \in [Sources -> Host!HostIds \cup {0}]
    /\ stopping \subseteq Sources

\* The environment's host is the only one, and it has a user.
HostInUse ==
    /\ \A h \in Host!HostIds : h # grpcServers => hosts[h] = Host!NoHost /\ methods[h] = {}
    /\ grpcServers # 0 => /\ hosts[grpcServers].ready # "none"
                          /\ \E s \in Sources : phase[s] # "idle"
    /\ \A s \in Sources :
        /\ phase[s] \in {"starting", "started", "draining", "closing"} =>
               on[s] = grpcServers /\ grpcServers # 0
        /\ phase[s] = "failing" => on[s] # 0 /\ grpcServers \in {0, on[s]}

\* Its sources and handlers are those of the sources in their phases.
HostBooks ==
    grpcServers # 0 =>
        /\ \A s \in Sources : s \in hosts[grpcServers].sources
                                <=> phase[s] \in {"starting", "started", "draining"}
        /\ \A s \in Sources : phase[s] \in {"starting", "started"} =>
               Host!Own(s) \subseteq methods[grpcServers]
        /\ \A e \in methods[grpcServers] :
               \E s \in Sources : phase[s] \in {"starting", "started"} /\ e \in Host!Own(s)

\* A source that has started is bound; one that closes the server is the last.
HostPhases ==
    /\ \A s \in Sources :
        /\ phase[s] \in {"started", "draining", "closing"} => hosts[grpcServers].ready = "bound"
        /\ phase[s] \in {"draining", "closing"} =>
               s \in stopping /\ \A t \in Sources : phase[t] \notin {"starting", "failing"}
        /\ phase[s] = "closing" => \A t \in Sources : t # s => phase[t] = "idle"
    /\ grpcServers # 0 /\ hosts[grpcServers].closing => \E s \in Sources : phase[s] = "closing"

HostInv == HostTypes /\ HostInUse /\ HostBooks /\ HostPhases

\* The invariant of the composition.
ServersInv ==
    /\ scene \in {"http", "grpc", "host"}
    /\ scene = "http" => HttpInv
    /\ scene = "grpc" => GrpcInv
    /\ scene = "host" => \A r \in Requests : stage[r] = "new"
    /\ HostInv

-----------------------------------------------------------------------------

\* Every step of the HTTP source preserves its invariant ...
LEMMA HttpStep ==
    ASSUME HttpInv, Http!Next, UNCHANGED tail
    PROVE  HttpInv'
<1> USE ServersAssumption
    DEF HttpInv, RequestTypes, CallbacksInTime, HttpPending, HttpStop,
        Http!StopLeavesOnlyCancelled, Http!Active, Http!Aborted, Http!Goto, Http!resultVars, Http!requestVars,
        Http!lifeVars
<1>1. ASSUME Http!Start
      PROVE  HttpInv'
  BY <1>1 DEF Http!Start
<1>2. ASSUME Http!Listening
      PROVE  HttpInv'
  BY <1>2 DEF Http!Listening
<1>3. ASSUME Http!ListenFails
      PROVE  HttpInv'
  BY Zenon, <1>3 DEF Http!ListenFails
<1>4. ASSUME Http!StopAdmission
      PROVE  HttpInv'
  BY Zenon, <1>4 DEF Http!StopAdmission
<1>5. ASSUME Http!ServerClosed
      PROVE  HttpInv'
  BY <1>5 DEF Http!ServerClosed
<1>6. ASSUME Http!Expire
      PROVE  HttpInv'
  <2>1. cancelled' \in [Requests -> BOOLEAN] /\ \A r \in Requests : cancelled[r] => cancelled'[r]
    <3>1. \/ cancelled' = cancelled
          \/ cancelled' = [r \in Requests |-> cancelled[r] \/ r \in connections]
      BY <1>6 DEF Http!Expire
    <3> QED  BY Zenon, <3>1
  <2>2. UNCHANGED <<hasResult, stage, pending, registered, completed, retiring, callbackOf,
                    started, life, stop, tasksAborted>>
    BY <1>6 DEF Http!Expire
  <2> QED  BY <2>1, <2>2
<1>7. ASSUME Http!Drained
      PROVE  HttpInv'
  BY <1>7 DEF Http!Drained
<1>8. ASSUME Http!DrainExpired
      PROVE  HttpInv'
  BY <1>8 DEF Http!DrainExpired
<1>9. ASSUME NEW r \in Requests, Http!serveHttp(r)
      PROVE  HttpInv'
  BY <1>9 DEF Http!serveHttp
<1>10. ASSUME NEW r \in Requests, Http!Disconnect(r)
      PROVE  HttpInv'
  BY <1>10 DEF Http!Disconnect
<1>11. ASSUME NEW r \in Requests, Http!ResponseEnds(r)
      PROVE  HttpInv'
  BY <1>11 DEF Http!ResponseEnds
<1>12. ASSUME NEW r \in Requests, Http!BeginFails(r), UNCHANGED <<Http!lifeVars, connections>>
      PROVE  HttpInv'
  BY <1>12 DEF Http!BeginFails, Http!Complete
<1>13. ASSUME NEW r \in Requests, Http!BeginsRefused(r), UNCHANGED <<Http!lifeVars, connections>>
      PROVE  HttpInv'
  BY <1>13 DEF Http!BeginsRefused, Http!Free
<1>14. ASSUME NEW r \in Requests, Http!Begins(r), hasResult => Http!Free(r), UNCHANGED <<Http!lifeVars, connections>>
      PROVE  HttpInv'
  BY <1>14 DEF Http!Begins, Http!Free, Http!Hold
<1>15. ASSUME NEW r \in Requests, Http!ConsumeFails(r), UNCHANGED <<Http!lifeVars, connections>>
      PROVE  HttpInv'
  <2>1. CASE hasResult
    <3> USE <1>15, <2>1 DEF Http!ConsumeFails, Http!Retire
    <3>1. RequestTypes'
      <4>1. pending' \in [StreamIds -> Requests \cup {None}]
        OBVIOUS
      <4>2. retiring' = [retiring EXCEPT ![r] = TRUE]
        BY ONLY <1>15, <2>1 DEF Http!ConsumeFails, Http!Retire
      <4>4. retiring' \in [Requests -> BOOLEAN]
        BY ONLY <4>2, RequestTypes DEF RequestTypes
      <4>3. registered' \in [Requests -> {"unset", "set", "removed"}]
        OBVIOUS
      <4> QED  BY <4>1, <4>3, <4>4
    <3>4. CallbacksInTime'
      OBVIOUS
    <3>2. HttpPending'
      OBVIOUS
    <3>3. HttpStop'
      OBVIOUS
    <3> QED  BY ZenonT(60), <3>1, <3>2, <3>3, <3>4
  <2>2. CASE ~hasResult
    BY <1>15, <2>2 DEF Http!ConsumeFails
  <2> QED  BY Zenon, <2>1, <2>2
<1>16. ASSUME NEW r \in Requests, Http!Consumed(r), hasResult, UNCHANGED <<Http!lifeVars, connections>>
      PROVE  HttpInv'
  BY <1>16 DEF Http!Consumed
<1>17. ASSUME NEW r \in Requests, Http!ConsumedWithoutResult(r), UNCHANGED <<Http!lifeVars, connections>>
      PROVE  HttpInv'
  <2>1. RequestTypes'
    BY <1>17 DEF Http!ConsumedWithoutResult
  <2>2. CallbacksInTime'
    BY <1>17 DEF Http!ConsumedWithoutResult
  <2>3. HttpPending'
    BY <1>17 DEF Http!ConsumedWithoutResult
  <2>4. HttpStop'
    BY <1>17 DEF Http!ConsumedWithoutResult
  <2> QED  BY <1>17, <2>1, <2>2, <2>3, <2>4
<1>18. ASSUME NEW r \in Requests, Http!waitForDoneOrCancellation(r), UNCHANGED <<Http!lifeVars, connections>>
      PROVE  HttpInv'
  BY <1>18 DEF Http!waitForDoneOrCancellation, Http!Awaited, Http!Retire
<1>19. ASSUME NEW r \in Requests, Http!Quiesced(r), UNCHANGED <<Http!lifeVars, connections>>
      PROVE  HttpInv'
  BY <1>19 DEF Http!Quiesced, Http!Running
<1>20. ASSUME NEW r \in Requests, Http!Retired(r), UNCHANGED <<Http!lifeVars, connections>>
      PROVE  HttpInv'
  BY <1>20 DEF Http!Retired, Http!Drop
<1>21. ASSUME NEW r \in Requests, Http!Ended(r), UNCHANGED <<Http!lifeVars, connections>>
      PROVE  HttpInv'
  BY <1>21 DEF Http!Ended, Http!Complete, Http!Forget
<1>22. ASSUME NEW r \in Requests, Http!Register(r), UNCHANGED <<Http!lifeVars, connections>>
      PROVE  HttpInv'
  BY <1>22 DEF Http!Register
<1>23. ASSUME NEW r \in Requests, Http!Done(r), UNCHANGED <<Http!lifeVars, connections>>
      PROVE  HttpInv'
  BY Zenon, <1>23 DEF Http!Done
<1>24. ASSUME NEW d \in Deliveries, Http!Deliver(d), hasResult, UNCHANGED <<Http!lifeVars, connections>>
      PROVE  HttpInv'
  BY <1>24 DEF Http!Deliver, Http!Accepts
<1>25. ASSUME NEW d \in Deliveries, Http!CallbackEnds(d), hasResult, UNCHANGED <<Http!lifeVars, connections>>
      PROVE  HttpInv'
  BY <1>25 DEF Http!CallbackEnds
<1> QED
  BY ZenonT(60), <1>1, <1>2, <1>3, <1>4, <1>5, <1>6, <1>7, <1>8, <1>9, <1>10, <1>11, <1>12, <1>13, <1>14, <1>15, <1>16, <1>17, <1>18, <1>19, <1>20, <1>21, <1>22, <1>23, <1>24, <1>25
     DEF Http!Next, Http!serveAccepted, Http!results, Http!consumeResult

\* Every step of the gRPC source preserves its invariant ...
LEMMA GrpcStep ==
    ASSUME GrpcInv, Grpc!Next
    PROVE  GrpcInv'
<1> USE ServersAssumption
    DEF GrpcInv, RequestTypes, CallbacksInTime, GrpcPending, GrpcAnswers, GrpcStop,
        Grpc!StopLeavesOnlyCancelled, Grpc!UnaryAnswerHasResponse, Grpc!Active, Grpc!Goto,
        Grpc!resultVars, Grpc!requestVars, Grpc!localVars, Grpc!senderVars, Grpc!sourceVars
<1>1. ASSUME Grpc!Stop
      PROVE  GrpcInv'
  BY <1>1 DEF Grpc!Stop
<1>2. ASSUME Grpc!Idle
      PROVE  GrpcInv'
  BY <1>2 DEF Grpc!Idle
<1>3. ASSUME Grpc!StopDeadline
      PROVE  GrpcInv'
  BY ZenonT(60), <1>3 DEF Grpc!StopDeadline
<1>4. ASSUME NEW r \in Requests, Grpc!Call(r)
      PROVE  GrpcInv'
  BY <1>4 DEF Grpc!Call, Grpc!Streams
<1>5. ASSUME NEW r \in Requests, Grpc!ClientCancels(r)
      PROVE  GrpcInv'
  BY <1>5 DEF Grpc!ClientCancels
<1>6. ASSUME NEW r \in Requests, Grpc!Release(r)
      PROVE  GrpcInv'
  BY <1>6 DEF Grpc!Release
<1>7. ASSUME NEW r \in Requests, Grpc!BeginFails(r), UNCHANGED <<calls, Grpc!sourceVars>>
      PROVE  GrpcInv'
  BY <1>7 DEF Grpc!BeginFails
<1>8. ASSUME NEW r \in Requests, Grpc!Reserve(r), UNCHANGED <<calls, Grpc!sourceVars>>
      PROVE  GrpcInv'
  BY <1>8 DEF Grpc!Reserve, Grpc!Free, Grpc!Hold, Grpc!StreamsIn
<1>9. ASSUME NEW r \in Requests, Grpc!Duplicate(r), UNCHANGED <<calls, Grpc!sourceVars>>
      PROVE  GrpcInv'
  BY <1>9 DEF Grpc!Duplicate, Grpc!Free
<1>10. ASSUME NEW r \in Requests, Grpc!Receive(r), UNCHANGED <<calls, Grpc!sourceVars>>
      PROVE  GrpcInv'
  BY <1>10 DEF Grpc!Receive
<1>11. ASSUME NEW r \in Requests, Grpc!ConsumedMessage(r), UNCHANGED <<calls, Grpc!sourceVars>>
      PROVE  GrpcInv'
  BY <1>11 DEF Grpc!ConsumedMessage, Grpc!StreamsIn
<1>12. ASSUME NEW r \in Requests, Grpc!EofAwaits(r), UNCHANGED <<calls, Grpc!sourceVars>>
      PROVE  GrpcInv'
  BY <1>12 DEF Grpc!EofAwaits
<1>13. ASSUME NEW r \in Requests, Grpc!EofEnds(r), UNCHANGED <<calls, Grpc!sourceVars>>
      PROVE  GrpcInv'
  BY <1>13 DEF Grpc!EofEnds, Grpc!Retire
<1>14. ASSUME NEW r \in Requests, Grpc!Fails(r), UNCHANGED <<calls, Grpc!sourceVars>>
      PROVE  GrpcInv'
  BY <1>14 DEF Grpc!Fails, Grpc!Retire
<1>15. ASSUME NEW r \in Requests, Grpc!waitForResult(r), UNCHANGED <<Grpc!localVars, calls, Grpc!sourceVars>>
      PROVE  GrpcInv'
  BY <1>15 DEF Grpc!waitForResult, Grpc!Awaited, Grpc!Retire
<1>16. ASSUME NEW r \in Requests, Grpc!Quiesced(r), UNCHANGED <<Grpc!localVars, calls, Grpc!sourceVars>>
      PROVE  GrpcInv'
  BY <1>16 DEF Grpc!Quiesced, Grpc!Running
<1>17. ASSUME NEW r \in Requests, Grpc!RetiredKeeps(r), UNCHANGED <<calls, Grpc!sourceVars>>
      PROVE  GrpcInv'
  BY <1>17 DEF Grpc!RetiredKeeps
<1>18. ASSUME NEW r \in Requests, Grpc!EndRequest(r), UNCHANGED <<calls, Grpc!sourceVars>>
      PROVE  GrpcInv'
  BY <1>18 DEF Grpc!EndRequest
<1>19. ASSUME NEW r \in Requests, Grpc!Closed(r), UNCHANGED <<calls, Grpc!sourceVars>>
      PROVE  GrpcInv'
  BY <1>19 DEF Grpc!Closed, Grpc!Forget
<1>20. ASSUME NEW r \in Requests, Grpc!Register(r), UNCHANGED <<Grpc!localVars, calls, Grpc!sourceVars>>
      PROVE  GrpcInv'
  BY <1>20 DEF Grpc!Register
<1>21. ASSUME NEW r \in Requests, Grpc!Done(r), UNCHANGED <<Grpc!localVars, calls, Grpc!sourceVars>>
      PROVE  GrpcInv'
  BY Zenon, <1>21 DEF Grpc!Done
<1>22. ASSUME NEW d \in Deliveries, Grpc!Deliver(d), hasResult, UNCHANGED <<Grpc!localVars, calls, Grpc!sourceVars>>
      PROVE  GrpcInv'
  BY <1>22 DEF Grpc!Deliver, Grpc!Accepts
<1>23. ASSUME NEW d \in Deliveries, Grpc!CallbackEnds(d), hasResult, UNCHANGED <<Grpc!localVars, calls, Grpc!sourceVars>>
      PROVE  GrpcInv'
  BY <1>23 DEF Grpc!CallbackEnds
<1>24. ASSUME NEW r \in Requests, Grpc!SendUnary(r)
      PROVE  GrpcInv'
  BY <1>24 DEF Grpc!SendUnary
<1>25. ASSUME NEW r \in Requests, Grpc!Write(r)
      PROVE  GrpcInv'
  BY <1>25 DEF Grpc!Write
<1>26. ASSUME NEW r \in Requests, Grpc!Written(r)
      PROVE  GrpcInv'
  BY <1>26 DEF Grpc!Written
<1> QED
  BY ZenonT(60), <1>1, <1>2, <1>3, <1>4, <1>5, <1>6, <1>7, <1>8, <1>9, <1>10, <1>11, <1>12, <1>13, <1>14, <1>15, <1>16, <1>17, <1>18, <1>19, <1>20, <1>21, <1>22, <1>23, <1>24, <1>25, <1>26
     DEF Grpc!Next, Grpc!handleCall, Grpc!Admission, Grpc!Body, Grpc!Finally, Grpc!results,
         Grpc!consumeResult

\* The handlers of two sources differ, also when they are for one method.
LEMMA OwnApart ==
    ASSUME NEW s, NEW t, s # t
    PROVE  Host!Own(s) \cap Host!Own(t) = {}
BY DEF Host!Own

\* Every step of the host preserves its invariant ...
LEMMA HostStep ==
    ASSUME HostInv, Host!Next
    PROVE  HostInv'
<1>0. 0 \notin Host!HostIds
  BY ServersAssumption DEF Host!HostIds
<1>n. /\ Host!NoHost.ready = "none" /\ Host!NoHost.sources = {} /\ Host!NoHost.closing = FALSE
      /\ Host!NoHost \in HostRecord
  BY DEF Host!NoHost, HostRecord
<1>t. HostTypes
  BY DEF HostInv
<1>u. HostInUse
  BY DEF HostInv
<1>b. HostBooks
  BY DEF HostInv
<1>p. HostPhases
  BY DEF HostInv
<1>1. ASSUME NEW h \in Host!HostIds, Host!Bound(h)
      PROVE  HostInv'
  <2>0. PICK result \in {"bound", "failed"} : hosts' = [hosts EXCEPT ![h].ready = result]
    BY Zenon, <1>1 DEF Host!Bound
  <2>a. hosts' \in [Host!HostIds -> HostRecord]
    BY <1>t, <2>0 DEF HostTypes, HostRecord
  <2>b. /\ hosts'[h].ready = result /\ hosts'[h].sources = hosts[h].sources
        /\ hosts'[h].closing = hosts[h].closing
        /\ \A g \in Host!HostIds : g # h => hosts'[g] = hosts[g]
    BY <1>t, <2>0 DEF HostTypes, HostRecord
  <2>c. hosts[h].ready = "binding" /\ UNCHANGED <<grpcServers, methods, phase, on, stopping>>
    BY <1>1 DEF Host!Bound
  <2>d. h = grpcServers
    BY <1>0, <1>n, <1>t, <1>u, <2>c DEF HostTypes, HostInUse
  <2>1. HostTypes'
    BY <1>n, <1>t, <2>a, <2>c DEF HostTypes
  <2>2. HostInUse'
    <3>1. \A g \in Host!HostIds : g # grpcServers' => hosts'[g] = Host!NoHost /\ methods'[g] = {}
      BY Zenon, <1>0, <1>n, <1>t, <1>u, <2>b, <2>c, <2>d DEF HostTypes, HostInUse
    <3>2. hosts'[grpcServers'].ready # "none" /\ \E t \in Sources : phase'[t] # "idle"
      BY Zenon, <1>0, <1>n, <1>t, <1>u, <1>b, <1>p, <2>b, <2>c, <2>d DEF HostTypes, HostInUse, HostBooks, HostPhases
    <3>3. \A t \in Sources :
            /\ phase'[t] \in {"starting", "started", "draining", "closing"} =>
                   on'[t] = grpcServers' /\ grpcServers' # 0
            /\ phase'[t] = "failing" => on'[t] # 0 /\ grpcServers' \in {0, on'[t]}
      BY Zenon, <1>0, <1>n, <1>t, <1>u, <2>b, <2>c, <2>d DEF HostTypes, HostInUse
    <3> QED  BY <3>1, <3>2, <3>3 DEF HostInUse
  <2>3. HostBooks'
    BY Zenon, <1>0, <1>n, <1>t, <1>u, <1>b, <2>b, <2>c, <2>d DEF HostTypes, HostInUse, HostBooks
  <2>4. HostPhases'
    BY ZenonT(60), <1>0, <1>n, <1>t, <1>u, <1>b, <1>p, <2>b, <2>c, <2>d DEF HostTypes, HostInUse, HostBooks, HostPhases
  <2> QED  BY <2>1, <2>2, <2>3, <2>4 DEF HostInv
<1>2. ASSUME NEW s \in Sources, Host!Start(s)
      PROVE  HostInv'
  <2>0. PICK h \in Host!HostIds :
            /\ IF grpcServers = 0 THEN hosts[h] = Host!NoHost ELSE h = grpcServers
            /\ ~hosts[h].closing /\ grpcServers' = h /\ on' = [on EXCEPT ![s] = h]
            /\ LET binding == IF grpcServers = 0 THEN [hosts EXCEPT ![h].ready = "binding"] ELSE hosts
               IN IF Host!Duplicate(s, h)
                  THEN /\ phase' = [phase EXCEPT ![s] = "failing"]
                       /\ hosts' = binding /\ UNCHANGED methods
                  ELSE /\ phase' = [phase EXCEPT ![s] = "starting"]
                       /\ hosts' = [binding EXCEPT ![h].sources = @ \cup {s}]
                       /\ methods' = [methods EXCEPT ![h] = @ \cup Host!Own(s)]
    BY Zenon, <1>2 DEF Host!Start
  <2>q. /\ phase[s] = "idle" /\ stopping = {} /\ stopping' = {}
        /\ grpcServers = 0 => \A t \in Sources : phase[t] = "idle"
        /\ \A t \in Sources : phase[t] \notin {"draining", "closing"}
    BY <1>0, <1>n, <1>t, <1>u, <1>b, <1>p, <1>2 DEF HostTypes, HostInUse, HostBooks, HostPhases, Host!Start, Host!Quiet, Host!Pending
  <2>m. grpcServers = h \/ ~Host!Duplicate(s, h)
    BY <1>0, <1>n, <1>t, <1>u, <2>0 DEF HostTypes, HostInUse, Host!Duplicate
  <2>a. CASE Host!Duplicate(s, h)
    <3>a. grpcServers = h /\ grpcServers' = h /\ hosts' = hosts /\ methods' = methods
      BY <1>0, <2>0, <2>a, <2>m
    <3>b. on' = [on EXCEPT ![s] = h] /\ phase' = [phase EXCEPT ![s] = "failing"]
      BY <2>0, <2>a
    <3>1. HostTypes'
      BY Zenon, <1>n, <1>t, <2>q, <3>a, <3>b DEF HostTypes
    <3>2. HostInUse'
      BY Zenon, <1>0, <1>n, <1>t, <1>u, <2>q, <3>a, <3>b DEF HostTypes, HostInUse
    <3>3. HostBooks'
      BY Zenon, <1>0, <1>n, <1>t, <1>u, <1>b, <2>q, <3>a, <3>b DEF HostTypes, HostInUse, HostBooks
    <3>4. HostPhases'
      BY ZenonT(60), <1>0, <1>n, <1>t, <1>u, <1>b, <1>p, <2>q, <3>a, <3>b DEF HostTypes, HostInUse, HostBooks, HostPhases
    <3> QED  BY <3>1, <3>2, <3>3, <3>4 DEF HostInv
  <2>b. CASE ~Host!Duplicate(s, h)
    <3>a. on' = [on EXCEPT ![s] = h] /\ phase' = [phase EXCEPT ![s] = "starting"]
          /\ grpcServers' = h /\ methods' = [methods EXCEPT ![h] = @ \cup Host!Own(s)]
      BY <2>0, <2>b
    <3>b. hosts' \in [Host!HostIds -> HostRecord]
      BY <1>t, <2>0, <2>b DEF HostTypes, HostRecord
    <3>c. /\ hosts'[h].sources = hosts[h].sources \cup {s} /\ hosts'[h].closing = FALSE
          /\ hosts'[h].ready = IF grpcServers = 0 THEN "binding" ELSE hosts[h].ready
          /\ \A g \in Host!HostIds : g # h => hosts'[g] = hosts[g]
      BY <1>t, <2>0, <2>b DEF HostTypes, HostRecord
    <3>d. IF grpcServers = 0 THEN hosts[h] = Host!NoHost ELSE h = grpcServers
      BY <2>0
    <3>1. HostTypes'
      BY Zenon, <1>n, <1>t, <2>q, <3>a, <3>b DEF HostTypes
    <3>2. HostInUse'
      <4>1. \A g \in Host!HostIds : g # grpcServers' => hosts'[g] = Host!NoHost /\ methods'[g] = {}
        BY <1>0, <1>n, <1>t, <1>u, <2>q, <3>a, <3>c, <3>d DEF HostTypes, HostInUse
      <4>2. hosts'[grpcServers'].ready # "none" /\ \E t \in Sources : phase'[t] # "idle"
        BY ZenonT(60), <1>0, <1>n, <1>t, <1>u, <1>b, <1>p, <2>q, <3>a, <3>c, <3>d DEF HostTypes, HostInUse, HostBooks, HostPhases
      <4>3. \A t \in Sources :
              /\ phase'[t] \in {"starting", "started", "draining", "closing"} =>
                     on'[t] = grpcServers' /\ grpcServers' # 0
              /\ phase'[t] = "failing" => on'[t] # 0 /\ grpcServers' \in {0, on'[t]}
        BY Zenon, <1>0, <1>n, <1>t, <1>u, <2>q, <3>a, <3>c, <3>d DEF HostTypes, HostInUse
      <4> QED  BY <4>1, <4>2, <4>3 DEF HostInUse
    <3>3. HostBooks'
      <4>1. CASE grpcServers = 0
        BY ZenonT(60), <1>0, <1>n, <1>t, <1>u, <1>b, <4>1, <2>q, <3>a, <3>c, <3>d DEF HostTypes, HostInUse, HostBooks
      <4>2. CASE grpcServers = h
        BY ZenonT(60), <1>0, <1>n, <1>t, <1>u, <1>b, <4>2, <2>q, <3>a, <3>c DEF HostTypes, HostInUse, HostBooks
      <4> QED  BY Zenon, <3>d, <4>1, <4>2
    <3>4. HostPhases'
      BY <1>0, <1>n, <1>t, <1>u, <1>b, <1>p, <2>q, <3>a, <3>c, <3>d DEF HostTypes, HostInUse, HostBooks, HostPhases
    <3> QED  BY <3>1, <3>2, <3>3, <3>4 DEF HostInv
  <2> QED  BY <2>a, <2>b
<1>3. ASSUME NEW s \in Sources, Host!StartReady(s)
      PROVE  HostInv'
  <2> USE <1>3 DEF Host!StartReady
  <2>1. HostTypes'
    BY <1>n, <1>t DEF HostTypes
  <2>2. HostInUse'
    BY Zenon, <1>0, <1>n, <1>t, <1>u DEF HostTypes, HostInUse
  <2>3. HostBooks'
    BY Zenon, <1>0, <1>n, <1>t, <1>u, <1>b DEF HostTypes, HostInUse, HostBooks
  <2>4. HostPhases'
    BY <1>0, <1>n, <1>t, <1>u, <1>b, <1>p DEF HostTypes, HostInUse, HostBooks, HostPhases
  <2> QED  BY <2>1, <2>2, <2>3, <2>4 DEF HostInv
<1>4. ASSUME NEW s \in Sources, Host!StartFails(s)
      PROVE  HostInv'
  <2> DEFINE h == on[s]
  <2>0. h \in Host!HostIds /\ h = grpcServers /\ phase[s] = "starting" /\ hosts[h].ready = "failed"
    BY <1>0, <1>n, <1>t, <1>u, <1>4 DEF HostTypes, HostInUse, Host!StartFails
  <2>a. /\ phase' = [phase EXCEPT ![s] = "failing"]
        /\ methods' = [methods EXCEPT ![h] = @ \ Host!Own(s)]
        /\ UNCHANGED <<grpcServers, on, stopping>>
        /\ hosts' = [hosts EXCEPT ![h].sources = @ \ {s}]
    BY <1>4 DEF Host!StartFails
  <2> HIDE DEF h
  <2>b. hosts' \in [Host!HostIds -> HostRecord]
    BY <1>t, <2>0, <2>a DEF HostTypes, HostRecord
  <2>c. /\ hosts'[h].sources = hosts[h].sources \ {s} /\ hosts'[h].closing = hosts[h].closing
        /\ hosts'[h].ready = hosts[h].ready
        /\ \A g \in Host!HostIds : g # h => hosts'[g] = hosts[g]
    BY <1>t, <2>0, <2>a DEF HostTypes, HostRecord
  <2>d. methods'[h] = methods[h] \ Host!Own(s)
        /\ \A g \in Host!HostIds : g # h => methods'[g] = methods[g]
    BY <1>t, <2>0, <2>a DEF HostTypes
  <2>1. HostTypes'
    BY <1>n, <1>t, <2>0, <2>a, <2>b DEF HostTypes
  <2>2. HostInUse'
    BY <1>0, <1>n, <1>t, <1>u, <2>0, <2>a, <2>c, <2>d DEF HostTypes, HostInUse
  <2>3. HostBooks'
    BY Zenon, <1>0, <1>n, <1>t, <1>u, <1>b, OwnApart, <2>0, <2>a, <2>c, <2>d DEF HostTypes, HostInUse, HostBooks
  <2>4. HostPhases'
    BY ZenonT(60), <1>0, <1>n, <1>t, <1>u, <1>b, <1>p, <2>0, <2>a, <2>c DEF HostTypes, HostInUse, HostBooks, HostPhases
  <2> QED  BY <2>1, <2>2, <2>3, <2>4 DEF HostInv
<1>5. ASSUME NEW s \in Sources, Host!StartFailed(s)
      PROVE  HostInv'
  <2> DEFINE h == on[s]
  <2>0. h \in Host!HostIds /\ grpcServers \in {0, h} /\ phase[s] = "failing"
    BY <1>0, <1>n, <1>t, <1>u, <1>5 DEF HostTypes, HostInUse, Host!StartFailed
  <2>a. /\ phase' = [phase EXCEPT ![s] = "idle"] /\ on' = [on EXCEPT ![s] = 0]
        /\ UNCHANGED <<methods, stopping>>
    BY <1>5 DEF Host!StartFailed
  <2>b. CASE hosts[h].sources = {}
    <3>a. hosts' = [hosts EXCEPT ![h] = Host!NoHost] /\ grpcServers' = 0
      BY Zenon, <1>5, <2>b DEF Host!StartFailed
    <3>b. \A t \in Sources : phase[t] \in {"idle", "failing"}
      BY ZenonT(60), <1>0, <1>n, <1>t, <1>u, <1>b, <1>p, <2>0, <2>b DEF HostTypes, HostInUse, HostBooks, HostPhases
    <3>c. methods[h] = {}
      BY Zenon, <1>0, <1>n, <1>t, <1>u, <1>b, <1>p, <2>0, <3>b DEF HostTypes, HostInUse, HostBooks, HostPhases
    <3> HIDE DEF h
    <3>1. HostTypes'
      BY <1>n, <1>t, <2>0, <2>a, <3>a DEF HostTypes
    <3>2. HostInUse'
      BY <1>0, <1>n, <1>t, <1>u, <2>0, <2>a, <3>a, <3>b, <3>c DEF HostTypes, HostInUse
    <3>3. HostBooks'
      BY Zenon, <1>0, <1>n, <1>t, <1>u, <1>b, <3>a DEF HostTypes, HostInUse, HostBooks
    <3>4. HostPhases'
      BY ZenonT(60), <1>0, <1>n, <1>t, <1>u, <1>b, <1>p, <2>0, <2>a, <3>a, <3>b DEF HostTypes, HostInUse, HostBooks, HostPhases
    <3> QED  BY <3>1, <3>2, <3>3, <3>4 DEF HostInv
  <2>c. CASE hosts[h].sources # {}
    <3>a. UNCHANGED <<hosts, grpcServers>>
      BY <1>5, <2>c DEF Host!StartFailed
    <3>b. PICK t \in Sources : t # s /\ phase[t] # "idle"
      <4>1. PICK t \in hosts[h].sources : t \in Sources
        BY Zenon, <1>t, <2>0, <2>c DEF HostTypes, HostRecord
      <4>2. grpcServers = h
        BY Zenon, <1>0, <1>n, <1>t, <1>u, <2>0, <2>c DEF HostTypes, HostInUse
      <4> QED  BY <1>0, <1>b, <2>0, <4>1, <4>2 DEF HostBooks
    <3>1. HostTypes'
      BY <1>n, <1>t, <2>0, <2>a, <3>a DEF HostTypes
    <3>2. HostInUse'
      BY Zenon, <1>0, <1>n, <1>t, <1>u, <2>0, <2>a, <3>a, <3>b DEF HostTypes, HostInUse
    <3>3. HostBooks'
      BY Zenon, <1>0, <1>n, <1>t, <1>u, <1>b, <2>0, <2>a, <3>a DEF HostTypes, HostInUse, HostBooks
    <3>4. HostPhases'
      BY Zenon, <1>0, <1>n, <1>t, <1>u, <1>b, <1>p, <2>0, <2>a, <3>a DEF HostTypes, HostInUse, HostBooks, HostPhases
    <3> QED  BY <3>1, <3>2, <3>3, <3>4 DEF HostInv
  <2> QED  BY <2>b, <2>c
<1>6. ASSUME NEW s \in Sources, Host!Call(s)
      PROVE  HostInv'
  BY Zenon, HostInv, <1>6 DEF HostInv, HostTypes, HostInUse, HostBooks, HostPhases, Host!Call
<1>7. ASSUME NEW s \in Sources, Host!CallEnds(s)
      PROVE  HostInv'
  BY Zenon, HostInv, <1>7 DEF HostInv, HostTypes, HostInUse, HostBooks, HostPhases, Host!CallEnds
<1>8. ASSUME NEW s \in Sources, Host!RequestStop(s)
      PROVE  HostInv'
  BY Zenon, HostInv, <1>8 DEF HostInv, HostTypes, HostInUse, HostBooks, HostPhases, Host!RequestStop
<1>9. ASSUME NEW s \in Sources, Host!StopIdle(s)
      PROVE  HostInv'
  BY ZenonT(60), HostInv, <1>9 DEF HostInv, HostTypes, HostInUse, HostBooks, HostPhases, Host!StopIdle
<1>10. ASSUME NEW s \in Sources, Host!Stop(s)
      PROVE  HostInv'
  <2> DEFINE h == on[s]
  <2>0. h \in Host!HostIds /\ h = grpcServers /\ phase[s] = "started" /\ s \in stopping
    BY <1>0, <1>n, <1>t, <1>u, <1>10 DEF HostTypes, HostInUse, Host!Stop
  <2>a. /\ phase' = [phase EXCEPT ![s] = "draining"]
        /\ methods' = [methods EXCEPT ![h] = @ \ Host!Own(s)]
        /\ UNCHANGED <<grpcServers, hosts, on, stopping>>
    BY Zenon, <1>10 DEF Host!Stop
  <2>b. hosts[h].ready = "bound" /\ \A t \in Sources : phase[t] \notin {"starting", "failing"}
    BY Zenon, <1>0, <1>n, <1>t, <1>u, <1>b, <1>p, <1>10, <2>0 DEF HostTypes, HostInUse, HostBooks, HostPhases, Host!Stop, Host!Quiet, Host!Pending
  <2> HIDE DEF h
  <2>1. HostTypes'
    BY Zenon, <1>n, <1>t, <2>0, <2>a DEF HostTypes
  <2>2. HostInUse'
    BY Zenon, <1>0, <1>n, <1>t, <1>u, <2>0, <2>a DEF HostTypes, HostInUse
  <2>3. HostBooks'
    BY Zenon, <1>0, <1>n, <1>t, <1>u, <1>b, OwnApart, <2>0, <2>a DEF HostTypes, HostInUse, HostBooks
  <2>4. HostPhases'
    BY ZenonT(60), <1>0, <1>n, <1>t, <1>u, <1>b, <1>p, <2>0, <2>a, <2>b DEF HostTypes, HostInUse, HostBooks, HostPhases
  <2> QED  BY <2>1, <2>2, <2>3, <2>4 DEF HostInv
<1>11. ASSUME NEW s \in Sources, Host!Leave(s)
      PROVE  HostInv'
  <2> DEFINE h == on[s]
             rest == hosts[h].sources \ {s}
  <2>0. h \in Host!HostIds /\ h = grpcServers /\ phase[s] = "draining" /\ s \in stopping
    BY <1>0, <1>t, <1>u, <1>p, <1>11 DEF HostTypes, HostInUse, HostPhases, Host!Leave
  <2>a. UNCHANGED <<grpcServers, methods>>
    BY <1>11 DEF Host!Leave
  <2>r. rest = {t \in Sources : t # s /\ phase[t] \in {"started", "draining"}}
    <3>1. hosts[h].sources \subseteq Sources
      BY <1>t, <2>0 DEF HostTypes, HostRecord
    <3>2. \A t \in Sources : t \in hosts[h].sources <=> phase[t] \in {"starting", "started", "draining"}
      BY <1>0, <1>b, <2>0 DEF HostBooks
    <3>3. \A t \in Sources : phase[t] # "starting"
      BY <1>p, <2>0 DEF HostPhases
    <3> QED  BY <3>1, <3>2, <3>3
  <2>b. CASE rest # {}
    <3>a. /\ phase' = [phase EXCEPT ![s] = "idle"] /\ on' = [on EXCEPT ![s] = 0]
          /\ stopping' = stopping \ {s} /\ hosts' = [hosts EXCEPT ![h].sources = rest]
      BY <1>11, <2>b DEF Host!Leave
    <3>b. PICK t \in Sources : t # s /\ phase[t] \in {"started", "draining"}
      BY <2>b, <2>r
    <3> HIDE DEF h, rest
    <3>c. hosts' \in [Host!HostIds -> HostRecord]
      BY <1>t, <2>0, <2>r, <3>a DEF HostTypes, HostRecord
    <3>d. /\ hosts'[h].sources = rest /\ hosts'[h].closing = hosts[h].closing
          /\ hosts'[h].ready = hosts[h].ready
          /\ \A g \in Host!HostIds : g # h => hosts'[g] = hosts[g]
      BY <1>t, <2>0, <3>a DEF HostTypes, HostRecord
    <3>1. HostTypes'
      BY <1>n, <1>t, <2>0, <2>a, <3>a, <3>c DEF HostTypes
    <3>2. HostInUse'
      BY ZenonT(60), <1>0, <1>n, <1>t, <1>u, <2>0, <2>a, <3>a, <3>b, <3>d DEF HostTypes, HostInUse
    <3>3. HostBooks'
      <4>1. \A u \in Sources : phase[u] # "starting"
        BY <1>p, <2>0 DEF HostPhases
      <4>2. \A u \in Sources : u \in rest <=> phase'[u] \in {"starting", "started", "draining"}
        BY <1>t, <2>0, <2>r, <3>a, <4>1 DEF HostTypes
      <4>3. \A u \in Sources : phase'[u] \in {"starting", "started"}
                              <=> phase[u] \in {"starting", "started"}
        BY <1>t, <2>0, <3>a DEF HostTypes
      <4> QED  BY Zenon, <1>0, <1>b, <2>0, <2>a, <3>d, <4>2, <4>3 DEF HostBooks
    <3>4. HostPhases'
      BY ZenonT(60), <1>0, <1>n, <1>t, <1>u, <1>b, <1>p, <2>0, <2>a, <3>a, <3>b, <3>d DEF HostTypes, HostInUse, HostBooks, HostPhases
    <3> QED  BY <3>1, <3>2, <3>3, <3>4 DEF HostInv
  <2>c. CASE rest = {}
    <3>a. /\ phase' = [phase EXCEPT ![s] = "closing"] /\ UNCHANGED <<on, stopping>>
          /\ hosts' = [hosts EXCEPT ![h].sources = {}, ![h].closing = TRUE]
      BY Zenon, <1>11, <2>c DEF Host!Leave
    <3>b. \A t \in Sources : t # s => phase[t] = "idle"
      BY <1>0, <1>n, <1>t, <1>u, <1>b, <1>p, <2>0, <2>c, <2>r DEF HostTypes, HostInUse, HostBooks, HostPhases
    <3> HIDE DEF h, rest
    <3>c. hosts' \in [Host!HostIds -> HostRecord]
      <4>1. hosts[h] \in HostRecord
        BY <1>t, <2>0 DEF HostTypes
      <4>2. [hosts[h] EXCEPT !.sources = {}, !.closing = TRUE] \in HostRecord
        BY Zenon, <4>1 DEF HostRecord
      <4>3. hosts' = [hosts EXCEPT ![h] = [hosts[h] EXCEPT !.sources = {}, !.closing = TRUE]]
        BY Zenon, <1>t, <2>0, <3>a DEF HostTypes
      <4> QED  BY <1>t, <2>0, <4>2, <4>3 DEF HostTypes
    <3>d. /\ hosts'[h].sources = {} /\ hosts'[h].closing = TRUE
          /\ hosts'[h].ready = hosts[h].ready
          /\ \A g \in Host!HostIds : g # h => hosts'[g] = hosts[g]
      BY <1>t, <2>0, <3>a DEF HostTypes, HostRecord
    <3>1. HostTypes'
      BY Zenon, <1>n, <1>t, <2>0, <2>a, <3>a, <3>c DEF HostTypes
    <3>2. HostInUse'
      <4>1. \A g \in Host!HostIds : g # grpcServers' => hosts'[g] = Host!NoHost /\ methods'[g] = {}
        BY Zenon, <1>0, <1>n, <1>t, <1>u, <2>0, <2>a, <3>a, <3>d DEF HostTypes, HostInUse
      <4>2. hosts'[grpcServers'].ready # "none" /\ \E t \in Sources : phase'[t] # "idle"
        BY <1>0, <1>n, <1>t, <1>u, <1>b, <1>p, <2>0, <2>a, <3>a, <3>d DEF HostTypes, HostInUse, HostBooks, HostPhases
      <4>3. \A t \in Sources :
              /\ phase'[t] \in {"starting", "started", "draining", "closing"} =>
                     on'[t] = grpcServers' /\ grpcServers' # 0
              /\ phase'[t] = "failing" => on'[t] # 0 /\ grpcServers' \in {0, on'[t]}
        BY Zenon, <1>0, <1>n, <1>t, <1>u, <2>0, <2>a, <3>a, <3>d DEF HostTypes, HostInUse
      <4> QED  BY <4>1, <4>2, <4>3 DEF HostInUse
    <3>3. HostBooks'
      BY ZenonT(60), <1>0, <1>n, <1>t, <1>u, <1>b, <2>0, <2>a, <3>a, <3>b, <3>d DEF HostTypes, HostInUse, HostBooks
    <3>4. HostPhases'
      BY <1>0, <1>n, <1>t, <1>u, <1>b, <1>p, <2>0, <2>a, <3>a, <3>b, <3>d DEF HostTypes, HostInUse, HostBooks, HostPhases
    <3> QED  BY <3>1, <3>2, <3>3, <3>4 DEF HostInv
  <2> QED  BY <2>b, <2>c
<1>12. ASSUME NEW s \in Sources, Host!Closed(s)
      PROVE  HostInv'
  <2> DEFINE h == on[s]
  <2>0. h \in Host!HostIds /\ h = grpcServers /\ phase[s] = "closing"
    BY Zenon, <1>0, <1>n, <1>t, <1>u, <1>12 DEF HostTypes, HostInUse, Host!Closed
  <2>a. /\ hosts' = [hosts EXCEPT ![h] = Host!NoHost] /\ grpcServers' = 0
        /\ phase' = [phase EXCEPT ![s] = "idle"] /\ on' = [on EXCEPT ![s] = 0]
        /\ stopping' = stopping \ {s} /\ UNCHANGED methods
    BY Zenon, <1>12 DEF Host!Closed
  <2>b. \A t \in Sources : t # s => phase[t] = "idle"
    BY Zenon, <1>0, <1>n, <1>t, <1>u, <1>b, <1>p, <2>0 DEF HostTypes, HostInUse, HostBooks, HostPhases
  <2>c. methods[h] = {}
    BY Zenon, <1>0, <1>n, <1>t, <1>u, <1>b, <1>p, <2>0, <2>b DEF HostTypes, HostInUse, HostBooks, HostPhases
  <2> HIDE DEF h
  <2>1. HostTypes'
    BY Zenon, <1>n, <1>t, <2>0, <2>a DEF HostTypes
  <2>2. HostInUse'
    BY Zenon, <1>0, <1>n, <1>t, <1>u, <2>0, <2>a, <2>b, <2>c DEF HostTypes, HostInUse
  <2>3. HostBooks'
    BY Zenon, <1>0, <1>n, <1>t, <1>u, <1>b, <2>a DEF HostTypes, HostInUse, HostBooks
  <2>4. HostPhases'
    BY Zenon, <1>0, <1>n, <1>t, <1>u, <1>b, <1>p, <2>0, <2>a, <2>b DEF HostTypes, HostInUse, HostBooks, HostPhases
  <2> QED  BY <2>1, <2>2, <2>3, <2>4 DEF HostInv
<1> QED
  BY Zenon, <1>1, <1>2, <1>3, <1>4, <1>5, <1>6, <1>7, <1>8, <1>9, <1>10, <1>11, <1>12
     DEF Host!Next, Host!Advance

\* The invariant of the composition holds initially ...
LEMMA ServersInit ==
    ASSUME SceneInit
    PROVE  ServersInv
<1> USE ServersAssumption DEF SceneInit
<1>1. HttpInv
  BY ZenonT(60) DEF Http!Init, Http!RequestInit, Grpc!Init, HttpInv, RequestTypes, CallbacksInTime,
         HttpPending, HttpStop, Http!StopLeavesOnlyCancelled
<1>2. GrpcInv
  BY Zenon DEF Grpc!Init, Grpc!RequestInit, GrpcInv, RequestTypes, CallbacksInTime, GrpcPending,
         GrpcAnswers, GrpcStop, Grpc!StopLeavesOnlyCancelled, Grpc!UnaryAnswerHasResponse,
         Grpc!Active
<1>3. HostInv
  BY Zenon DEF Host!Init, Host!HostIds, Host!NoHost, HostInv, HostTypes, HostRecord, HostInUse,
         HostBooks, HostPhases
<1> QED
  BY <1>1, <1>2, <1>3 DEF ServersInv, Http!Init, Http!RequestInit

\* ... and a step of one scene leaves what the others have as it is.
LEMMA ServersStep ==
    ASSUME ServersInv, [SceneNext]_sceneVars
    PROVE  ServersInv'
<1>1. UNCHANGED hostVars => HostInv'
  BY DEF ServersInv, hostVars, HostInv, HostTypes, HostInUse, HostBooks, HostPhases
<1>2. UNCHANGED sceneVars => ServersInv'
  <2>1. UNCHANGED sceneVars /\ HttpInv => HttpInv'
    BY DEF sceneVars, sourceVars, httpVars, grpcVars, HttpInv, RequestTypes, CallbacksInTime,
           HttpPending, HttpStop, Http!StopLeavesOnlyCancelled, Http!Active, Http!Aborted
  <2>2. UNCHANGED sceneVars /\ GrpcInv => GrpcInv'
    BY DEF sceneVars, sourceVars, grpcVars, GrpcInv, RequestTypes, CallbacksInTime, GrpcPending,
           GrpcAnswers, GrpcStop, Grpc!StopLeavesOnlyCancelled, Grpc!UnaryAnswerHasResponse,
           Grpc!Active
  <2> QED  BY Zenon, <1>1, <2>1, <2>2 DEF ServersInv, sceneVars, sourceVars
<1>3. CASE scene = "http" /\ Http!Next /\ UNCHANGED <<scene, watched, grpcVars, hostVars>>
  BY ZenonT(60), <1>1, <1>3, HttpStep DEF ServersInv, grpcVars
<1>4. CASE scene = "grpc" /\ Grpc!Next /\ UNCHANGED <<scene, watched, httpVars, hostVars>>
  BY <1>1, <1>4, GrpcStep DEF ServersInv
<1>5. CASE scene = "host" /\ Host!Next /\ UNCHANGED <<scene, watched, sourceVars, httpVars, grpcVars>>
  BY <1>5, HostStep DEF ServersInv, sourceVars
<1> QED  BY Zenon, <1>2, <1>3, <1>4, <1>5 DEF SceneNext

\* The inductive invariant holds in every reachable state.
THEOREM ServersInvariance == SceneSpec => []ServersInv
<1>1. SceneInit => ServersInv
  BY ServersInit
<1>2. ServersInv /\ [SceneNext]_sceneVars => ServersInv'
  BY ServersStep
<1> QED  BY <1>1, <1>2, PTL DEF SceneSpec

-----------------------------------------------------------------------------

\* Nothing of a request runs on after its EndRequest, for any number of
\* requests and results, also with stream IDs that collide.
THEOREM RequestsEndFinally == SceneSpec => []EndIsFinal
<1>1. ASSUME ServersInv PROVE EndIsFinal
  <2>1. Http!CallbacksBeforeEnd
    BY Zenon, ServersAssumption, <1>1
       DEF ServersInv, HttpInv, GrpcInv, RequestTypes, CallbacksInTime, Http!CallbacksBeforeEnd, Http!Running
  <2>2. Grpc!WritesBeforeEnd
    BY Zenon, <1>1 DEF ServersInv, HttpInv, GrpcInv, GrpcPending, GrpcAnswers, Grpc!WritesBeforeEnd
  <2>3. scene = "http" => Http!StopLeavesOnlyCancelled
    BY ZenonT(60), <1>1 DEF ServersInv, HttpInv, HttpStop
  <2>4. scene = "grpc" =>
            Grpc!ReservedUntilEnded /\ Grpc!UnaryAnswerHasResponse /\ Grpc!StopLeavesOnlyCancelled
    BY <1>1 DEF ServersInv, GrpcInv, GrpcPending, GrpcAnswers, GrpcStop, Grpc!ReservedUntilEnded
  <2> QED  BY Zenon, <2>1, <2>2, <2>3, <2>4 DEF EndIsFinal
<1> QED  BY <1>1, ServersInvariance, PTL

\* Sources that share a listener leave each other unharmed, for any number of
\* them and whatever methods they bind.
THEOREM PeersStayUnharmed == SceneSpec => []PeersUnharmed
<1>1. ASSUME ServersInv PROVE PeersUnharmed
  <2>0. HostInv
    BY Zenon, <1>1 DEF ServersInv
  <2>1. Host!PeersUnharmed
    BY <2>0 DEF HostInv, HostTypes, HostInUse, HostBooks, HostPhases, Host!PeersUnharmed
  <2>2. Host!OneListener
    <3> DEFINE S == {h \in Host!HostIds : hosts[h].ready # "none"}
    <3>1. S \subseteq {grpcServers}
      BY <2>0 DEF HostInv, HostInUse, Host!NoHost
    <3>2. Host!Cardinality(S) = Cardinality(S)
      BY Zenon DEF Host!Cardinality, Cardinality
    <3>3. Cardinality(S) \in 0..1
      <4>1. IsFiniteSet({grpcServers}) /\ Cardinality({grpcServers}) = 1
        BY FS_Singleton
      <4> QED  BY <3>1, <4>1, FS_Subset, FS_CardinalityType
    <3> QED  BY <3>2, <3>3 DEF Host!OneListener
  <2>3. Host!NoListenerLeft
    BY <2>0 DEF HostInv, HostTypes, HostInUse, Host!NoListenerLeft, Host!HostIds
  <2> QED  BY <2>1, <2>2, <2>3 DEF PeersUnharmed
<1> QED  BY <1>1, ServersInvariance, PTL
=============================================================================
