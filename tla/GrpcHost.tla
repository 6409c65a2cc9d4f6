------------------------------ MODULE GrpcHost ------------------------------
(***************************************************************************)
(* GrpcServerHost of src/datasource/grpc/grpc-js.ts: the listener that all *)
(* gRPC data sources of a service share.  The first to start opens it, the *)
(* last to leave closes it; sources start, fail, stop and start again      *)
(* independently of each other.                                            *)
(***************************************************************************)
EXTENDS Integers, FiniteSets

CONSTANTS
    Sources,
    Methods,   \* Methods[s]: the RPCs bound to source s
    MaxHosts   \* bound on the hosts alive at one time

VARIABLES
    grpcServers,  \* the environment's current host, 0 for none
    hosts,        \* ready promise, sources, closing flag and listening socket
    methods,      \* handlers registered with each host's server, and whose
    phase,        \* where start() or stop() of a source is
    on,           \* #host, kept by a failed start() until it is done
    stopping,     \* sources whose stop() was called
    calls         \* sources with a tracked call

vars == <<grpcServers, hosts, methods, phase, on, stopping, calls>>

HostIds == 1 .. MaxHosts
NoHost == [ready |-> "none", sources |-> {}, closing |-> FALSE]

Init ==
    /\ grpcServers = 0
    /\ hosts = [h \in HostIds |-> NoHost]
    /\ methods = [h \in HostIds |-> {}]
    /\ phase = [s \in Sources |-> "idle"]
    /\ on = [s \in Sources |-> 0]
    /\ stopping = {}
    /\ calls = {}

Own(s) == {<<s, m>> : m \in Methods[s]}
Duplicate(s, h) == \E e \in methods[h] : e[1] # s /\ e[2] \in Methods[s]
Pending(s) ==   \* a promise reaction of this source is due
    \/ phase[s] = "starting" /\ hosts[on[s]].ready # "binding"
    \/ phase[s] = "failing" /\ hosts[on[s]].ready # "binding"

\* Reactions to a settled bind run before later turns call start() or stop(),
\* and before a stop() that had to wait for a start() goes on.
Quiet == \A s \in Sources : ~Pending(s)

\* startListening() up to its await: find or open the host, register the
\* handlers and admit calls; a method that is taken makes it fail.  The runtime
\* does not start a source while it stops another.
Start(s) ==
    /\ phase[s] = "idle" /\ stopping = {} /\ Quiet
    /\ \E h \in HostIds :
        /\ IF grpcServers = 0 THEN hosts[h] = NoHost ELSE h = grpcServers
        /\ ~hosts[h].closing
        /\ grpcServers' = h
        /\ on' = [on EXCEPT ![s] = h]
        /\ LET binding == IF grpcServers = 0 THEN [hosts EXCEPT ![h].ready = "binding"] ELSE hosts
           IN IF Duplicate(s, h)
              THEN /\ phase' = [phase EXCEPT ![s] = "failing"]
                   /\ hosts' = binding /\ UNCHANGED methods
              ELSE /\ phase' = [phase EXCEPT ![s] = "starting"]
                   /\ hosts' = [binding EXCEPT ![h].sources = @ \cup {s}]
                   /\ methods' = [methods EXCEPT ![h] = @ \cup Own(s)]
    /\ UNCHANGED <<stopping, calls>>

\* The server's bindAsync() calls back.
Bound(h) ==
    /\ hosts[h].ready = "binding"
    /\ \E result \in {"bound", "failed"} : hosts' = [hosts EXCEPT ![h].ready = result]
    /\ UNCHANGED <<grpcServers, methods, phase, on, stopping, calls>>

StartReady(s) ==
    /\ phase[s] = "starting" /\ hosts[on[s]].ready = "bound"
    /\ phase' = [phase EXCEPT ![s] = "started"]
    /\ UNCHANGED <<grpcServers, hosts, methods, on, stopping, calls>>

\* The bind failed: take back the handlers and leave the host.
StartFails(s) ==
    /\ phase[s] = "starting" /\ hosts[on[s]].ready = "failed"
    /\ phase' = [phase EXCEPT ![s] = "failing"]
    /\ methods' = [methods EXCEPT ![on[s]] = @ \ Own(s)]
    /\ hosts' = [hosts EXCEPT ![on[s]].sources = @ \ {s}]
    /\ UNCHANGED <<grpcServers, on, stopping, calls>>

\* A failed start() ends once the bind has settled; the last to leave shuts
\* the server down.
StartFailed(s) ==
    /\ phase[s] = "failing" /\ hosts[on[s]].ready # "binding"
    /\ phase' = [phase EXCEPT ![s] = "idle"]
    /\ on' = [on EXCEPT ![s] = 0]
    /\ IF hosts[on[s]].sources = {}
       THEN /\ hosts' = [hosts EXCEPT ![on[s]] = NoHost]
            /\ grpcServers' = 0
       ELSE UNCHANGED <<hosts, grpcServers>>
    /\ UNCHANGED <<methods, stopping, calls>>

\* trackHandler(): a call reaches its source.
Call(s) ==
    /\ phase[s] = "started" /\ s \notin calls
    /\ Own(s) \subseteq methods[on[s]]
    /\ calls' = calls \cup {s}
    /\ UNCHANGED <<grpcServers, hosts, methods, phase, on, stopping>>

CallEnds(s) ==
    /\ calls' = calls \ {s}
    /\ s \in calls
    /\ UNCHANGED <<grpcServers, hosts, methods, phase, on, stopping>>

RequestStop(s) ==
    /\ s \notin stopping /\ Quiet
    /\ stopping' = stopping \cup {s}
    /\ UNCHANGED <<grpcServers, hosts, methods, phase, on, calls>>

\* stop() waits for a pending start(); without a host there is nothing to do.
StopIdle(s) ==
    /\ s \in stopping /\ phase[s] = "idle"
    /\ stopping' = stopping \ {s}
    /\ UNCHANGED <<grpcServers, hosts, methods, phase, on, calls>>

\* stopListening() closes admission and takes back this source's handlers.
Stop(s) ==
    /\ s \in stopping /\ phase[s] = "started" /\ Quiet
    /\ phase' = [phase EXCEPT ![s] = "draining"]
    /\ methods' = [methods EXCEPT ![on[s]] = @ \ Own(s)]
    /\ UNCHANGED <<grpcServers, hosts, on, stopping, calls>>

\* Mutant: the first source to stop closes the listener.
LeaveFirst(s) ==
    /\ phase[s] = "draining"
    /\ calls' = calls \ {s}
    /\ hosts' = [hosts EXCEPT ![on[s]].sources = @ \ {s}, ![on[s]].closing = TRUE]
    /\ phase' = [phase EXCEPT ![s] = "closing"]
    /\ UNCHANGED <<grpcServers, methods, on, stopping>>

\* Its calls are done, or the deadline has passed and they are cancelled: the
\* source leaves, and the last one starts to close the listener.
Leave(s) ==
    /\ phase[s] = "draining"
    /\ calls' = calls \ {s}
    /\ LET rest == hosts[on[s]].sources \ {s}
       IN IF rest # {}
          THEN /\ hosts' = [hosts EXCEPT ![on[s]].sources = rest]
               /\ phase' = [phase EXCEPT ![s] = "idle"]
               /\ on' = [on EXCEPT ![s] = 0]
               /\ stopping' = stopping \ {s}
          ELSE /\ hosts' = [hosts EXCEPT ![on[s]].sources = {}, ![on[s]].closing = TRUE]
               /\ phase' = [phase EXCEPT ![s] = "closing"]
               /\ UNCHANGED <<on, stopping>>
    /\ UNCHANGED <<grpcServers, methods>>

\* The server is shut down, in time or by force.
Closed(s) ==
    /\ phase[s] = "closing"
    /\ hosts' = [hosts EXCEPT ![on[s]] = NoHost]
    /\ grpcServers' = 0
    /\ phase' = [phase EXCEPT ![s] = "idle"]
    /\ on' = [on EXCEPT ![s] = 0]
    /\ stopping' = stopping \ {s}
    /\ UNCHANGED <<methods, calls>>

Advance(s) ==
    \/ StartReady(s) \/ StartFails(s) \/ StartFailed(s)
    \/ StopIdle(s) \/ Stop(s) \/ Leave(s) \/ Closed(s)

Next ==
    \/ \E h \in HostIds : Bound(h)
    \/ \E s \in Sources :
        Start(s) \/ Call(s) \/ CallEnds(s) \/ RequestStop(s) \/ Advance(s)

\* bindAsync() and tryShutdown() call back and reactions run; a drain ends by
\* its deadline at the latest.
Fairness ==
    /\ \A h \in HostIds : WF_vars(Bound(h))
    /\ \A s \in Sources : WF_vars(Advance(s))

Spec == Init /\ [][Next]_vars /\ Fairness

(***************************************************************************)
(* Properties                                                              *)
(***************************************************************************)

TypeOK ==
    /\ grpcServers \in HostIds \cup {0}
    /\ hosts \in [HostIds -> [ready : {"none", "binding", "bound", "failed"},
                              sources : SUBSET Sources, closing : BOOLEAN]]
    /\ \A h \in HostIds : methods[h] \subseteq UNION {Own(s) : s \in Sources}
    /\ phase \in [Sources -> {"idle", "starting", "failing", "started", "draining", "closing"}]
    /\ on \in [Sources -> HostIds \cup {0}]
    /\ stopping \subseteq Sources /\ calls \subseteq Sources

\* A source that has started keeps its listener and its handlers, whatever the
\* sources it shares them with do: fail to start, register a method twice,
\* stop, or stop last.
PeersUnharmed ==
    \A s \in Sources : phase[s] = "started" =>
        /\ on[s] = grpcServers /\ hosts[on[s]].ready = "bound"
        /\ ~hosts[on[s]].closing
        /\ Own(s) \subseteq methods[on[s]]

\* The service port is opened by one server at a time: the next host is made
\* only when the previous server is down.
OneListener == Cardinality({h \in HostIds : hosts[h].ready # "none"}) <= 1

\* No listener outlives its users: when no source is running, starting or
\* stopping, no server is left and the next start opens a fresh one.
NoListenerLeft ==
    (\A s \in Sources : phase[s] = "idle") =>
        grpcServers = 0 /\ (\A h \in HostIds : hosts[h] = NoHost /\ methods[h] = {})
=============================================================================
