----------------------------- MODULE SinkProofs -----------------------------
(***************************************************************************)
(* The sinks, for every set of values, slots, requests, deliveries and     *)
(* producers: sessions end in order, requests end clean and producers are  *)
(* owned.  Each component has an inductive invariant of its own; a step of *)
(* the composition is a step of one component and leaves the others alone. *)
(***************************************************************************)
EXTENDS MCSinks, TLAPS, FiniteSetTheorems

(***************************************************************************)
(* Sessions                                                                *)
(***************************************************************************)

SessionTypes ==
    /\ pending \in Slots \cup {0}
    /\ phase \in [Slots -> {"none", "beginning", "open", "flushing", "receiving", "handling",
                            "settling", "ending", "gone"}]
    /\ ready \in [Slots -> {"no", "session", "rejected"}]
    /\ closing \in [Slots -> BOOLEAN] /\ done \in [Slots -> BOOLEAN]
    /\ sending \in [Slots -> BOOLEAN] /\ ended \in [Slots -> BOOLEAN]
    /\ writes \in [Slots -> Nat]
    /\ receiving \in [Slots -> {"running", "handling", "ended", "failed"}]
    /\ value \in [Values -> {"new", "waiting", "consuming", "settled"}]
    /\ slotOf \in [Values -> Slots \cup {0}]
    /\ stop \in {"none", "draining", "closed", "timedOut"}
    /\ quiet \in BOOLEAN

\* A slot that closes admits no value, one that was not opened has no session,
\* and the sender is closed before the request stream ends.
SlotInOrder(s) ==
    /\ phase[s] \in {"none", "beginning"} => ready[s] = "no"
    /\ phase[s] \in {"open", "flushing", "receiving", "handling", "settling"} =>
           ready[s] = "session"
    /\ phase[s] \notin {"none", "beginning", "open"} => closing[s]
    /\ phase[s] \in {"none", "beginning", "ending", "gone"} =>
           receiving[s] \in {"ended", "failed"}
    /\ phase[s] = "flushing" => ~sending[s]
    /\ ended[s] => writes[s] = 0 /\ ~sending[s]
                   /\ phase[s] \notin {"none", "beginning", "open", "flushing"}

\* A call that waits or consumes has a slot, and consumes only while the slot
\* is open or still waits for its consumers.
CallInOrder(v) ==
    /\ value[v] \in {"waiting", "consuming"} => slotOf[v] \in Slots
    /\ value[v] = "consuming" =>
           phase[slotOf[v]] \in {"open", "flushing", "receiving", "settling"}

\* A slot that begins is waited for, so a stop() that finds no call running
\* tracks every session that is left until it is gone.
StopInOrder ==
    /\ \A s \in Slots : phase[s] = "beginning" =>
           \E v \in Values : value[v] = "waiting" /\ slotOf[v] = s
    /\ stop # "none" /\ quiet => \A v \in Values : value[v] \in {"new", "settled"}
    /\ stop = "draining" /\ quiet => \A s \in Slots :
           ~Session!Gone(s) => <<s, IF Session!Creating(s) THEN "create" ELSE "finish">> \in tasks
    /\ stop = "closed" /\ quiet => \A s \in Slots : Session!Gone(s)

\* The inductive invariant of a session.
SessionInv ==
    /\ SessionTypes
    /\ Session!OneSession
    /\ \A s \in Slots : SlotInOrder(s)
    /\ \A v \in Values : CallInOrder(v)
    /\ StopInOrder

(***************************************************************************)
(* Requests                                                                *)
(***************************************************************************)

\* The inductive invariant of the requests: an open response is being handled
\* or closed; consume() has recorded a failure if and only if a step before
\* endRequest() threw, and counts it at the very end; and a sink that closes
\* its client has cancelled what it did not wait for and accepts nothing.
RequestInv ==
    /\ sink \in {"started", "draining", "closing", "stopped"}
    /\ client \in BOOLEAN
    /\ stage \in [Requests -> {"new", "begin", "consume", "call", "handle", "close", "end",
                               "callback", "settled"}]
    /\ requestResponse \in [Requests -> {"none", "open", "closed"}]
    /\ failure \in [Requests -> BOOLEAN] /\ requestCancelled \in [Requests -> BOOLEAN]
    /\ threw \in [Requests -> SUBSET {"consume", "call", "handle", "close", "end"}]
    /\ counted \in [Requests -> {"no", "success", "error"}]
    /\ rejected \in [Requests -> BOOLEAN]
    /\ Request!FailureIsCounted
    /\ \A r \in Requests :
        /\ failure[r] <=> \E t \in threw[r] : t # "end"
        /\ "end" \in threw[r] \/ counted[r] # "no" => stage[r] \in {"callback", "settled"}
        /\ requestResponse[r] = "open" => protocol = "http" /\ stage[r] \in {"handle", "close"}
        /\ protocol = "http" /\ sink \in {"closing", "stopped"} /\ Request!Running(r) =>
               requestCancelled[r]
    /\ ~client => sink = "stopped"

(***************************************************************************)
(* The Kafka producers                                                     *)
(***************************************************************************)

Live(p) == state[p] \in {"connecting", "connected"}

\* The producers that something will disconnect: the current one, the
\* replacement of a recovery and the one it retires.
Owned == {producer, recovery} \cup (IF step = "retire" THEN {failing} ELSE {})

\* The recovery and the producers it holds.
RecoveryInOrder ==
    /\ step = "connect" => state[recovery] = "connecting" /\ failing # 0
    /\ step = "discard" => producer # recovery
    /\ step = "retire" => /\ producer \in {0, recovery} /\ failing # recovery
                          /\ producer = 0 => ~Live(recovery)

\* The inductive invariant of the Kafka sink.
ProducerInv ==
    /\ Kafka!TypeOK
    /\ accepting \in BOOLEAN /\ failing \in Producers \cup {0}
    /\ step \in {"connect", "retire", "discard"}
    /\ used \in [Sends -> Producers \cup {0}]
    /\ \A m \in Sends : (send[m] = "sending" => used[m] # 0) /\ (send[m] # "done" => calls[m] = 0)
    /\ Kafka!CurrentIsConnected
    /\ life \in {"new", "admin", "connecting"} => producer = 0 /\ recovery = 0
    /\ life \in {"new", "admin"} => \A p \in Producers : ~Live(p)
    /\ life = "connecting" => \A p, q \in Producers : Live(p) /\ Live(q) => p = q
    /\ life # "connecting" => \A p \in Producers : Live(p) => p \in Owned
    /\ recovery # 0 => RecoveryInOrder
    /\ recovery = 0 => failing = 0 /\ step = "connect"
    /\ life \in {"disconnecting", "stopped"} => producer = 0
    /\ life \in {"draining", "flushing", "disconnecting", "stopped"} => ~accepting
    /\ life = "flushing" => Kafka!Accepted = {}

-----------------------------------------------------------------------------

\* Every step of a request preserves its invariant ...
LEMMA RequestStep ==
    ASSUME RequestInv, Request!Next
    PROVE  RequestInv'
<1> USE DEF RequestInv, Request!Running, Request!Active, Request!To, Request!FailureIsCounted,
        Request!Fail, Request!Threw, Request!Succeed
<1>1. ASSUME NEW r \in Requests, Request!Consume(r) PROVE RequestInv'
  BY <1>1 DEF Request!Consume
<1>2. ASSUME NEW r \in Requests, Request!BeginFails(r) PROVE RequestInv'
  BY <1>2 DEF Request!BeginFails
<1>3. ASSUME NEW r \in Requests, Request!Begun(r) PROVE RequestInv'
  BY <1>3 DEF Request!Begun
<1>4. ASSUME NEW r \in Requests, Request!Consumed(r) PROVE RequestInv'
  <2>1. CASE Request!Fail(r)
    BY SMTT(30), <1>4, <2>1 DEF Request!Consumed, Request!Calls
  <2>2. CASE Request!Succeed
    BY SMTT(30), <1>4, <2>2 DEF Request!Consumed, Request!Calls
  <2> QED  BY <1>4, <2>1, <2>2 DEF Request!Consumed
<1>5. ASSUME NEW r \in Requests, Request!Answered(r) PROVE RequestInv'
  BY <1>5 DEF Request!Answered
<1>6. ASSUME NEW r \in Requests, Request!CallFails(r) PROVE RequestInv'
  BY <1>6 DEF Request!CallFails
<1>7. ASSUME NEW r \in Requests, Request!Handled(r) PROVE RequestInv'
  <2>1. CASE Request!Fail(r)
    BY SMTT(30), <1>7, <2>1 DEF Request!Handled, Request!AfterHandle
  <2>2. CASE Request!Succeed
    BY SMTT(30), <1>7, <2>2 DEF Request!Handled, Request!AfterHandle
  <2> QED  BY Zenon, <1>7, <2>1, <2>2 DEF Request!Handled
<1>8. ASSUME NEW r \in Requests, Request!Closed(r) PROVE RequestInv'
  <2>1. CASE Request!Fail(r)
    BY SMTT(30), <1>8, <2>1 DEF Request!Closed
  <2>2. CASE Request!Succeed
    BY SMTT(30), <1>8, <2>2 DEF Request!Closed
  <2> QED  BY <1>8, <2>1, <2>2 DEF Request!Closed
<1>9. ASSUME NEW r \in Requests, Request!Ended(r) PROVE RequestInv'
  <2>1. stage[r] = "end" /\ "end" \notin threw[r]
    BY <1>9 DEF Request!Ended
  <2>2. PICK throws \in BOOLEAN :
          /\ Request!Count(r, failure[r] \/ (throws /\ protocol # "http"))
          /\ rejected' = [rejected EXCEPT ![r] = throws /\ protocol = "http"]
          /\ IF throws THEN Request!Threw(r) ELSE UNCHANGED threw
    BY Zenon, <1>9 DEF Request!Ended
  <2> USE <2>1, <2>2 DEF Request!Count
  <2>3. CASE throws
    <3>1. threw' = [threw EXCEPT ![r] = threw[r] \cup {"end"}]
      BY <2>3
    <3>2. threw'[r] = threw[r] \cup {"end"}
      BY <3>1
    <3>3. /\ rejected'[r] = (protocol = "http")
          /\ counted'[r] = IF failure[r] \/ protocol # "http" THEN "error" ELSE "success"
      BY <2>3
    <3>4. counted'[r] = "error" <=> \E t \in threw'[r] : t = "end" => protocol # "http"
      <4>1. failure[r] <=> \E t \in threw[r] : t # "end"
        OBVIOUS
      <4> QED  BY ONLY <3>2, <3>3, <4>1
    <3>5. Request!FailureIsCounted'
      <4> SUFFICES ASSUME NEW q \in Requests, counted'[q] # "no"
                   PROVE  /\ counted'[q] = "error" <=>
                                 \E t \in threw'[q] : t = "end" => protocol # "http"
                          /\ rejected'[q] <=> protocol = "http" /\ "end" \in threw'[q]
        BY Zenon, <1>9 DEF Request!Ended
      <4>1. CASE q = r
        BY ONLY Zenon, <3>2, <3>3, <3>4, <4>1
      <4>2. CASE q # r
        <5>1. threw'[q] = threw[q] /\ counted'[q] = counted[q] /\ rejected'[q] = rejected[q]
          BY <3>1, <4>2
        <5> QED  BY Zenon, <5>1
      <4> QED  BY <4>1, <4>2
    <3> QED  BY SMTT(30), <1>9, <3>1, <3>2, <3>5 DEF Request!Ended
  <2>4. CASE ~throws
    BY SMTT(30), <1>9, <2>4 DEF Request!Ended
  <2> QED  BY <2>3, <2>4
<1>10. ASSUME NEW r \in Requests, Request!CalledBack(r) PROVE RequestInv'
  BY <1>10 DEF Request!CalledBack
<1>11. ASSUME NEW r \in Requests, Request!Cancel(r) PROVE RequestInv'
  BY <1>11 DEF Request!Cancel
<1>12. ASSUME Request!Stop PROVE RequestInv'
  BY <1>12 DEF Request!Stop
<1>13. ASSUME Request!Drained PROVE RequestInv'
  BY <1>13 DEF Request!Drained
<1>14. ASSUME Request!CloseClient PROVE RequestInv'
  BY Zenon, <1>14 DEF Request!CloseClient
<1> QED
  BY ZenonT(60), <1>1, <1>2, <1>3, <1>4, <1>5, <1>6, <1>7, <1>8, <1>9, <1>10, <1>11, <1>12, <1>13, <1>14
     DEF Request!Next, Request!Step

\* Every step of the Kafka sink preserves its invariant ...
LEMMA ProducerStep ==
    ASSUME ProducerInv, Kafka!Next
    PROVE  ProducerInv'
<1> USE SinksAssumption
    DEF ProducerInv, Live, Owned, RecoveryInOrder, Kafka!TypeOK, Kafka!CurrentIsConnected,
        Kafka!Accepted, Kafka!sinkVars, Kafka!recoveryVars, Kafka!sendVars
<1>1. ASSUME Kafka!Start PROVE ProducerInv'
  BY <1>1 DEF Kafka!Start
<1>2. ASSUME Kafka!AdminDone PROVE ProducerInv'
  BY <1>2 DEF Kafka!AdminDone, Kafka!Fresh
<1>3. ASSUME Kafka!StartDone PROVE ProducerInv'
  BY <1>3 DEF Kafka!StartDone
<1>4. ASSUME Kafka!Stop PROVE ProducerInv'
  BY <1>4 DEF Kafka!Stop
<1>5. ASSUME Kafka!StopAdmission PROVE ProducerInv'
  BY Zenon, <1>5 DEF Kafka!StopAdmission
<1>6. ASSUME Kafka!Drained PROVE ProducerInv'
  BY <1>6 DEF Kafka!Drained
<1>7. ASSUME Kafka!DrainTimesOut \/ Kafka!Flushed PROVE ProducerInv'
  BY <1>7 DEF Kafka!DrainTimesOut, Kafka!Flushed, Kafka!Disconnect
<1>8. ASSUME Kafka!Stopped PROVE ProducerInv'
  BY <1>8 DEF Kafka!Stopped
<1>9. ASSUME NEW m \in Sends, Kafka!Send(m) PROVE ProducerInv'
  BY <1>9 DEF Kafka!Send
<1>10. ASSUME NEW m \in Sends, Kafka!Partitioned(m) PROVE ProducerInv'
  BY <1>10 DEF Kafka!Partitioned
<1>11. ASSUME NEW m \in Sends, Kafka!Delivered(m) PROVE ProducerInv'
  BY <1>11 DEF Kafka!Delivered
<1>12. ASSUME NEW m \in Sends, Kafka!DeliveryFails(m) PROVE ProducerInv'
  BY <1>12 DEF Kafka!DeliveryFails, Kafka!Fresh
<1>13. ASSUME NEW m \in Sends, Kafka!Callback(m) PROVE ProducerInv'
  BY <1>13 DEF Kafka!Callback
<1>14. ASSUME NEW m \in Sends, Kafka!Abort(m) PROVE ProducerInv'
  BY <1>14 DEF Kafka!Abort
<1>15. ASSUME Kafka!ReplacementConnected PROVE ProducerInv'
  BY <1>15 DEF Kafka!ReplacementConnected
<1>16. ASSUME Kafka!ReplacementFails PROVE ProducerInv'
  BY <1>16 DEF Kafka!ReplacementFails, Kafka!Recovered
<1>17. ASSUME Kafka!FailedDisconnected PROVE ProducerInv'
  BY ZenonT(60), <1>17 DEF Kafka!FailedDisconnected, Kafka!Recovered
<1> QED
  BY ZenonT(60), <1>1, <1>2, <1>3, <1>4, <1>5, <1>6, <1>7, <1>8, <1>9, <1>10, <1>11, <1>12, <1>13, <1>14,
     <1>15, <1>16, <1>17
     DEF Kafka!Next, Kafka!Deliver, Kafka!Recover

\* Every step of a session preserves its invariant ...
LEMMA SessionStep ==
    ASSUME SessionInv, Session!Next
    PROVE  SessionInv'
<1> USE SinksAssumption
    DEF SessionTypes, SlotInOrder, CallInOrder, StopInOrder, Session!OneSession,
        Session!Gone, Session!slotVars, Session!stopVars, Session!Creating
<1>a. SessionTypes
  BY DEF SessionInv
<1>b. Session!OneSession
  BY DEF SessionInv
<1>c. \A s \in Slots : SlotInOrder(s)
  BY DEF SessionInv
<1>d. \A v \in Values : CallInOrder(v)
  BY Zenon DEF SessionInv
<1>e. StopInOrder
  BY DEF SessionInv
<1>1. ASSUME NEW v \in Values, Session!Consume(v) PROVE SessionInv'
  <2> USE <1>1 DEF Session!Consume
  <2>1. SessionTypes'
    BY <1>a, <1>d
  <2>2. Session!OneSession'
    BY <1>a, <1>b, <1>c
  <2>3. \A r \in Slots : SlotInOrder(r)'
    BY <1>a, <1>c, <1>d
  <2>4. ASSUME NEW u \in Values PROVE CallInOrder(u)'
    <3>1. CASE u = v
      BY <1>a, <3>1
    <3>2. CASE u # v
      <4>1. value'[u] = value[u] /\ slotOf'[u] = slotOf[u] /\ CallInOrder(u)
        BY <1>a, <1>d, <3>2
      <4>2. \A r \in Slots : phase[r] # "none" => phase'[r] = phase[r]
        BY <1>a
      <4> QED  BY ZenonT(60), <4>1, <4>2
    <3> QED  BY <3>1, <3>2
  <2>5. StopInOrder'
    BY SMTT(30), <1>a, <1>b, <1>c, <1>d, <1>e
  <2> QED  BY <2>1, <2>2, <2>3, <2>4, <2>5 DEF SessionInv
<1>2. ASSUME NEW v \in Values, Session!Resume(v) PROVE SessionInv'
  <2> USE <1>2 DEF Session!Resume
  <2>1. SessionTypes'
    BY <1>a, <1>d
  <2>2. Session!OneSession'
    BY <1>a, <1>b, <1>c
  <2>3. \A r \in Slots : SlotInOrder(r)'
    BY <1>a, <1>c, <1>d
  <2>4. ASSUME NEW u \in Values PROVE CallInOrder(u)'
    BY ZenonT(60), <1>a, <1>c, <1>d
  <2>5. StopInOrder'
    BY <1>a, <1>b, <1>c, <1>d, <1>e
  <2> QED  BY <2>1, <2>2, <2>3, <2>4, <2>5 DEF SessionInv
<1>3. ASSUME NEW v \in Values, Session!Send(v) PROVE SessionInv'
  <2> USE <1>3 DEF Session!Send
  <2>1. SessionTypes'
    <3>1. slotOf[v] \in Slots
      BY <1>d
    <3>2. writes \in [Slots -> Nat]
      BY <1>a
    <3>3. writes' = [writes EXCEPT ![slotOf[v]] = writes[slotOf[v]] + 1]
      OBVIOUS
    <3>4. writes' \in [Slots -> Nat]
      BY ONLY <3>1, <3>2, <3>3
    <3> QED  BY <1>a, <3>4
  <2>2. Session!OneSession'
    BY <1>a, <1>b, <1>c
  <2>3. \A r \in Slots : SlotInOrder(r)'
    BY <1>a, <1>c, <1>d
  <2>4. ASSUME NEW u \in Values PROVE CallInOrder(u)'
    BY <1>a, <1>c, <1>d
  <2>5. StopInOrder'
    BY <1>a, <1>b, <1>c, <1>d, <1>e
  <2> QED  BY <2>1, <2>2, <2>3, <2>4, <2>5 DEF SessionInv
<1>4. ASSUME NEW v \in Values, Session!Consumed(v) PROVE SessionInv'
  BY <1>4 DEF SessionInv, Session!Consumed
<1>5. ASSUME NEW s \in Slots, Session!Done(s) PROVE SessionInv'
  BY <1>5 DEF SessionInv, Session!Done
<1>6. ASSUME NEW s \in Slots, Session!Cancel(s) PROVE SessionInv'
  BY <1>6 DEF SessionInv, Session!Cancel
<1>7. ASSUME NEW s \in Slots, Session!WriteSettles(s) PROVE SessionInv'
  BY <1>7 DEF SessionInv, Session!WriteSettles
<1>8. ASSUME NEW s \in Slots, Session!Respond(s) PROVE SessionInv'
  BY <1>8 DEF SessionInv, Session!Respond
<1>9. ASSUME NEW s \in Slots, Session!Receive(s) PROVE SessionInv'
  BY <1>9 DEF SessionInv, Session!Receive
<1>10. ASSUME NEW s \in Slots, Session!BeginFails(s) PROVE SessionInv'
  BY <1>10 DEF SessionInv, Session!BeginFails
<1>11. ASSUME NEW s \in Slots, Session!Begun(s) PROVE SessionInv'
  <2> USE <1>11 DEF Session!Begun
  <2>1. SessionTypes'
    BY ZenonT(60), <1>a, <1>d
  <2>2. Session!OneSession'
    BY <1>a, <1>b, <1>c
  <2>3. \A r \in Slots : SlotInOrder(r)'
    BY <1>a, <1>c, <1>d
  <2>4. ASSUME NEW u \in Values PROVE CallInOrder(u)'
    BY ZenonT(60), <1>a, <1>c, <1>d
  <2>5. StopInOrder'
    BY <1>a, <1>b, <1>c, <1>d, <1>e
  <2> QED  BY <2>1, <2>2, <2>3, <2>4, <2>5 DEF SessionInv
<1>12. ASSUME NEW s \in Slots, Session!Finishing(s) PROVE SessionInv'
  BY <1>12 DEF SessionInv, Session!Finishing
<1>13. ASSUME NEW s \in Slots, Session!Broken(s) PROVE SessionInv'
  BY SMTT(30), <1>13 DEF SessionInv, Session!Broken, Session!Settle
<1>14. ASSUME NEW s \in Slots, Session!Flushed(s) PROVE SessionInv'
  <2> USE <1>14 DEF Session!Flushed, Session!Settle
  <2>1. SessionTypes'
    BY ZenonT(60), <1>a
  <2>2. Session!OneSession'
    BY <1>a, <1>b, <1>c
  <2>3. \A r \in Slots : SlotInOrder(r)'
    BY <1>a, <1>c, <1>d
  <2>4. ASSUME NEW u \in Values PROVE CallInOrder(u)'
    <3>1. phase'[s] \in {"receiving", "settling"}
      BY <1>a
    <3>2. \A r \in Slots : r # s => phase'[r] = phase[r]
      BY <1>a
    <3>3. value' = value /\ slotOf' = slotOf /\ CallInOrder(u)
      BY <1>d
    <3> QED  BY ONLY <3>1, <3>2, <3>3 DEF CallInOrder
  <2>5. StopInOrder'
    <3>1. ASSUME NEW r \in Slots
          PROVE  /\ Session!Gone(r)' <=> Session!Gone(r)
                 /\ phase'[r] = "beginning" <=> phase[r] = "beginning"
                 /\ Session!Creating(r)' <=> Session!Creating(r)
      BY <1>a, <1>c
    <3>2. UNCHANGED <<value, slotOf, stop, quiet, tasks>>
      OBVIOUS
    <3> QED  BY ONLY <1>e, <3>1, <3>2 DEF StopInOrder
  <2> QED  BY <2>1, <2>2, <2>3, <2>4, <2>5 DEF SessionInv
<1>15. ASSUME NEW s \in Slots, Session!Responded(s) PROVE SessionInv'
  <2> USE <1>15 DEF Session!Responded, Session!Settle, Session!Consumers
  <2>1. SessionTypes'
    BY ZenonT(60), <1>a
  <2>2. Session!OneSession'
    BY <1>a, <1>b, <1>c
  <2>3. \A r \in Slots : SlotInOrder(r)'
    BY SMTT(30), <1>a, <1>c, <1>d
  <2>4. ASSUME NEW u \in Values PROVE CallInOrder(u)'
    <3>1. value[u] = "consuming" => slotOf[u] # s
      BY Zenon
    <3>2. \A r \in Slots : r # s => phase'[r] = phase[r]
      BY <1>a
    <3>3. value' = value /\ slotOf' = slotOf /\ CallInOrder(u)
      BY <1>d
    <3> QED  BY ONLY <3>1, <3>2, <3>3 DEF CallInOrder
  <2>5. StopInOrder'
    <3>1. ASSUME NEW r \in Slots
          PROVE  /\ Session!Gone(r)' <=> Session!Gone(r)
                 /\ phase'[r] = "beginning" <=> phase[r] = "beginning"
                 /\ Session!Creating(r)' <=> Session!Creating(r)
      BY <1>a, <1>c
    <3>2. UNCHANGED <<value, slotOf, stop, quiet, tasks>>
      OBVIOUS
    <3> QED  BY ONLY <1>e, <3>1, <3>2 DEF StopInOrder
  <2> QED  BY <2>1, <2>2, <2>3, <2>4, <2>5 DEF SessionInv
<1>16. ASSUME NEW s \in Slots, Session!Handled(s) PROVE SessionInv'
  BY <1>16 DEF SessionInv, Session!Handled, Session!Settle
<1>17. ASSUME NEW s \in Slots, Session!Received(s) PROVE SessionInv'
  BY <1>17 DEF SessionInv, Session!Received, Session!Settle
<1>18. ASSUME NEW s \in Slots, Session!Settled(s) PROVE SessionInv'
  BY <1>18 DEF SessionInv, Session!Settled, Session!Consumers
<1>19. ASSUME NEW s \in Slots, Session!Ended(s) PROVE SessionInv'
  BY <1>19 DEF SessionInv, Session!Ended
<1>20. ASSUME Session!Stop PROVE SessionInv'
  <2> USE <1>20 DEF Session!Stop
  <2>1. StopInOrder'
    <3>1. \A s \in Slots : ~Session!Gone(s) =>
              <<s, IF Session!Creating(s) THEN "create" ELSE "finish">> \in Session!Tracked
      BY SMTT(30), <1>a DEF Session!Tracked
    <3> QED  BY <1>e, <3>1
  <2> QED  BY <2>1 DEF SessionInv
<1>21. ASSUME Session!Stopped PROVE SessionInv'
  <2> USE <1>21 DEF Session!Stopped, Session!Tracked
  <2>1. SessionTypes'
    BY <1>a, <1>d
  <2>2. Session!OneSession'
    BY <1>a, <1>b, <1>c
  <2>3. \A r \in Slots : SlotInOrder(r)'
    BY <1>a, <1>c, <1>d
  <2>4. ASSUME NEW u \in Values PROVE CallInOrder(u)'
    BY <1>d
  <2>5. StopInOrder'
    <3>1. quiet => Session!Tracked \subseteq tasks
      BY Zenon, <1>e
    <3>2. quiet => \A s \in Slots : Session!Gone(s)
      BY ZenonT(60), <3>1
    <3> QED  BY <1>e, <3>2
  <2> QED  BY <2>1, <2>2, <2>3, <2>4, <2>5 DEF SessionInv
<1>22. ASSUME Session!StopTimesOut PROVE SessionInv'
  BY <1>22 DEF SessionInv, Session!StopTimesOut
<1> QED
  BY <1>1, <1>2, <1>3, <1>4, <1>5, <1>6, <1>7, <1>8, <1>9, <1>10, <1>11, <1>12, <1>13, <1>14,
     <1>15, <1>16, <1>17, <1>18, <1>19, <1>20, <1>21, <1>22
     DEF Session!Next, Session!Finish

-----------------------------------------------------------------------------

\* ... which holds initially ...
LEMMA SinksInit ==
    ASSUME SceneInit
    PROVE  SessionInv /\ RequestInv /\ ProducerInv
<1>1. SessionInv
  BY SinksAssumption
     DEF SceneInit, Session!Init, Session!All, SessionInv, SessionTypes, SlotInOrder, CallInOrder,
         StopInOrder, Session!OneSession, Session!Gone, Session!Creating
<1>2. RequestInv
  BY DEF SceneInit, Request!Init, RequestInv, Request!FailureIsCounted
<1>3. ProducerInv
  BY SinksAssumption
     DEF SceneInit, Kafka!Init, ProducerInv, Live, Kafka!TypeOK, Kafka!CurrentIsConnected
<1> QED  BY <1>1, <1>2, <1>3

\* ... and is untouched by the steps of the other components.
LEMMA SinksStep ==
    ASSUME SessionInv, RequestInv, ProducerInv, [SceneNext]_sceneVars
    PROVE  SessionInv' /\ RequestInv' /\ ProducerInv'
<1>1. UNCHANGED sessionVars => SessionInv'
  BY DEF sessionVars, SessionInv, SessionTypes, SlotInOrder, CallInOrder, StopInOrder,
         Session!OneSession, Session!Gone, Session!Creating
<1>2. UNCHANGED requestVars => RequestInv'
  BY DEF requestVars, RequestInv, Request!Running, Request!Active, Request!FailureIsCounted
<1>3. UNCHANGED kafkaVars => ProducerInv'
  BY DEF kafkaVars, ProducerInv, Live, Owned, RecoveryInOrder, Kafka!TypeOK,
         Kafka!CurrentIsConnected, Kafka!Accepted
<1>4. SessionInv'
  BY <1>1, SessionStep DEF SceneNext, sceneVars
<1>5. RequestInv'
  BY <1>2, RequestStep DEF SceneNext, sceneVars
<1>6. ProducerInv'
  BY <1>3, ProducerStep DEF SceneNext, sceneVars
<1> QED  BY Zenon, <1>4, <1>5, <1>6

\* The three inductive invariants hold in every reachable state.
THEOREM SinksInvariance == SceneSpec => [](SessionInv /\ RequestInv /\ ProducerInv)
<1>1. SceneInit => SessionInv /\ RequestInv /\ ProducerInv
  BY SinksInit
<1>2. /\ SessionInv /\ RequestInv /\ ProducerInv
      /\ [SceneNext]_sceneVars
      => (SessionInv /\ RequestInv /\ ProducerInv)'
  BY SinksStep
<1> QED  BY <1>1, <1>2, PTL DEF SceneSpec

-----------------------------------------------------------------------------

\* Sessions of the streaming consumers end in order, whatever values arrive,
\* handlers, transport and cancellation do, and stop() interrupts.
THEOREM SessionsInOrder == SceneSpec => []SessionEndsInOrder
<1>1. ASSUME SessionInv PROVE SessionEndsInOrder
  <2>1. Session!OneSession
    BY <1>1 DEF SessionInv
  <2>2. Session!EndAfterWrites
    BY SMTT(30), <1>1 DEF SessionInv, SlotInOrder, Session!EndAfterWrites
  <2>3. Session!ResponseAfterValues
    BY <1>1 DEF SessionInv, CallInOrder, Session!ResponseAfterValues, Session!Consumers
  <2>4. Session!EndRequestIsLast
    BY ZenonT(60), <1>1 DEF SessionInv, SlotInOrder, CallInOrder, Session!EndRequestIsLast, Session!Consumers
  <2>5. Session!StopDrainsSessions
    BY Zenon, <1>1 DEF SessionInv, StopInOrder, Session!StopDrainsSessions
  <2> QED  BY <2>1, <2>2, <2>3, <2>4, <2>5 DEF SessionEndsInOrder
<1> QED  BY <1>1, SinksInvariance, PTL

\* Requests of every protocol end clean, whichever of their steps fails and
\* whenever the HTTP sink stops.
THEOREM RequestsClean == SceneSpec => []RequestEndsClean
<1>1. RequestInv => RequestEndsClean
  BY DEF RequestInv, RequestEndsClean, Request!ResponseClosedBeforeEnd,
         Request!ClientOutlivesRequests
<1> QED  BY <1>1, SinksInvariance, PTL

\* A set within two elements, or within one, has no more members than that.
LEMMA WithinPair ==
    ASSUME NEW S, NEW a, NEW b, S \subseteq {a, b}
    PROVE  Cardinality(S) \in 0..2 /\ (a = b => Cardinality(S) \in 0..1)
<1>1. IsFiniteSet({a}) /\ Cardinality({a}) = 1
  BY FS_Singleton
<1>2. {a, b} = {a} \cup {b}
  OBVIOUS
<1>3. /\ IsFiniteSet({a, b})
      /\ Cardinality({a, b}) = IF b \in {a} THEN Cardinality({a}) ELSE Cardinality({a}) + 1
  BY <1>1, <1>2, FS_AddElement
<1>4. Cardinality(S) \in Nat /\ Cardinality(S) <= Cardinality({a, b})
  BY <1>3, FS_Subset, FS_CardinalityType
<1> QED  BY <1>1, <1>3, <1>4

\* The Kafka sink owns its producers: recoveries that race with failures and
\* with stop() leave one connected, none after stop(), and flush the last.
THEOREM ProducersAreOwned == SceneSpec => []ProducersOwned
<1> USE SinksAssumption DEF ProducerInv
<1>1. ProducerInv => Kafka!OneRecovery
  <2> SUFFICES ASSUME ProducerInv PROVE Kafka!OneRecovery
    OBVIOUS
  <2> DEFINE S == {p \in Producers : state[p] \in {"connecting", "connected"}}
  <2>1. (\A p, q \in S : p = q) \/ (recovery # 0 /\ \E a, b : S \subseteq {a, b})
    <3>1. CASE life = "connecting"
      BY <3>1 DEF Live
    <3>2. CASE life # "connecting" /\ recovery = 0
      BY <3>2 DEF Live, Owned
    <3>3. CASE life # "connecting" /\ recovery # 0
      <4>1. S \subseteq {producer, recovery} \/ S \subseteq {failing, recovery}
        BY Zenon, <3>3 DEF Live, Owned, RecoveryInOrder
      <4> QED  BY <3>3, <4>1
    <3> QED  BY <3>1, <3>2, <3>3
  <2>0. Kafka!Cardinality(S) = Cardinality(S)
    BY Zenon DEF Kafka!Cardinality, Cardinality
  <2>2. Kafka!OneRecovery <=> Cardinality(S) <= IF recovery # 0 THEN 2 ELSE 1
    BY <2>0 DEF Kafka!OneRecovery
  <2> HIDE DEF S, ProducerInv
  <2>3. CASE \A p, q \in S : p = q
    <3>1. PICK a : S \subseteq {a, a}
      BY <2>3
    <3>2. Cardinality(S) \in 0..1
      BY <3>1, WithinPair
    <3> QED  BY <2>2, <3>2
  <2>4. CASE recovery # 0 /\ \E a, b : S \subseteq {a, b}
    <3>1. Cardinality(S) \in 0..2
      BY <2>4, WithinPair
    <3> QED  BY <2>2, <2>4, <3>1
  <2> QED  BY <2>1, <2>3, <2>4
<1>2. ProducerInv => ProducersOwned
  BY <1>1 DEF ProducersOwned, Kafka!NoProducerLeak, Kafka!FlushAfterCallbacks, Live, Owned,
              Kafka!TypeOK
<1> QED  BY <1>2, SinksInvariance, PTL
=============================================================================
