---------------------- MODULE StandaloneSession_proofs ----------------------
(***************************************************************************)
(* Machine-checked proofs about StandaloneSession, for any set of sessions *)
(* and tasks, any channel capacity and any bound on the traffic.           *)
(***************************************************************************)
EXTENDS StandaloneSession, TLAPS

-----------------------------------------------------------------------------
(***************************************************************************)
(* Channels.                                                               *)
(***************************************************************************)

\* A send into a channel leaves a channel of the same values, whether or not it
\* overwrites the oldest one.
LEMMA SendToType ==
    ASSUME NEW S, NEW ch \in Channel(S), NEW m \in S
    PROVE  /\ SendTo(ch, m) \in Channel(S)
           /\ Overwritten(ch) \subseteq S
  <1>. ch.q \in Seq(S) /\ ch = [q |-> ch.q, lagged |-> ch.lagged]
    BY DEF Channel
  <1>1. CASE IsFull(ch)
    <2>1. ch.q # <<>>
      BY <1>1, CapacityAssumption DEF IsFull
    <2>2. Tail(ch.q) \in Seq(S) /\ Head(ch.q) \in S
      BY <2>1
    <2>. QED
      BY <1>1, <2>2 DEF SendTo, Overwritten, Channel
  <1>2. CASE ~IsFull(ch)
    BY <1>2 DEF SendTo, Overwritten, Channel
  <1>. QED
    BY <1>1, <1>2

\* What is left of a channel after a read is a channel of the same values, and
\* the value read is one of them.
LEMMA ReceivedType ==
    ASSUME NEW S, NEW ch \in Channel(S), CanReceive(ch)
    PROVE  Received(ch) \in Channel(S) /\ Head(ch.q) \in S
  BY DEF Channel, CanReceive, Received

\* Reporting a gap changes nothing else in a channel.
LEMMA LagReportedType ==
    ASSUME NEW S, NEW ch \in Channel(S)
    PROVE  LagReported(ch) \in Channel(S)
  BY DEF Channel, LagReported

-----------------------------------------------------------------------------
(***************************************************************************)
(* Steps.                                                                  *)
(***************************************************************************)

\* A step of any action of StandaloneSession, whatever the bounds.
Step ==
    \/ \E t \in Tasks :
         \/ \E s \in Sessions : New(t, s) \/ Find(t, s)
         \/ \E k \in Kinds :
              GuardStream(t, k) \/ TakeStream(t, k) \/ DropStream(t, k)
         \/ Insert(t)
         \/ EnsureStarted(t) \/ IsStarted(t) \/ Start(t) \/ Take(t)
         \/ Connect(t) \/ ConnectFails(t)
         \/ RelayTakes(t) \/ RelayLagged(t) \/ RelayDelivers(t)
         \/ RelaySinkFails(t) \/ RelayFromServer(t) \/ UpstreamCloses(t)
         \/ RelayStops(t) \/ Restore(t)
         \/ Park(t) \/ GuardTimesOut(t)
         \/ GuardClose(t) \/ GuardCancels(t) \/ Drop(t)
         \/ Stop(t) \/ StopSignals(t) \/ StopTimesOut(t)
         \/ Close(t) \/ CloseCancels(t)
         \/ Send(t) \/ BypassSend(t) \/ Recv(t)
    \/ \E s \in Sessions : Cleanup(s)
    \/ \E k \in Kinds, s \in Sessions : ReturnStream(k, s)
    \/ Shutdown

\* Next takes such steps only.
LEMMA NextIsStep == Next => Step
  BY DEF Next, Calls, Continues, Connects, Relay, Peer, Spawned, Step

-----------------------------------------------------------------------------
(***************************************************************************)
(* Types.                                                                  *)
(***************************************************************************)
TypeInv == TypeOK /\ Attached

\* The initial state is well typed.
LEMMA InitType == Init => TypeInv
  <1>. SUFFICES ASSUME Init PROVE TypeInv
    OBVIOUS
  <1>1. NewChannel \in Channel(Nat)
    BY DEF NewChannel, Channel
  <1>2. <<>> \in Seq(Nat) /\ {} \in SUBSET Nat /\ 0 \in Nat
    OBVIOUS
  <1>3. TypeOK
    BY <1>1, <1>2 DEF Init, TypeOK, Phases, Waiting, Errors, Kinds
  <1>4. Attached
    BY DEF Init, Attached
  <1>. QED
    BY <1>3, <1>4 DEF TypeInv

\* Every step keeps the types and the attachment of tasks to sessions.
LEMMA StepType == TypeInv /\ [Step]_vars => TypeInv'
  <1>. SUFFICES ASSUME TypeInv, [Step]_vars PROVE TypeInv'
    OBVIOUS
  <1>. USE TaskAssumption
       DEF TypeInv, TypeOK, Attached, Phases, Waiting, Errors, Kinds, Goto,
           Calling, CheckToken, manager, conn, up, down
  <1>1. ASSUME NEW t \in Tasks, NEW s \in Sessions, New(t, s) PROVE TypeInv'
    BY <1>1 DEF New
  <1>2. ASSUME NEW t \in Tasks, NEW s \in Sessions, Find(t, s) PROVE TypeInv'
    <2>1. UNCHANGED <<manager, conn, up, down, slot, guard>> /\ pc[t] = "idle"
      BY <1>2 DEF Find
    <2>2. sess[t] = NoSession /\ relay[t] = "none" /\ guard[t] = "none"
      BY <2>1
    <2>3. CASE s \in sessions
      <3>1. sess' = [sess EXCEPT ![t] = s] /\ pc' = [pc EXCEPT ![t] = "Ok"]
        BY <1>2, <2>3 DEF Find
      <3>. QED
        BY <2>1, <2>2, <2>3, <3>1
    <2>4. CASE s \notin sessions
      <3>1. sess' = sess /\ pc' = [pc EXCEPT ![t] = "NotFound"]
        BY <1>2, <2>4 DEF Find
      <3>. QED
        BY <2>1, <2>2, <3>1
    <2>. QED
      BY <2>3, <2>4
  <1>3. ASSUME NEW t \in Tasks, NEW k \in Kinds, GuardStream(t, k) PROVE TypeInv'
    BY <1>3 DEF GuardStream
  <1>4. ASSUME NEW t \in Tasks, NEW k \in Kinds, TakeStream(t, k) PROVE TypeInv'
    <2>1. /\ slot' = [slot EXCEPT ![k][sess[t]] = t]
          /\ pc[t] = k /\ pc' = [pc EXCEPT ![t] = "Ok"]
          /\ UNCHANGED <<manager, conn, up, down, guard, sess>>
      BY <1>4 DEF TakeStream
    <2>2. /\ slot' \in [Kinds -> [Sessions -> Tasks \cup {InSlot, Returning}]]
          /\ pc' \in [Tasks -> Phases]
      BY <2>1
    <2>3. sess[t] # NoSession
      BY <2>1
    <2>. QED
      BY <2>1, <2>2, <2>3
  <1>5. ASSUME NEW t \in Tasks, NEW k \in Kinds, DropStream(t, k) PROVE TypeInv'
    BY <1>5 DEF DropStream
  <1>6. ASSUME NEW t \in Tasks, Insert(t) PROVE TypeInv'
    BY <1>6 DEF Insert
  <1>7. ASSUME NEW t \in Tasks, EnsureStarted(t) PROVE TypeInv'
    BY <1>7 DEF EnsureStarted
  <1>8. ASSUME NEW t \in Tasks, IsStarted(t) PROVE TypeInv'
    BY <1>8 DEF IsStarted
  <1>9. ASSUME NEW t \in Tasks, Start(t) PROVE TypeInv'
    BY <1>9 DEF Start
  <1>10. ASSUME NEW t \in Tasks, Take(t) PROVE TypeInv'
    <2>. sess[t] \in Sessions /\ relay[t] = "none"
      BY <1>10 DEF Take
    <2>1. CASE connection[sess[t]] = Stopped
      <3>1. /\ connection' = [connection EXCEPT ![sess[t]] = t]
            /\ pc' = [pc EXCEPT ![t] = "connect"]
        BY <1>10, <2>1 DEF Take
      <3>2. UNCHANGED <<manager, receiver, relay, stop_ct, up, down, slot,
                        guard, sess>>
        BY <1>10 DEF Take
      <3>. QED
        BY <3>1, <3>2
    <2>2. CASE connection[sess[t]] # Stopped
      <3>1. pc' = [pc EXCEPT ![t] = "AlreadyStarted"] /\ UNCHANGED connection
        BY <1>10, <2>2 DEF Take
      <3>2. UNCHANGED <<manager, receiver, relay, stop_ct, up, down, slot,
                        guard, sess>>
        BY <1>10 DEF Take
      <3>. QED
        BY <3>1, <3>2
    <2>. QED
      BY <2>1, <2>2
  <1>11. ASSUME NEW t \in Tasks, Connect(t) PROVE TypeInv'
    BY <1>11 DEF Connect
  <1>12. ASSUME NEW t \in Tasks, ConnectFails(t) PROVE TypeInv'
    BY <1>12 DEF ConnectFails
  <1>13. ASSUME NEW t \in Tasks, RelayTakes(t) PROVE TypeInv'
    <2>1. /\ sess[t] \in Sessions /\ relay[t] = "running"
          /\ clt[sess[t]] \in Channel(Nat) /\ CanReceive(clt[sess[t]])
      BY <1>13 DEF RelayTakes, Idle
    <2>2. /\ Received(clt[sess[t]]) \in Channel(Nat)
          /\ Head(clt[sess[t]].q) \in Nat
      BY <2>1, ReceivedType
    <2>. QED
      BY <1>13, <2>1, <2>2 DEF RelayTakes
  <1>14. ASSUME NEW t \in Tasks, RelayLagged(t) PROVE TypeInv'
    BY <1>14, LagReportedType DEF RelayLagged, Idle
  <1>15. ASSUME NEW t \in Tasks, RelayDelivers(t) PROVE TypeInv'
    BY <1>15 DEF RelayDelivers
  <1>16. ASSUME NEW t \in Tasks, RelaySinkFails(t) PROVE TypeInv'
    BY <1>16 DEF RelaySinkFails
  <1>17. ASSUME NEW t \in Tasks, RelayFromServer(t) PROVE TypeInv'
    <2>1. sess[t] \in Sessions
      BY <1>17 DEF RelayFromServer, Idle
    <2>2. SendTo(svr[sess[t]], nemit[sess[t]] + 1) \in Channel(Nat)
      BY <2>1, SendToType
    <2>. QED
      BY <1>17, <2>1, <2>2 DEF RelayFromServer, Idle, Emit
  <1>18. ASSUME NEW t \in Tasks, UpstreamCloses(t) PROVE TypeInv'
    BY <1>18 DEF UpstreamCloses, Idle
  <1>19. ASSUME NEW t \in Tasks, RelayStops(t) PROVE TypeInv'
    BY <1>19 DEF RelayStops, Idle
  <1>20. ASSUME NEW t \in Tasks, Restore(t) PROVE TypeInv'
    BY <1>20 DEF Restore
  <1>21. ASSUME NEW t \in Tasks, Park(t) PROVE TypeInv'
    BY <1>21 DEF Park
  <1>22. ASSUME NEW t \in Tasks, GuardTimesOut(t) PROVE TypeInv'
    BY <1>22 DEF GuardTimesOut
  <1>23. ASSUME NEW t \in Tasks, GuardClose(t) PROVE TypeInv'
    BY <1>23 DEF GuardClose
  <1>24. ASSUME NEW t \in Tasks, GuardCancels(t) PROVE TypeInv'
    BY <1>24 DEF GuardCancels
  <1>25. ASSUME NEW t \in Tasks, Drop(t) PROVE TypeInv'
    BY <1>25, SMTT(30) DEF Drop
  <1>26. ASSUME NEW t \in Tasks, Stop(t) PROVE TypeInv'
    BY <1>26 DEF Stop
  <1>27. ASSUME NEW t \in Tasks, StopSignals(t) PROVE TypeInv'
    BY <1>27 DEF StopSignals
  <1>28. ASSUME NEW t \in Tasks, StopTimesOut(t) PROVE TypeInv'
    BY <1>28 DEF StopTimesOut
  <1>29. ASSUME NEW t \in Tasks, Close(t) PROVE TypeInv'
    BY <1>29 DEF Close
  <1>30. ASSUME NEW t \in Tasks, CloseCancels(t) PROVE TypeInv'
    BY <1>30 DEF CloseCancels
  <1>31. ASSUME NEW t \in Tasks, Send(t) PROVE TypeInv'
    <2>1. sess[t] \in Sessions
      BY <1>31 DEF Send
    <2>2. /\ SendTo(clt[sess[t]], nsent[sess[t]] + 1) \in Channel(Nat)
          /\ Overwritten(clt[sess[t]]) \subseteq Nat
      BY <2>1, SendToType
    <2>3. CASE sess[t] \in receiver
      <3>1. /\ nsent' = [nsent EXCEPT ![sess[t]] = @ + 1]
            /\ clt' = [clt EXCEPT ![sess[t]] =
                                SendTo(@, nsent[sess[t]] + 1)]
            /\ lost' = [lost EXCEPT ![sess[t]] =
                                @ \cup Overwritten(clt[sess[t]])]
            /\ pc' = pc /\ pc[t] = "Ok"
        BY <1>31, <2>3 DEF Send
      <3>2. UNCHANGED <<manager, conn, delivered, inflight, down, slot, guard,
                        sess>>
        BY <1>31 DEF Send
      <3>. QED
        BY <2>1, <2>2, <3>1, <3>2
    <2>4. CASE sess[t] \notin receiver
      <3>1. pc' = [pc EXCEPT ![t] = "Broadcast"] /\ UNCHANGED <<nsent, clt, lost>>
        BY <1>31, <2>4 DEF Send
      <3>2. UNCHANGED <<manager, conn, delivered, inflight, down, slot, guard,
                        sess>>
        BY <1>31 DEF Send
      <3>. QED
        BY <2>1, <3>1, <3>2
    <2>. QED
      BY <2>3, <2>4
  <1>32. ASSUME NEW t \in Tasks, BypassSend(t) PROVE TypeInv'
    <2>1. sess[t] \in Sessions
      BY <1>32 DEF BypassSend
    <2>2. SendTo(svr[sess[t]], nemit[sess[t]] + 1) \in Channel(Nat)
      BY <2>1, SendToType
    <2>. QED
      BY <1>32, <2>1, <2>2 DEF BypassSend, Emit
  <1>33. ASSUME NEW t \in Tasks, Recv(t) PROVE TypeInv'
    <2>1. sess[t] \in Sessions /\ svr[sess[t]] \in Channel(Nat)
      BY <1>33 DEF Recv
    <2>2. CASE /\ CanReceive(svr[sess[t]])
               /\ svr' = [svr EXCEPT ![sess[t]] = Received(@)]
               /\ seen' = [seen EXCEPT ![sess[t]] = Append(@, Head(svr[sess[t]].q))]
               /\ Goto(t, "Ok")
      <3>. Received(svr[sess[t]]) \in Channel(Nat) /\ Head(svr[sess[t]].q) \in Nat
        BY <2>1, <2>2, ReceivedType
      <3>. QED
        BY <1>33, <2>1, <2>2 DEF Recv
    <2>3. CASE /\ svr' = [svr EXCEPT ![sess[t]] = LagReported(@)]
               /\ Goto(t, "Broadcast")
               /\ UNCHANGED seen
      <3>. LagReported(svr[sess[t]]) \in Channel(Nat)
        BY <2>1, LagReportedType
      <3>. QED
        BY <1>33, <2>1, <2>3 DEF Recv
    <2>. QED
      BY <1>33, <2>2, <2>3 DEF Recv
  <1>34. ASSUME NEW s \in Sessions, Cleanup(s) PROVE TypeInv'
    BY <1>34 DEF Cleanup
  <1>35. ASSUME NEW k \in Kinds, NEW s \in Sessions, ReturnStream(k, s) PROVE TypeInv'
    BY <1>35 DEF ReturnStream
  <1>36. CASE Shutdown
    BY <1>36 DEF Shutdown
  <1>37. CASE UNCHANGED vars
    BY <1>37 DEF vars
  <1>. HIDE DEF TypeInv
  <1>. QED
    BY <1>1, <1>2, <1>3, <1>4, <1>5, <1>6, <1>7, <1>8, <1>9, <1>10, <1>11, <1>12, <1>13, <1>14, <1>15, <1>16, <1>17, <1>18, <1>19, <1>20, <1>21, <1>22, <1>23, <1>24, <1>25, <1>26, <1>27, <1>28, <1>29, <1>30, <1>31, <1>32, <1>33, <1>34, <1>35, <1>36, <1>37 DEF Step

\* Type correctness of the session manager and its sessions under any caller:
\* tokens, channel ends, slots and control points always fit together.
THEOREM TypeCorrect == Spec => []TypeOK
  <1>1. Init => TypeInv
    BY InitType
  <1>2. TypeInv /\ [Next]_vars => TypeInv'
    BY NextIsStep, StepType
  <1>3. TypeInv => TypeOK
    BY DEF TypeInv
  <1>. QED
    BY <1>1, <1>2, <1>3, PTL DEF Spec
-----------------------------------------------------------------------------
(***************************************************************************)
(* What no step takes back.                                                *)
(***************************************************************************)

\* Tokens stay cancelled, sessions created, relays spawned, guards notified and
\* tasks attached; only a cancelled session leaves the map.
Lasting ==
    /\ created \subseteq created' /\ cancelled \subseteq cancelled'
    /\ shutdown => shutdown'
    /\ sessions \ cancelled \subseteq sessions'
    /\ \A t \in Tasks :
         /\ sess[t] # NoSession => sess'[t] = sess[t]
         /\ relay[t] # "none" => relay'[t] # "none"
         /\ guard[t] = "notified" => guard'[t] = "notified"

\* Every step is lasting.
LEMMA StepLasting == TypeInv /\ [Step]_vars => Lasting
  <1>. SUFFICES ASSUME TypeInv, [Step]_vars PROVE Lasting
    OBVIOUS
  <1>. USE DEF Lasting, manager, conn
  <1>0. /\ DOMAIN sess = Tasks /\ DOMAIN relay = Tasks /\ DOMAIN guard = Tasks
        /\ cancelled \subseteq created
        /\ \A t \in Tasks : pc[t] = "idle" => sess[t] = NoSession
    BY DEF TypeInv, TypeOK, Attached
  <1>1. ASSUME NEW t \in Tasks, NEW s \in Sessions, New(t, s) \/ Find(t, s)
        PROVE  Lasting
    <2>1. CASE New(t, s)
      BY <1>0, <2>1 DEF New
    <2>2. CASE Find(t, s)
      BY <1>0, <2>2 DEF Find
    <2>. QED
      BY <1>1, <2>1, <2>2
  <1>2. ASSUME NEW t \in Tasks,
               \/ Connect(t) \/ UpstreamCloses(t) \/ RelayStops(t) \/ Restore(t)
        PROVE  Lasting
    BY <1>0, <1>2 DEF Connect, UpstreamCloses, RelayStops, Restore
  <1>3. ASSUME NEW t \in Tasks, GuardClose(t) \/ GuardCancels(t) \/ Drop(t)
        PROVE  Lasting
    BY <1>0, <1>3 DEF GuardClose, GuardCancels, Drop
  <1>4. ASSUME NEW t \in Tasks,
               Insert(t) \/ CloseCancels(t) \/ Take(t) \/ ConnectFails(t)
        PROVE  Lasting
    BY <1>4 DEF Insert, CloseCancels, Take, ConnectFails
  <1>5. ASSUME NEW t \in Tasks,
               \/ EnsureStarted(t) \/ IsStarted(t) \/ Start(t)
               \/ Park(t) \/ GuardTimesOut(t)
               \/ Stop(t) \/ StopSignals(t) \/ StopTimesOut(t) \/ Close(t)
        PROVE  Lasting
    BY <1>5 DEF EnsureStarted, IsStarted, Start, Park, GuardTimesOut, Stop,
                StopSignals, StopTimesOut, Close
  <1>6. ASSUME NEW t \in Tasks,
               \/ RelayTakes(t) \/ RelayLagged(t) \/ RelayDelivers(t)
               \/ RelaySinkFails(t) \/ RelayFromServer(t)
               \/ Send(t) \/ BypassSend(t) \/ Recv(t)
        PROVE  Lasting
    BY <1>6 DEF RelayTakes, RelayLagged, RelayDelivers, RelaySinkFails,
                RelayFromServer, Send, BypassSend, Recv
  <1>7. ASSUME NEW t \in Tasks, NEW k \in Kinds,
               GuardStream(t, k) \/ TakeStream(t, k) \/ DropStream(t, k)
        PROVE  Lasting
    BY <1>7 DEF GuardStream, TakeStream, DropStream
  <1>8. ASSUME NEW s \in Sessions, Cleanup(s) PROVE Lasting
    BY <1>8 DEF Cleanup
  <1>9. ASSUME NEW k \in Kinds, NEW s \in Sessions, ReturnStream(k, s)
        PROVE  Lasting
    BY <1>9 DEF ReturnStream
  <1>10. CASE Shutdown
    BY <1>0, <1>10 DEF Shutdown
  <1>11. CASE UNCHANGED vars
    BY <1>11 DEF vars
  <1>. QED
    BY <1>1, <1>2, <1>3, <1>4, <1>5, <1>6, <1>7, <1>8, <1>9, <1>10, <1>11 DEF Step

\* A token is cancelled by shutdown, by close, or by the task that a guard's drop
\* notified.
LEMMA StepCancels ==
    ASSUME TypeInv, [Step]_vars, NEW s \in cancelled' \ cancelled
    PROVE  \/ shutdown'
           \/ \E t \in Tasks : pc[t] = "close"
           \/ \E t \in Tasks : sess'[t] = s /\ guard'[t] = "notified"
  <1>1. ASSUME NEW t \in Tasks, New(t, s) \/ CloseCancels(t) \/ GuardCancels(t)
        PROVE  \/ shutdown' \/ pc[t] = "close"
               \/ sess'[t] = s /\ guard'[t] = "notified"
    BY <1>1 DEF New, CloseCancels, GuardCancels, TypeInv, TypeOK
  <1>2. ASSUME NEW t \in Tasks, NEW r \in Sessions, New(t, r)
        PROVE  shutdown'
    BY <1>2 DEF New
  <1>3. CASE Shutdown
    BY <1>3 DEF Shutdown
  <1>4. ASSUME NEW t \in Tasks,
               \/ \E r \in Sessions : Find(t, r)
               \/ Insert(t) \/ Connect(t) \/ ConnectFails(t) \/ Take(t)
               \/ UpstreamCloses(t) \/ RelayStops(t) \/ Restore(t)
               \/ GuardClose(t) \/ Drop(t)
        PROVE  cancelled' = cancelled
    BY <1>4 DEF Find, Insert, Connect, ConnectFails, Take, UpstreamCloses,
                RelayStops, Restore, GuardClose, Drop, manager
  <1>5. ASSUME NEW t \in Tasks,
               \/ EnsureStarted(t) \/ IsStarted(t) \/ Start(t)
               \/ Park(t) \/ GuardTimesOut(t)
               \/ Stop(t) \/ StopSignals(t) \/ StopTimesOut(t) \/ Close(t)
        PROVE  cancelled' = cancelled
    BY <1>5 DEF EnsureStarted, IsStarted, Start, Park, GuardTimesOut, Stop,
                StopSignals, StopTimesOut, Close, manager
  <1>6. ASSUME NEW t \in Tasks,
               \/ RelayTakes(t) \/ RelayLagged(t) \/ RelayDelivers(t)
               \/ RelaySinkFails(t) \/ RelayFromServer(t)
               \/ Send(t) \/ BypassSend(t) \/ Recv(t)
               \/ \E k \in Kinds :
                    GuardStream(t, k) \/ TakeStream(t, k) \/ DropStream(t, k)
        PROVE  cancelled' = cancelled
    BY <1>6 DEF RelayTakes, RelayLagged, RelayDelivers, RelaySinkFails,
                RelayFromServer, Send, BypassSend, Recv, GuardStream, TakeStream,
                DropStream, manager
  <1>7. ASSUME \/ \E r \in Sessions : Cleanup(r)
               \/ \E k \in Kinds, r \in Sessions : ReturnStream(k, r)
               \/ UNCHANGED vars
        PROVE  cancelled' = cancelled
    BY <1>7 DEF Cleanup, ReturnStream, vars, manager
  <1>. QED
    BY <1>1, <1>2, <1>3, <1>4, <1>5, <1>6, <1>7 DEF Step

-----------------------------------------------------------------------------
(***************************************************************************)
(* Channel ends: OneRelay and EndsKept are inductive together with the     *)
(* types and OwnerIsOfSession.                                             *)
(***************************************************************************)
ConnInv == OneRelay /\ EndsKept /\ OwnerIsOfSession

\* The initial sessions are stopped and hold their own ends.
LEMMA InitConn == Init => ConnInv
  BY TaskAssumption
  DEF Init, ConnInv, OneRelay, EndsKept, OwnerIsOfSession, HasEnds

\* ConnInv reads the connection, the relays, the sessions of tasks and which
\* tasks are connecting: a step that leaves these alone keeps it.
LEMMA ConnFrame ==
    ASSUME TypeInv, ConnInv,
           UNCHANGED <<connection, receiver, relay, sess>>,
           \A t \in Tasks : pc'[t] = "connect" <=> pc[t] = "connect"
    PROVE  ConnInv'
  BY DEF TypeInv, TypeOK, ConnInv, OneRelay, EndsKept, OwnerIsOfSession, HasEnds

\* Every step keeps the channel ends in one place.
LEMMA StepConn == TypeInv /\ ConnInv /\ [Step]_vars => ConnInv'
  <1>. SUFFICES ASSUME TypeInv, ConnInv, [Step]_vars PROVE ConnInv'
    OBVIOUS
  <1>. USE TaskAssumption DEF Goto, Calling, CheckToken, manager, conn, up, down
  <1>1. ASSUME NEW t \in Tasks, NEW s \in Sessions, New(t, s) PROVE ConnInv'
    BY <1>1
    DEF New, TypeInv, TypeOK, Attached, ConnInv, OneRelay,
        EndsKept, OwnerIsOfSession, HasEnds, Waiting
  <1>2. ASSUME NEW t \in Tasks, NEW s \in Sessions, Find(t, s) PROVE ConnInv'
    <2>1. UNCHANGED <<manager, conn, up, down, slot, guard>> /\ pc[t] = "idle"
      BY <1>2 DEF Find
    <2>2. sess[t] = NoSession /\ relay[t] = "none"
      BY <2>1 DEF TypeInv, Attached
    <2>3. CASE sess' = [sess EXCEPT ![t] = s] /\ pc' = [pc EXCEPT ![t] = "Ok"]
      <3>1. \A r \in Sessions : connection[r] # t
        BY <2>2 DEF ConnInv, OwnerIsOfSession
      <3>. QED
        BY <2>1, <2>2, <2>3, <3>1
        DEF TypeInv, TypeOK, ConnInv, OneRelay, EndsKept, OwnerIsOfSession,
            HasEnds
    <2>4. CASE sess' = sess /\ pc' = [pc EXCEPT ![t] = "NotFound"]
      BY <2>1, <2>4, ConnFrame DEF TypeInv, TypeOK
    <2>. QED
      BY <1>2, <2>3, <2>4 DEF Find
  <1>3. ASSUME NEW t \in Tasks, Take(t) PROVE ConnInv'
    <2>1. UNCHANGED <<manager, receiver, relay, stop_ct, sess>> /\ pc[t] = "take"
      BY <1>3 DEF Take
    <2>2. sess[t] \in Sessions /\ relay[t] = "none"
      BY <2>1 DEF TypeInv, TypeOK, Attached, Waiting
    <2>3. CASE /\ connection[sess[t]] = Stopped
               /\ connection' = [connection EXCEPT ![sess[t]] = t]
               /\ pc' = [pc EXCEPT ![t] = "connect"]
      <3>1. \A u \in Tasks : HasEnds(u) => sess[u] # sess[t] /\ u # t
        BY <2>1, <2>2, <2>3 DEF ConnInv, OneRelay, HasEnds
      <3>. QED
        BY <2>1, <2>2, <2>3, <3>1
        DEF TypeInv, TypeOK, ConnInv, OneRelay, EndsKept, OwnerIsOfSession,
            HasEnds
    <2>4. CASE connection' = connection /\ pc' = [pc EXCEPT ![t] = "AlreadyStarted"]
      BY <2>1, <2>4, ConnFrame DEF TypeInv, TypeOK
    <2>. QED
      BY <1>3, <2>3, <2>4 DEF Take
  <1>4. ASSUME NEW t \in Tasks, Connect(t) PROVE ConnInv'
    BY <1>4
    DEF Connect, TypeInv, TypeOK, Attached, ConnInv, OneRelay,
        EndsKept, OwnerIsOfSession, HasEnds, Waiting
  <1>5. ASSUME NEW t \in Tasks, ConnectFails(t) PROVE ConnInv'
    BY <1>5
    DEF ConnectFails, TypeInv, TypeOK, Attached, ConnInv, OneRelay,
        EndsKept, OwnerIsOfSession, HasEnds, Waiting
  <1>6. ASSUME NEW t \in Tasks, UpstreamCloses(t) PROVE ConnInv'
    BY <1>6
    DEF UpstreamCloses, Idle, TypeInv, TypeOK, Attached, ConnInv, OneRelay,
        EndsKept, OwnerIsOfSession, HasEnds, Waiting
  <1>7. ASSUME NEW t \in Tasks, RelayStops(t) PROVE ConnInv'
    BY <1>7
    DEF RelayStops, Idle, TypeInv, TypeOK, Attached, ConnInv, OneRelay,
        EndsKept, OwnerIsOfSession, HasEnds, Waiting
  <1>8. ASSUME NEW t \in Tasks, Restore(t) PROVE ConnInv'
    BY <1>8
    DEF Restore, TypeInv, TypeOK, Attached, ConnInv, OneRelay,
        EndsKept, OwnerIsOfSession, HasEnds, Waiting
  <1>9. ASSUME NEW t \in Tasks, Drop(t) PROVE ConnInv'
    BY <1>9
    DEF Drop, TypeInv, TypeOK, Attached, ConnInv, OneRelay,
        EndsKept, OwnerIsOfSession, HasEnds, Waiting
  <1>10. ASSUME NEW t \in Tasks, Insert(t) PROVE ConnInv'
    BY <1>10, ConnFrame DEF Insert, TypeInv, TypeOK
  <1>11. ASSUME NEW t \in Tasks, EnsureStarted(t) PROVE ConnInv'
    BY <1>11, ConnFrame DEF EnsureStarted, TypeInv, TypeOK
  <1>12. ASSUME NEW t \in Tasks, IsStarted(t) PROVE ConnInv'
    BY <1>12, ConnFrame DEF IsStarted, TypeInv, TypeOK
  <1>13. ASSUME NEW t \in Tasks, Start(t) PROVE ConnInv'
    BY <1>13, ConnFrame DEF Start, TypeInv, TypeOK
  <1>14. ASSUME NEW t \in Tasks, RelayTakes(t) PROVE ConnInv'
    BY <1>14, ConnFrame DEF RelayTakes, Idle, TypeInv, TypeOK
  <1>15. ASSUME NEW t \in Tasks, RelayLagged(t) PROVE ConnInv'
    BY <1>15, ConnFrame DEF RelayLagged, Idle, TypeInv, TypeOK
  <1>16. ASSUME NEW t \in Tasks, RelayDelivers(t) PROVE ConnInv'
    BY <1>16, ConnFrame DEF RelayDelivers, TypeInv, TypeOK
  <1>17. ASSUME NEW t \in Tasks, RelaySinkFails(t) PROVE ConnInv'
    BY <1>17, ConnFrame DEF RelaySinkFails, TypeInv, TypeOK
  <1>18. ASSUME NEW t \in Tasks, RelayFromServer(t) PROVE ConnInv'
    BY <1>18, ConnFrame DEF RelayFromServer, Idle, Emit, TypeInv, TypeOK
  <1>19. ASSUME NEW t \in Tasks, Park(t) PROVE ConnInv'
    BY <1>19, ConnFrame DEF Park, TypeInv, TypeOK
  <1>20. ASSUME NEW t \in Tasks, GuardTimesOut(t) PROVE ConnInv'
    BY <1>20, ConnFrame DEF GuardTimesOut, TypeInv, TypeOK
  <1>21. ASSUME NEW t \in Tasks, GuardClose(t) PROVE ConnInv'
    BY <1>21, ConnFrame DEF GuardClose, TypeInv, TypeOK
  <1>22. ASSUME NEW t \in Tasks, GuardCancels(t) PROVE ConnInv'
    BY <1>22, ConnFrame DEF GuardCancels, TypeInv, TypeOK
  <1>23. ASSUME NEW t \in Tasks, Stop(t) PROVE ConnInv'
    BY <1>23, ConnFrame DEF Stop, TypeInv, TypeOK
  <1>24. ASSUME NEW t \in Tasks, StopSignals(t) PROVE ConnInv'
    BY <1>24, ConnFrame DEF StopSignals, TypeInv, TypeOK
  <1>25. ASSUME NEW t \in Tasks, StopTimesOut(t) PROVE ConnInv'
    BY <1>25, ConnFrame DEF StopTimesOut, TypeInv, TypeOK
  <1>26. ASSUME NEW t \in Tasks, Close(t) PROVE ConnInv'
    BY <1>26, ConnFrame DEF Close, TypeInv, TypeOK
  <1>27. ASSUME NEW t \in Tasks, CloseCancels(t) PROVE ConnInv'
    BY <1>27, ConnFrame DEF CloseCancels, TypeInv, TypeOK
  <1>28. ASSUME NEW t \in Tasks, Send(t) PROVE ConnInv'
    BY <1>28, ConnFrame DEF Send, TypeInv, TypeOK
  <1>29. ASSUME NEW t \in Tasks, BypassSend(t) PROVE ConnInv'
    BY <1>29, ConnFrame DEF BypassSend, Emit, TypeInv, TypeOK
  <1>30. ASSUME NEW t \in Tasks, Recv(t) PROVE ConnInv'
    BY <1>30, ConnFrame DEF Recv, TypeInv, TypeOK
  <1>31. ASSUME NEW t \in Tasks, NEW k \in Kinds, GuardStream(t, k) PROVE ConnInv'
    BY <1>31, ConnFrame DEF GuardStream, Kinds, TypeInv, TypeOK
  <1>32. ASSUME NEW t \in Tasks, NEW k \in Kinds, TakeStream(t, k) PROVE ConnInv'
    BY <1>32, ConnFrame DEF TakeStream, Kinds, TypeInv, TypeOK
  <1>33. ASSUME NEW t \in Tasks, NEW k \in Kinds, DropStream(t, k) PROVE ConnInv'
    BY <1>33, ConnFrame DEF DropStream, Kinds, TypeInv, TypeOK
  <1>34. ASSUME NEW s \in Sessions, Cleanup(s) PROVE ConnInv'
    BY <1>34, ConnFrame DEF Cleanup, TypeInv, TypeOK
  <1>35. ASSUME NEW k \in Kinds, NEW s \in Sessions, ReturnStream(k, s) PROVE ConnInv'
    BY <1>35, ConnFrame DEF ReturnStream, TypeInv, TypeOK
  <1>36. CASE Shutdown
    BY <1>36, ConnFrame DEF Shutdown, TypeInv, TypeOK
  <1>37. CASE UNCHANGED vars
    BY <1>37, ConnFrame DEF vars
  <1>. QED
    BY <1>1, <1>2, <1>3, <1>4, <1>5, <1>6, <1>7, <1>8, <1>9, <1>10, <1>11, <1>12, <1>13, <1>14, <1>15, <1>16, <1>17, <1>18, <1>19, <1>20, <1>21, <1>22, <1>23, <1>24, <1>25, <1>26, <1>27, <1>28, <1>29, <1>30, <1>31, <1>32, <1>33, <1>34, <1>35, <1>36, <1>37 DEF Step

\* Mutual exclusion of relays: under any caller, a session has at most one start
\* connecting or relaying, and `connection` holds its stop token.
THEOREM RelayExclusion == Spec => []OneRelay
  <1>1. Init => TypeInv /\ ConnInv
    BY InitType, InitConn
  <1>2. TypeInv /\ ConnInv /\ [Next]_vars => (TypeInv /\ ConnInv)'
    BY NextIsStep, StepType, StepConn
  <1>3. TypeInv /\ ConnInv => OneRelay
    BY DEF ConnInv
  <1>. QED
    BY <1>1, <1>2, <1>3, PTL DEF Spec

\* Channel ends are never lost by a relay: the receiving end is gone exactly when
\* the current start failed or was dropped while it connected.
THEOREM EndsConserved == Spec => []EndsKept
  <1>1. Init => TypeInv /\ ConnInv
    BY InitType, InitConn
  <1>2. TypeInv /\ ConnInv /\ [Next]_vars => (TypeInv /\ ConnInv)'
    BY NextIsStep, StepType, StepConn
  <1>3. TypeInv /\ ConnInv => EndsKept
    BY DEF ConnInv
  <1>. QED
    BY <1>1, <1>2, <1>3, PTL DEF Spec
-----------------------------------------------------------------------------
(***************************************************************************)
(* The session map: CleanupIsFinal and LiveSessionIsRegistered need that a *)
(* session is known to its creator only until it is in the map.            *)
(***************************************************************************)
RegInv == CleanupIsFinal /\ LiveSessionIsRegistered /\ FreshUntilInserted

\* Initially there are no sessions.
LEMMA InitReg == Init => RegInv
  BY DEF Init, RegInv, CleanupIsFinal, LiveSessionIsRegistered,
         FreshUntilInserted, InUse, Waiting, Kinds

\* A step that leaves the map, the tokens and the sessions of tasks alone keeps
\* RegInv when it brings no task to "insert" or into use of a session.
LEMMA RegFrame ==
    ASSUME TypeInv, RegInv,
           UNCHANGED <<shutdown, sessions, cancelled, swept, sess>>,
           \A t \in Tasks :
               /\ pc'[t] = "insert" => pc[t] = "insert" /\ guard'[t] = guard[t]
               /\ pc'[t] \in InUse => pc[t] \in InUse
    PROVE  RegInv'
  BY DEF TypeInv, TypeOK, RegInv, CleanupIsFinal, LiveSessionIsRegistered,
         FreshUntilInserted

\* Every step keeps the session map and the tokens consistent.
LEMMA StepReg == TypeInv /\ RegInv /\ [Step]_vars => RegInv'
  <1>. SUFFICES ASSUME TypeInv, RegInv, [Step]_vars PROVE RegInv'
    OBVIOUS
  <1>. USE TaskAssumption DEF Goto, Calling, CheckToken, manager, conn, up, down
  <1>1. ASSUME NEW t \in Tasks, NEW s \in Sessions, New(t, s) PROVE RegInv'
    BY <1>1
    DEF New, TypeInv, TypeOK, Attached, RegInv, CleanupIsFinal,
        LiveSessionIsRegistered, FreshUntilInserted, InUse, Waiting, Kinds
  <1>2. ASSUME NEW t \in Tasks, NEW s \in Sessions, Find(t, s) PROVE RegInv'
    <2>1. UNCHANGED <<manager, conn, up, down, slot, guard>> /\ pc[t] = "idle"
      BY <1>2 DEF Find
    <2>2. CASE /\ s \in sessions
               /\ sess' = [sess EXCEPT ![t] = s]
               /\ pc' = [pc EXCEPT ![t] = "Ok"]
      BY <2>1, <2>2
      DEF TypeInv, TypeOK, RegInv, CleanupIsFinal, LiveSessionIsRegistered,
          FreshUntilInserted
    <2>3. CASE sess' = sess /\ pc' = [pc EXCEPT ![t] = "NotFound"]
      BY <2>1, <2>3, RegFrame DEF TypeInv, TypeOK, InUse, Waiting, Kinds
    <2>. QED
      BY <1>2, <2>2, <2>3 DEF Find
  <1>3. ASSUME NEW t \in Tasks, Insert(t) PROVE RegInv'
    BY <1>3
    DEF Insert, TypeInv, TypeOK, Attached, RegInv, CleanupIsFinal,
        LiveSessionIsRegistered, FreshUntilInserted, InUse, Waiting, Kinds
  <1>4. ASSUME NEW t \in Tasks, GuardCancels(t) PROVE RegInv'
    BY <1>4
    DEF GuardCancels, TypeInv, TypeOK, Attached, RegInv, CleanupIsFinal,
        LiveSessionIsRegistered, FreshUntilInserted, InUse, Waiting, Kinds
  <1>5. ASSUME NEW t \in Tasks, CloseCancels(t) PROVE RegInv'
    BY <1>5
    DEF CloseCancels, TypeInv, TypeOK, Attached, RegInv, CleanupIsFinal,
        LiveSessionIsRegistered, FreshUntilInserted, InUse, Waiting, Kinds
  <1>6. ASSUME NEW s \in Sessions, Cleanup(s) PROVE RegInv'
    BY <1>6
    DEF Cleanup, TypeInv, TypeOK, Attached, RegInv, CleanupIsFinal,
        LiveSessionIsRegistered, FreshUntilInserted, InUse, Waiting, Kinds
  <1>7. CASE Shutdown
    BY <1>7
    DEF Shutdown, TypeInv, TypeOK, Attached, RegInv, CleanupIsFinal,
        LiveSessionIsRegistered, FreshUntilInserted, InUse, Waiting, Kinds
  <1>8. ASSUME NEW t \in Tasks, EnsureStarted(t) PROVE RegInv'
    BY <1>8, RegFrame
    DEF EnsureStarted, TypeInv, TypeOK, InUse, Waiting, Errors, Kinds
  <1>9. ASSUME NEW t \in Tasks, IsStarted(t) PROVE RegInv'
    BY <1>9, RegFrame
    DEF IsStarted, TypeInv, TypeOK, InUse, Waiting, Errors, Kinds
  <1>10. ASSUME NEW t \in Tasks, Start(t) PROVE RegInv'
    BY <1>10, RegFrame
    DEF Start, TypeInv, TypeOK, InUse, Waiting, Errors, Kinds
  <1>11. ASSUME NEW t \in Tasks, Take(t) PROVE RegInv'
    BY <1>11, RegFrame
    DEF Take, TypeInv, TypeOK, InUse, Waiting, Errors, Kinds
  <1>12. ASSUME NEW t \in Tasks, Connect(t) PROVE RegInv'
    BY <1>12, RegFrame
    DEF Connect, TypeInv, TypeOK, InUse, Waiting, Errors, Kinds
  <1>13. ASSUME NEW t \in Tasks, ConnectFails(t) PROVE RegInv'
    BY <1>13, RegFrame
    DEF ConnectFails, TypeInv, TypeOK, InUse, Waiting, Errors, Kinds
  <1>14. ASSUME NEW t \in Tasks, RelayTakes(t) PROVE RegInv'
    BY <1>14, RegFrame
    DEF RelayTakes, Idle, TypeInv, TypeOK, InUse, Waiting, Errors, Kinds
  <1>15. ASSUME NEW t \in Tasks, RelayLagged(t) PROVE RegInv'
    BY <1>15, RegFrame
    DEF RelayLagged, Idle, TypeInv, TypeOK, InUse, Waiting, Errors, Kinds
  <1>16. ASSUME NEW t \in Tasks, RelayDelivers(t) PROVE RegInv'
    BY <1>16, RegFrame
    DEF RelayDelivers, TypeInv, TypeOK, InUse, Waiting, Errors, Kinds
  <1>17. ASSUME NEW t \in Tasks, RelaySinkFails(t) PROVE RegInv'
    BY <1>17, RegFrame
    DEF RelaySinkFails, TypeInv, TypeOK, InUse, Waiting, Errors, Kinds
  <1>18. ASSUME NEW t \in Tasks, RelayFromServer(t) PROVE RegInv'
    BY <1>18, RegFrame
    DEF RelayFromServer, Idle, Emit, TypeInv, TypeOK, InUse, Waiting, Errors, Kinds
  <1>19. ASSUME NEW t \in Tasks, UpstreamCloses(t) PROVE RegInv'
    BY <1>19, RegFrame
    DEF UpstreamCloses, Idle, TypeInv, TypeOK, InUse, Waiting, Errors, Kinds
  <1>20. ASSUME NEW t \in Tasks, RelayStops(t) PROVE RegInv'
    BY <1>20, RegFrame
    DEF RelayStops, Idle, TypeInv, TypeOK, InUse, Waiting, Errors, Kinds
  <1>21. ASSUME NEW t \in Tasks, Restore(t) PROVE RegInv'
    BY <1>21, RegFrame
    DEF Restore, TypeInv, TypeOK, InUse, Waiting, Errors, Kinds
  <1>22. ASSUME NEW t \in Tasks, Park(t) PROVE RegInv'
    BY <1>22, RegFrame
    DEF Park, TypeInv, TypeOK, InUse, Waiting, Errors, Kinds
  <1>23. ASSUME NEW t \in Tasks, GuardTimesOut(t) PROVE RegInv'
    BY <1>23, RegFrame
    DEF GuardTimesOut, TypeInv, TypeOK, InUse, Waiting, Errors, Kinds
  <1>24. ASSUME NEW t \in Tasks, GuardClose(t) PROVE RegInv'
    BY <1>24, RegFrame
    DEF GuardClose, TypeInv, TypeOK, InUse, Waiting, Errors, Kinds
  <1>25. ASSUME NEW t \in Tasks, Drop(t) PROVE RegInv'
    BY <1>25, RegFrame
    DEF Drop, TypeInv, TypeOK, InUse, Waiting, Errors, Kinds
  <1>26. ASSUME NEW t \in Tasks, Stop(t) PROVE RegInv'
    BY <1>26, RegFrame
    DEF Stop, TypeInv, TypeOK, InUse, Waiting, Errors, Kinds
  <1>27. ASSUME NEW t \in Tasks, StopSignals(t) PROVE RegInv'
    BY <1>27, RegFrame
    DEF StopSignals, TypeInv, TypeOK, InUse, Waiting, Errors, Kinds
  <1>28. ASSUME NEW t \in Tasks, StopTimesOut(t) PROVE RegInv'
    BY <1>28, RegFrame
    DEF StopTimesOut, TypeInv, TypeOK, InUse, Waiting, Errors, Kinds
  <1>29. ASSUME NEW t \in Tasks, Close(t) PROVE RegInv'
    BY <1>29, RegFrame
    DEF Close, TypeInv, TypeOK, InUse, Waiting, Errors, Kinds
  <1>30. ASSUME NEW t \in Tasks, Send(t) PROVE RegInv'
    BY <1>30, RegFrame
    DEF Send, TypeInv, TypeOK, InUse, Waiting, Errors, Kinds
  <1>31. ASSUME NEW t \in Tasks, BypassSend(t) PROVE RegInv'
    BY <1>31, RegFrame
    DEF BypassSend, Emit, TypeInv, TypeOK, InUse, Waiting, Errors, Kinds
  <1>32. ASSUME NEW t \in Tasks, Recv(t) PROVE RegInv'
    <2>1. /\ pc[t] = "Ok"
          /\ \/ pc' = [pc EXCEPT ![t] = "Ok"]
             \/ pc' = [pc EXCEPT ![t] = "Broadcast"]
      BY <1>32 DEF Recv
    <2>2. UNCHANGED <<shutdown, sessions, cancelled, swept, sess, guard>>
      BY <1>32 DEF Recv
    <2>3. \A r \in Tasks :
              /\ pc'[r] = "insert" => pc[r] = "insert"
              /\ pc'[r] \in InUse => pc[r] \in InUse
      BY <2>1 DEF TypeInv, TypeOK, InUse
    <2>. QED
      BY <2>2, <2>3, RegFrame
  <1>33. ASSUME NEW t \in Tasks, NEW k \in Kinds, GuardStream(t, k) PROVE RegInv'
    BY <1>33, RegFrame
    DEF GuardStream, TypeInv, TypeOK, InUse, Waiting, Errors, Kinds
  <1>34. ASSUME NEW t \in Tasks, NEW k \in Kinds, TakeStream(t, k) PROVE RegInv'
    BY <1>34, RegFrame
    DEF TakeStream, TypeInv, TypeOK, InUse, Waiting, Errors, Kinds
  <1>35. ASSUME NEW t \in Tasks, NEW k \in Kinds, DropStream(t, k) PROVE RegInv'
    BY <1>35, RegFrame
    DEF DropStream, TypeInv, TypeOK, InUse, Waiting, Errors, Kinds
  <1>36. ASSUME NEW k \in Kinds, NEW s \in Sessions, ReturnStream(k, s) PROVE RegInv'
    BY <1>36, RegFrame
    DEF ReturnStream, TypeInv, TypeOK, InUse, Waiting, Errors, Kinds
  <1>37. CASE UNCHANGED vars
    BY <1>37, RegFrame DEF vars
  <1>. QED
    BY <1>1, <1>2, <1>3, <1>4, <1>5, <1>6, <1>7, <1>8, <1>9, <1>10, <1>11, <1>12, <1>13, <1>14, <1>15, <1>16, <1>17, <1>18, <1>19, <1>20, <1>21, <1>22, <1>23, <1>24, <1>25, <1>26, <1>27, <1>28, <1>29, <1>30, <1>31, <1>32, <1>33, <1>34, <1>35, <1>36, <1>37 DEF Step

\* A cleaned-up session stays out of the map until shutdown: no caller, and no
\* order of create, find, close and guard drops, brings it back.
THEOREM CleanupFinality == Spec => []CleanupIsFinal
  <1>1. Init => TypeInv /\ RegInv
    BY InitType, InitReg
  <1>2. TypeInv /\ RegInv /\ [Next]_vars => (TypeInv /\ RegInv)'
    BY NextIsStep, StepType, StepReg
  <1>3. TypeInv /\ RegInv => CleanupIsFinal
    BY DEF RegInv
  <1>. QED
    BY <1>1, <1>2, <1>3, PTL DEF Spec

\* A session in use whose token is not cancelled can be found in the map.
THEOREM LiveSessionsRegistered == Spec => []LiveSessionIsRegistered
  <1>1. Init => TypeInv /\ RegInv
    BY InitType, InitReg
  <1>2. TypeInv /\ RegInv /\ [Next]_vars => (TypeInv /\ RegInv)'
    BY NextIsStep, StepType, StepReg
  <1>3. TypeInv /\ RegInv => LiveSessionIsRegistered
    BY DEF RegInv
  <1>. QED
    BY <1>1, <1>2, <1>3, PTL DEF Spec

-----------------------------------------------------------------------------
(***************************************************************************)
(* HolderIsAlive: only Drop ends a task, and it sends every stream back.   *)
(***************************************************************************)

\* A step that moves no stream, gives no task another session and drops no task
\* keeps the holders alive.
LEMMA HolderFrame ==
    ASSUME HolderIsAlive, slot' = slot,
           \A u \in Tasks : sess[u] # NoSession => sess'[u] = sess[u],
           \A u \in Tasks : pc[u] # "dropped" => pc'[u] # "dropped"
    PROVE  HolderIsAlive'
  BY TaskAssumption DEF HolderIsAlive

\* Every step keeps the holders of streams alive.
LEMMA StepHolder ==
    ASSUME TypeInv, HolderIsAlive, [Step]_vars
    PROVE  HolderIsAlive'
  <1>. USE TaskAssumption
  <1>0. /\ DOMAIN pc = Tasks /\ DOMAIN sess = Tasks
        /\ DOMAIN slot = Kinds /\ \A k \in Kinds : DOMAIN slot[k] = Sessions
        /\ \A u \in Tasks : pc[u] = "idle" => sess[u] = NoSession
        /\ \A u \in Tasks : pc[u] \in {"Ok"} \cup Waiting => sess[u] \in Sessions
    BY DEF TypeInv, TypeOK, Attached
  <1>1. ASSUME NEW t \in Tasks, NEW s \in Sessions, New(t, s) \/ Find(t, s)
        PROVE  HolderIsAlive'
    <2>1. CASE New(t, s)
      BY <1>0, <2>1, HolderFrame DEF New, Goto
    <2>2. CASE Find(t, s)
      BY <1>0, <2>2, HolderFrame DEF Find, Goto
    <2>. QED
      BY <1>1, <2>1, <2>2
  <1>2. ASSUME NEW t \in Tasks, NEW k \in Kinds, TakeStream(t, k)
        PROVE  HolderIsAlive'
    <2>1. /\ slot' = [slot EXCEPT ![k][sess[t]] = t] /\ sess' = sess
          /\ pc' = [pc EXCEPT ![t] = "Ok"] /\ sess[t] \in Sessions
      BY <1>0, <1>2 DEF TakeStream, Goto, Waiting
    <2>. QED
      BY <1>0, <2>1 DEF HolderIsAlive
  <1>3. ASSUME NEW t \in Tasks, NEW k \in Kinds, DropStream(t, k)
        PROVE  HolderIsAlive'
    <2>1. /\ slot' = [slot EXCEPT ![k][sess[t]] = Returning]
          /\ sess' = sess /\ pc' = pc
      BY <1>3 DEF DropStream
    <2>. QED
      BY <1>0, <2>1 DEF HolderIsAlive
  <1>4. ASSUME NEW k \in Kinds, NEW s \in Sessions, ReturnStream(k, s)
        PROVE  HolderIsAlive'
    <2>1. /\ slot' = [slot EXCEPT ![k][s] = InSlot] /\ sess' = sess /\ pc' = pc
      BY <1>4 DEF ReturnStream
    <2>. QED
      BY <1>0, <2>1 DEF HolderIsAlive
  <1>5. ASSUME NEW t \in Tasks, Drop(t) PROVE HolderIsAlive'
    <2>1. /\ slot' = [k \in Kinds |-> [s \in Sessions |->
                         IF slot[k][s] = t THEN Returning ELSE slot[k][s]]]
          /\ sess' = sess /\ pc' = [pc EXCEPT ![t] = "dropped"]
      BY <1>5 DEF Drop, Goto
    <2>. QED
      BY <1>0, <2>1 DEF HolderIsAlive
  <1>6. ASSUME NEW t \in Tasks,
               \/ Insert(t) \/ EnsureStarted(t) \/ IsStarted(t) \/ Start(t)
               \/ Take(t) \/ Connect(t) \/ ConnectFails(t)
        PROVE  HolderIsAlive'
    <2>1. /\ slot' = slot /\ sess' = sess
          /\ \E p \in Phases \ {"dropped"} : pc' = [pc EXCEPT ![t] = p]
      BY <1>6 DEF Insert, EnsureStarted, IsStarted, Start, Take, Connect,
                  ConnectFails, Goto, CheckToken, Phases, Errors, Waiting
    <2>. QED
      BY <1>0, <2>1, HolderFrame
  <1>7. ASSUME NEW t \in Tasks,
               \/ \E k \in Kinds : GuardStream(t, k)
               \/ Park(t) \/ GuardTimesOut(t) \/ GuardClose(t)
        PROVE  HolderIsAlive'
    <2>1. /\ slot' = slot /\ sess' = sess
          /\ \E p \in Phases \ {"dropped"} : pc' = [pc EXCEPT ![t] = p]
      BY <1>7 DEF GuardStream, Park, GuardTimesOut, GuardClose, Goto, CheckToken,
                  Phases, Errors, Waiting, Kinds
    <2>. QED
      BY <1>0, <2>1, HolderFrame
  <1>8. ASSUME NEW t \in Tasks,
               \/ Stop(t) \/ StopSignals(t) \/ StopTimesOut(t)
               \/ Close(t) \/ CloseCancels(t)
        PROVE  HolderIsAlive'
    <2>1. /\ slot' = slot /\ sess' = sess
          /\ \E p \in Phases \ {"dropped"} : pc' = [pc EXCEPT ![t] = p]
      BY <1>8 DEF Stop, StopSignals, StopTimesOut, Close, CloseCancels, Goto,
                  CheckToken, Phases, Errors, Waiting
    <2>. QED
      BY <1>0, <2>1, HolderFrame
  <1>9. ASSUME NEW t \in Tasks, Send(t) \/ BypassSend(t) \/ Recv(t)
        PROVE  HolderIsAlive'
    <2>1. /\ slot' = slot /\ sess' = sess
          /\ \E p \in Phases \ {"dropped"} : pc' = [pc EXCEPT ![t] = p]
      BY <1>9 DEF Send, BypassSend, Recv, Goto, Phases, Errors
    <2>. QED
      BY <1>0, <2>1, HolderFrame
  <1>10. ASSUME NEW t \in Tasks,
                \/ RelayTakes(t) \/ RelayLagged(t) \/ RelayDelivers(t)
                \/ RelaySinkFails(t) \/ RelayFromServer(t) \/ UpstreamCloses(t)
                \/ RelayStops(t) \/ Restore(t) \/ GuardCancels(t)
         PROVE  UNCHANGED <<slot, sess, pc>>
    BY <1>10 DEF RelayTakes, RelayLagged, RelayDelivers, RelaySinkFails,
                 RelayFromServer, UpstreamCloses, RelayStops, Restore, GuardCancels
  <1>11. ASSUME NEW s \in Sessions, Cleanup(s) PROVE UNCHANGED <<slot, sess, pc>>
    BY <1>11 DEF Cleanup
  <1>12. Shutdown \/ UNCHANGED vars => UNCHANGED <<slot, sess, pc>>
    BY DEF Shutdown, vars
  <1>13. CASE UNCHANGED <<slot, sess, pc>>
    BY <1>13, HolderFrame
  <1>. QED
    BY <1>1, <1>2, <1>3, <1>4, <1>5, <1>6, <1>7, <1>8, <1>9, <1>10, <1>11, <1>12,
       <1>13 DEF Step

\* Whatever stops a task, the streams it held go back: a session's upstream,
\* downstream or bypass end is never lost with the request that took it.
THEOREM HoldersAlive == Spec => []HolderIsAlive
  <1>1. Init => TypeInv /\ HolderIsAlive
    BY InitType, TaskAssumption DEF Init, HolderIsAlive
  <1>2. TypeInv /\ HolderIsAlive /\ [Next]_vars => TypeInv' /\ HolderIsAlive'
    BY NextIsStep, StepType, StepHolder
  <1>. QED
    BY <1>1, <1>2, PTL DEF Spec
=============================================================================
