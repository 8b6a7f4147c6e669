------------------------ MODULE SessionPipes_proofs -------------------------
(***************************************************************************)
(* Proof that StandaloneSession implements MessagePipe: every step of a    *)
(* session is a step of its pipe or leaves it alone.  That the message in  *)
(* hand is the current relay's rests on ConnInv.                           *)
(***************************************************************************)
EXTENDS SessionPipes, StandaloneSession_proofs

\* The variables that the upstream pipes are made of.
upPipe == <<nsent, clt, delivered, inflight, connection>>

\* A step that leaves these alone leaves the upstream pipes alone.
LEMMA UpFrame == UNCHANGED upPipe => UNCHANGED Up!pipe
  BY DEF upPipe, Up!pipe, InHand

\* A pipe is only touched where its channel is.
LEMMA Queues ==
    ASSUME NEW f \in [Sessions -> Channel(Nat)], NEW s \in Sessions, NEW c
    PROVE  [r \in Sessions |-> [f EXCEPT ![s] = c][r].q]
             = [[r \in Sessions |-> f[r].q] EXCEPT ![s] = c.q]
  OBVIOUS

\* A send appends to what waits in the channel, or to all of it but the oldest.
LEMMA SendQueue ==
    ASSUME NEW ch \in Channel(Nat), NEW m \in Nat
    PROVE  \/ SendTo(ch, m).q = Append(ch.q, m)
           \/ ch.q # <<>> /\ SendTo(ch, m).q = Append(Tail(ch.q), m)
  BY CapacityAssumption DEF SendTo, IsFull, Channel

\* A relay's message is the message in hand of the session that it relays for.
LEMMA HandOfRelay ==
    ASSUME TypeInv, ConnInv, NEW t \in Tasks, NEW s \in Sessions,
           connection[s] = t, NEW v \in Nat,
           inflight' = [inflight EXCEPT ![t] = v], connection' = connection
    PROVE  InHand[s] = inflight[t] /\ InHand' = [InHand EXCEPT ![s] = v]
  <1>1. /\ connection \in [Sessions -> Tasks \cup {Stopped}]
        /\ inflight \in [Tasks -> Nat] /\ t # Stopped
        /\ \A r \in Sessions : connection[r] = t => r = s
    BY TaskAssumption DEF TypeInv, TypeOK, ConnInv, OwnerIsOfSession
  <1>2. InHand[s] = inflight[t]
    BY <1>1 DEF InHand
  <1>3. ASSUME NEW r \in Sessions
        PROVE  (IF connection'[r] = Stopped THEN 0 ELSE inflight'[connection'[r]])
                 = IF r = s THEN v ELSE InHand[r]
    <2>1. CASE r = s
      BY <1>1, <2>1
    <2>2. CASE r # s
      BY <1>1, <2>2 DEF InHand
    <2>. QED
      BY <2>1, <2>2
  <1>4. InHand' = [InHand EXCEPT ![s] = v]
    BY <1>3 DEF InHand
  <1>. QED
    BY <1>2, <1>4

\* Every step of the session manager is a step of an upstream pipe or of none.
LEMMA UpStep ==
    ASSUME TypeInv, ConnInv, [Step]_vars
    PROVE  [Up!Next]_(Up!pipe)
  <1>. USE TaskAssumption
  <1>0. /\ connection \in [Sessions -> Tasks \cup {Stopped}]
        /\ inflight \in [Tasks -> Nat]
        /\ clt \in [Sessions -> Channel(Nat)]
        /\ nsent \in [Sessions -> Nat]
        /\ delivered \in [Sessions -> Seq(Nat)]
        /\ \A u \in Tasks : sess[u] \in Sessions \cup {NoSession}
        /\ \A u \in Tasks : relay[u] # "none" => sess[u] \in Sessions
        /\ \A u \in Tasks : inflight[u] # 0 => relay[u] = "running"
        /\ \A u \in Tasks : relay[u] \in {"running", "exiting"}
                               => connection[sess[u]] = u
        /\ \A r \in Sessions : connection[r] # Stopped => sess[connection[r]] = r
    BY DEF TypeInv, TypeOK, Attached, ConnInv, OneRelay, OwnerIsOfSession, HasEnds
  <1>1. ASSUME NEW t \in Tasks, Take(t) PROVE UNCHANGED Up!pipe
    <2>1. /\ pc[t] = "take" /\ UNCHANGED up
          /\ \/ UNCHANGED connection
             \/ /\ connection[sess[t]] = Stopped
                /\ connection' = [connection EXCEPT ![sess[t]] = t]
      BY <1>1 DEF Take
    <2>2. sess[t] \in Sessions /\ inflight[t] = 0
      BY <2>1 DEF TypeInv, TypeOK, Attached, Waiting
    <2>3. InHand' = InHand
      BY <1>0, <2>1, <2>2 DEF InHand, up
    <2>. QED
      BY <2>1, <2>3 DEF Up!pipe, up
  <1>2. ASSUME NEW t \in Tasks, Restore(t) PROVE UNCHANGED Up!pipe
    <2>1. /\ relay[t] = "exiting" /\ UNCHANGED up
          /\ connection' = [connection EXCEPT ![sess[t]] = Stopped]
      BY <1>2 DEF Restore
    <2>2. sess[t] \in Sessions /\ connection[sess[t]] = t /\ inflight[t] = 0
      BY <1>0, <2>1
    <2>3. InHand' = InHand
      BY <1>0, <2>1, <2>2 DEF InHand, up
    <2>. QED
      BY <2>1, <2>3 DEF Up!pipe, up
  <1>3. ASSUME NEW t \in Tasks, RelayLagged(t) PROVE UNCHANGED Up!pipe
    <2>1. /\ relay[t] = "running"
          /\ clt' = [clt EXCEPT ![sess[t]] = LagReported(clt[sess[t]])]
          /\ UNCHANGED <<nsent, delivered, inflight, connection>>
      BY <1>3 DEF RelayLagged, Idle, conn
    <2>2. LagReported(clt[sess[t]]).q = clt[sess[t]].q
      BY DEF LagReported
    <2>3. \A r \in Sessions : clt'[r].q = clt[r].q
      BY <1>0, <2>1, <2>2
    <2>. QED
      BY <2>1, <2>3 DEF Up!pipe, InHand
  <1>4. ASSUME NEW t \in Tasks, RelayTakes(t)
        PROVE  \E p \in Sessions : Up!TakeInHand(p)
    <2>0. PICK s \in Sessions : s = sess[t] /\ connection[s] = t
      BY <1>0, <1>4 DEF RelayTakes, Idle
    <2>1. /\ relay[t] = "running" /\ inflight[t] = 0
          /\ clt[s].q # <<>>
          /\ inflight' = [inflight EXCEPT ![t] = Head(clt[s].q)]
          /\ clt' = [clt EXCEPT ![s] = Received(clt[s])]
          /\ UNCHANGED <<nsent, delivered, connection>>
      BY <1>4, <2>0 DEF RelayTakes, Idle, CanReceive, conn
    <2>2. Received(clt[s]).q = Tail(clt[s].q)
      BY DEF Received
    <2>3. [r \in Sessions |-> clt[r].q]'
            = [[r \in Sessions |-> clt[r].q] EXCEPT ![s] = Tail(clt[s].q)]
      BY <1>0, <2>1, <2>2, Queues
    <2>4. /\ InHand[s] = 0
          /\ InHand' = [InHand EXCEPT ![s] = Head(clt[s].q)]
      <3>1. Head(clt[s].q) \in Nat
        BY <1>0, <2>1 DEF Channel
      <3>2. /\ inflight' = [inflight EXCEPT ![t] = Head(clt[s].q)]
            /\ connection' = connection /\ inflight[t] = 0
        BY <2>1
      <3>. QED
        BY <2>0, <3>1, <3>2, HandOfRelay, Zenon
    <2>5. Up!TakeInHand(s)
      BY <2>1, <2>3, <2>4 DEF Up!TakeInHand
    <2>. QED
      BY <2>5
  <1>5. ASSUME NEW t \in Tasks, RelayDelivers(t)
        PROVE  \E p \in Sessions : Up!Deliver(p)
    <2>0. PICK s \in Sessions : s = sess[t] /\ connection[s] = t
      BY <1>0, <1>5 DEF RelayDelivers
    <2>1. /\ inflight[t] # 0
          /\ delivered' = [delivered EXCEPT ![s] = Append(@, inflight[t])]
          /\ inflight' = [inflight EXCEPT ![t] = 0]
          /\ UNCHANGED <<clt, nsent, connection>>
      BY <1>5, <2>0 DEF RelayDelivers, conn
    <2>2. InHand[s] = inflight[t] /\ InHand' = [InHand EXCEPT ![s] = 0]
      <3>1. inflight' = [inflight EXCEPT ![t] = 0] /\ connection' = connection
        BY <2>1
      <3>. QED
        BY <2>0, <3>1, HandOfRelay, Zenon
    <2>3. Up!Deliver(s)
      BY <2>1, <2>2 DEF Up!Deliver
    <2>. QED
      BY <2>3
  <1>6. ASSUME NEW t \in Tasks, RelaySinkFails(t)
        PROVE  \E p \in Sessions : Up!Lose(p)
    <2>0. PICK s \in Sessions : s = sess[t] /\ connection[s] = t
      BY <1>0, <1>6 DEF RelaySinkFails
    <2>1. /\ inflight[t] # 0
          /\ inflight' = [inflight EXCEPT ![t] = 0]
          /\ UNCHANGED <<clt, nsent, delivered, connection>>
      BY <1>6, <2>0 DEF RelaySinkFails, conn
    <2>2. InHand[s] = inflight[t] /\ InHand' = [InHand EXCEPT ![s] = 0]
      <3>1. inflight' = [inflight EXCEPT ![t] = 0] /\ connection' = connection
        BY <2>1
      <3>. QED
        BY <2>0, <3>1, HandOfRelay, Zenon
    <2>3. Up!Lose(s)
      BY <2>1, <2>2 DEF Up!Lose
    <2>. QED
      BY <2>3
  <1>7. ASSUME NEW t \in Tasks, Send(t)
        PROVE  UNCHANGED Up!pipe \/ \E p \in Sessions : Up!Accept(p)
    <2>0. PICK s \in Sessions : s = sess[t]
      BY <1>7 DEF Send, Calling, TypeInv, TypeOK
    <2>. DEFINE n == nsent[s]
    <2>1. /\ pc[t] = "Ok" /\ UNCHANGED <<delivered, inflight, connection>>
          /\ \/ UNCHANGED <<nsent, clt>>
             \/ /\ nsent' = [nsent EXCEPT ![s] = @ + 1]
                /\ clt' = [clt EXCEPT ![s] = SendTo(clt[s], n + 1)]
      BY <1>7, <2>0 DEF Send, Calling, conn
    <2>2. CASE UNCHANGED <<nsent, clt>>
      BY <2>1, <2>2, UpFrame DEF upPipe
    <2>3. CASE /\ nsent' = [nsent EXCEPT ![s] = @ + 1]
               /\ clt' = [clt EXCEPT ![s] = SendTo(clt[s], n + 1)]
      <3>1. n + 1 \in Nat /\ clt[s] \in Channel(Nat)
        BY <1>0
      <3>2. [r \in Sessions |-> clt[r].q]'
              = [[r \in Sessions |-> clt[r].q] EXCEPT ![s] = SendTo(clt[s], n + 1).q]
        BY <1>0, <2>3, Queues
      <3>3. \/ SendTo(clt[s], n + 1).q = Append(clt[s].q, n + 1)
            \/ clt[s].q # <<>> /\ SendTo(clt[s], n + 1).q = Append(Tail(clt[s].q), n + 1)
        BY <3>1, SendQueue
      <3>4. InHand' = InHand
        BY <2>1 DEF InHand
      <3>5. Up!Accept(s)
        BY <2>1, <2>3, <3>2, <3>3, <3>4 DEF Up!Accept
      <3>. QED
        BY <3>5
    <2>. QED
      BY <2>1, <2>2, <2>3
  <1>8. \/ \E t \in Tasks : \/ Take(t) \/ Restore(t) \/ RelayLagged(t)
                            \/ RelayTakes(t) \/ RelayDelivers(t)
                            \/ RelaySinkFails(t) \/ Send(t)
        \/ UNCHANGED upPipe
    <2>. USE DEF upPipe, up, conn
    <2>1. ASSUME NEW t \in Tasks, NEW s \in Sessions, New(t, s) \/ Find(t, s)
          PROVE  UNCHANGED upPipe
      BY <2>1 DEF New, Find
    <2>2. ASSUME NEW t \in Tasks, NEW k \in Kinds,
                 GuardStream(t, k) \/ TakeStream(t, k) \/ DropStream(t, k)
          PROVE  UNCHANGED upPipe
      BY <2>2 DEF GuardStream, TakeStream, DropStream
    <2>3. ASSUME NEW t \in Tasks,
                 \/ Insert(t) \/ EnsureStarted(t) \/ IsStarted(t) \/ Start(t)
                 \/ Connect(t) \/ ConnectFails(t)
          PROVE  UNCHANGED upPipe
      BY <2>3 DEF Insert, EnsureStarted, IsStarted, Start, Connect, ConnectFails
    <2>4. ASSUME NEW t \in Tasks,
                 RelayFromServer(t) \/ UpstreamCloses(t) \/ RelayStops(t)
          PROVE  UNCHANGED upPipe
      BY <2>4 DEF RelayFromServer, UpstreamCloses, RelayStops
    <2>5. ASSUME NEW t \in Tasks,
                 \/ Park(t) \/ GuardTimesOut(t) \/ GuardClose(t)
                 \/ GuardCancels(t) \/ Drop(t)
          PROVE  UNCHANGED upPipe
      BY <2>5 DEF Park, GuardTimesOut, GuardClose, GuardCancels, Drop
    <2>6. ASSUME NEW t \in Tasks,
                 \/ Stop(t) \/ StopSignals(t) \/ StopTimesOut(t) \/ Close(t)
                 \/ CloseCancels(t) \/ BypassSend(t) \/ Recv(t)
          PROVE  UNCHANGED upPipe
      BY <2>6 DEF Stop, StopSignals, StopTimesOut, Close, CloseCancels,
                  BypassSend, Recv
    <2>7. ASSUME NEW s \in Sessions, Cleanup(s) PROVE UNCHANGED upPipe
      BY <2>7 DEF Cleanup
    <2>8. ASSUME NEW k \in Kinds, NEW s \in Sessions, ReturnStream(k, s)
          PROVE  UNCHANGED upPipe
      BY <2>8 DEF ReturnStream
    <2>9. CASE Shutdown
      BY <2>9 DEF Shutdown
    <2>10. CASE UNCHANGED vars
      BY <2>10 DEF vars
    <2>. HIDE DEF upPipe, up, conn
    <2>. QED
      BY <2>1, <2>2, <2>3, <2>4, <2>5, <2>6, <2>7, <2>8, <2>9, <2>10 DEF Step
  <1>. QED
    BY <1>1, <1>2, <1>3, <1>4, <1>5, <1>6, <1>7, <1>8, UpFrame DEF Up!Next

\* The session manager starts with empty upstream pipes.
LEMMA UpInit == Init => Up!Init
  BY TaskAssumption DEF Init, Up!Init, InHand, NewChannel

-----------------------------------------------------------------------------
\* The sessions implement one lossy first-in first-out pipe each from their
\* clients to their upstream server, across every start, stop and failure of
\* their relays.
THEOREM UpRefinement == Spec => UpIsPipe
  <1>1. Init => TypeInv /\ ConnInv /\ Up!Init
    BY InitType, InitConn, UpInit
  <1>2. TypeInv /\ ConnInv /\ [Next]_vars => TypeInv' /\ ConnInv' /\ [Up!Next]_(Up!pipe)
    BY NextIsStep, StepType, StepConn, UpStep
  <1>. QED
    BY <1>1, <1>2, PTL DEF Spec, UpIsPipe, Up!Spec

-----------------------------------------------------------------------------
UpPipe == INSTANCE MessagePipe_proofs WITH
        Pipes    <- Sessions,
        accepted <- nsent,
        queue    <- [s \in Sessions |-> clt[s].q],
        hand     <- InHand,
        out      <- delivered

\* The upstream server gets a session's messages in the order they were sent and
\* at most once each.
THEOREM UpstreamOrder == Spec => []DeliveredInOrder
  <1>1. UpPipe!Spec => []UpPipe!InOrder
    BY UpPipe!PipeOrder
  <1>2. UpPipe!InOrder => DeliveredInOrder
    BY DEF UpPipe!InOrder, UpPipe!Ascending, DeliveredInOrder, Increasing
  <1>3. Up!Init => UpPipe!Init
    BY DEF Up!Init, UpPipe!Init
  <1>4. [Up!Next]_(Up!pipe) => [UpPipe!Next]_(UpPipe!pipe)
    BY
    DEF Up!Accept, Up!TakeInHand, Up!Deliver, Up!Lose, Up!Next,
        Up!pipe, UpPipe!Accept, UpPipe!TakeInHand,
        UpPipe!Deliver, UpPipe!Lose, UpPipe!Next,
        UpPipe!pipe
  <1>. QED
    BY <1>1, <1>2, <1>3, <1>4, UpRefinement, PTL DEF UpIsPipe, UpPipe!Spec, Up!Spec

-----------------------------------------------------------------------------
(***************************************************************************)
(* NothingElseLost: every number up to nsent[s] is somewhere.  The step    *)
(* that takes it from one place puts it into another.                      *)
(***************************************************************************)
Elements(q) == {q[i] : i \in DOMAIN q}

Flight(s) == {inflight[t] : t \in {u \in Tasks : sess[u] = s}} \ {0}

Accounted(s) ==
    1..nsent[s] =
        Elements(delivered[s]) \cup Elements(clt[s].q) \cup Flight(s) \cup lost[s]

AllAccounted == \A s \in receiver : Accounted(s)

\* AllAccounted is NothingElseLost with its four places named.
LEMMA PlacesNamed == AllAccounted => NothingElseLost
  <1>1. ASSUME NEW A, NEW B, NEW C, NEW D
        PROVE  UNION {A, B, C, D} = A \cup B \cup C \cup D
    OBVIOUS
  <1>. QED
    BY <1>1 DEF AllAccounted, NothingElseLost, Accounted, Elements, Flight

\* Appending adds one element ...
LEMMA ElementsAppend ==
    ASSUME NEW q \in Seq(Nat), NEW m \in Nat
    PROVE  Elements(Append(q, m)) = Elements(q) \cup {m}
  <1>1. /\ DOMAIN q = 1..Len(q) /\ Len(q) \in Nat
        /\ DOMAIN Append(q, m) = 1..(Len(q) + 1)
        /\ Append(q, m)[Len(q) + 1] = m
        /\ \A i \in 1..Len(q) : Append(q, m)[i] = q[i]
    OBVIOUS
  <1>2. ASSUME NEW x \in Elements(Append(q, m)) PROVE x \in Elements(q) \cup {m}
    BY <1>1 DEF Elements
  <1>3. m \in Elements(Append(q, m))
    BY <1>1 DEF Elements
  <1>4. ASSUME NEW x \in Elements(q) PROVE x \in Elements(Append(q, m))
    BY <1>1 DEF Elements
  <1>. QED
    BY <1>2, <1>3, <1>4

\* ... and a sequence is its head and its tail.
LEMMA ElementsTail ==
    ASSUME NEW q \in Seq(Nat), q # <<>>
    PROVE  Elements(q) = {Head(q)} \cup Elements(Tail(q))
  <1>1. /\ DOMAIN q = 1..Len(q) /\ Len(q) \in Nat \ {0} /\ Head(q) = q[1]
        /\ DOMAIN Tail(q) = 1..(Len(q) - 1)
        /\ \A i \in 1..(Len(q) - 1) : Tail(q)[i] = q[i + 1]
    OBVIOUS
  <1>2. ASSUME NEW i \in DOMAIN q PROVE q[i] \in {Head(q)} \cup Elements(Tail(q))
    <2>1. CASE i = 1
      BY <1>1, <2>1
    <2>2. CASE i # 1
      <3>1. i - 1 \in DOMAIN Tail(q) /\ Tail(q)[i - 1] = q[i]
        BY <1>1, <2>2
      <3>. QED
        BY <3>1 DEF Elements
    <2>. QED
      BY <2>1, <2>2
  <1>3. Head(q) \in Elements(q)
    BY <1>1 DEF Elements
  <1>4. ASSUME NEW i \in DOMAIN Tail(q) PROVE Tail(q)[i] \in Elements(q)
    <2>1. i + 1 \in DOMAIN q /\ Tail(q)[i] = q[i + 1]
      BY <1>1
    <2>. QED
      BY <2>1 DEF Elements
  <1>. QED
    BY <1>2, <1>3, <1>4 DEF Elements

\* What a send overwrites leaves the channel, what it sends enters it.
LEMMA ElementsSend ==
    ASSUME NEW ch \in Channel(Nat), NEW m \in Nat
    PROVE  Elements(SendTo(ch, m).q) \cup Overwritten(ch) = Elements(ch.q) \cup {m}
  <1>1. ch.q \in Seq(Nat)
    BY DEF Channel
  <1>2. CASE IsFull(ch)
    <2>1. ch.q # <<>> /\ Tail(ch.q) \in Seq(Nat)
      BY <1>1, <1>2, CapacityAssumption DEF IsFull
    <2>2. SendTo(ch, m).q = Append(Tail(ch.q), m) /\ Overwritten(ch) = {Head(ch.q)}
      BY <1>2 DEF SendTo, Overwritten
    <2>3. Elements(Append(Tail(ch.q), m)) = Elements(Tail(ch.q)) \cup {m}
      BY <2>1, ElementsAppend
    <2>4. Elements(ch.q) = {Head(ch.q)} \cup Elements(Tail(ch.q))
      BY <1>1, <2>1, ElementsTail
    <2>. QED
      BY <2>2, <2>3, <2>4
  <1>3. CASE ~IsFull(ch)
    <2>1. SendTo(ch, m).q = Append(ch.q, m) /\ Overwritten(ch) = {}
      BY <1>3 DEF SendTo, Overwritten
    <2>2. Elements(Append(ch.q, m)) = Elements(ch.q) \cup {m}
      BY <1>1, ElementsAppend
    <2>. QED
      BY <2>1, <2>2
  <1>. QED
    BY <1>2, <1>3

\* A relay that takes a message or lets go of one moves it in or out of flight.
LEMMA FlightMoves ==
    ASSUME NEW t \in Tasks, NEW v \in Nat, inflight \in [Tasks -> Nat],
           inflight' = [inflight EXCEPT ![t] = v], sess' = sess
    PROVE  /\ Flight(sess[t])' \cup ({inflight[t]} \ {0}) = Flight(sess[t]) \cup ({v} \ {0})
              \/ ~(inflight[t] = 0 \/ v = 0)
           /\ \A r \in Sessions : r # sess[t] => Flight(r)' = Flight(r)
  <1>1. inflight'[t] = v /\ \A u \in Tasks : u # t => inflight'[u] = inflight[u]
    OBVIOUS
  <1>. QED
    BY <1>1 DEF Flight

\* No number is anywhere in the beginning.
LEMMA InitAccounted == Init => AllAccounted
  BY DEF Init, AllAccounted, Accounted, Elements, Flight, NewChannel

\* Every step leaves each number in some place.
LEMMA StepAccounted ==
    ASSUME TypeInv, AllAccounted, [Step]_vars
    PROVE  AllAccounted'
  <1>0. /\ clt \in [Sessions -> Channel(Nat)]
        /\ nsent \in [Sessions -> Nat]
        /\ delivered \in [Sessions -> Seq(Nat)]
        /\ lost \in [Sessions -> SUBSET Nat]
        /\ inflight \in [Tasks -> Nat]
        /\ receiver \subseteq Sessions
        /\ \A u \in Tasks : sess[u] \in Sessions \cup {NoSession}
        /\ \A u \in Tasks : relay[u] # "none" => sess[u] \in Sessions
        /\ \A u \in Tasks : inflight[u] # 0 => relay[u] = "running"
    BY DEF TypeInv, TypeOK, Attached
  <1>1. ASSUME NEW t \in Tasks, Send(t) PROVE AllAccounted'
    <2>0. PICK s \in Sessions : s = sess[t]
      BY <1>1 DEF Send, Calling, TypeInv, TypeOK
    <2>. DEFINE n == nsent[s]
    <2>1. /\ UNCHANGED <<delivered, inflight, sess, receiver>>
          /\ \/ UNCHANGED <<nsent, clt, lost>>
             \/ /\ nsent' = [nsent EXCEPT ![s] = n + 1]
                /\ clt' = [clt EXCEPT ![s] = SendTo(clt[s], n + 1)]
                /\ lost' = [lost EXCEPT ![s] = @ \cup Overwritten(clt[s])]
      BY <1>1, <2>0 DEF Send, conn
    <2>2. \A r \in Sessions : Flight(r)' = Flight(r)
      BY <2>1 DEF Flight
    <2>3. CASE UNCHANGED <<nsent, clt, lost>>
      BY <2>1, <2>2, <2>3 DEF AllAccounted, Accounted, Flight
    <2>4. CASE /\ nsent' = [nsent EXCEPT ![s] = n + 1]
               /\ clt' = [clt EXCEPT ![s] = SendTo(clt[s], n + 1)]
               /\ lost' = [lost EXCEPT ![s] = @ \cup Overwritten(clt[s])]
      <3>1. ASSUME NEW r \in receiver, r # s PROVE Accounted(r)'
        <4>1. /\ nsent'[r] = nsent[r] /\ clt'[r] = clt[r] /\ lost'[r] = lost[r]
              /\ delivered'[r] = delivered[r] /\ Flight(r)' = Flight(r)
          BY <1>0, <2>1, <2>2, <2>4, <3>1
        <4>. QED
          BY <4>1 DEF AllAccounted, Accounted
      <3>2. ASSUME s \in receiver PROVE Accounted(s)'
        <4>1. /\ nsent'[s] = n + 1 /\ clt'[s].q = SendTo(clt[s], n + 1).q
              /\ lost'[s] = lost[s] \cup Overwritten(clt[s])
              /\ delivered'[s] = delivered[s] /\ Flight(s)' = Flight(s)
          BY <1>0, <2>1, <2>2, <2>4
        <4>2. n \in Nat /\ n + 1 \in Nat /\ clt[s] \in Channel(Nat)
          BY <1>0
        <4>3. Elements(SendTo(clt[s], n + 1).q) \cup Overwritten(clt[s])
                = Elements(clt[s].q) \cup {n + 1}
          BY <4>2, ElementsSend
        <4>4. 1..(n + 1) = (1..n) \cup {n + 1}
          BY <4>2
        <4>5. 1..n = Elements(delivered[s]) \cup Elements(clt[s].q) \cup Flight(s)
                        \cup lost[s]
          BY <3>2 DEF AllAccounted, Accounted
        <4>6. 1..(n + 1) = Elements(delivered[s]) \cup Elements(SendTo(clt[s], n + 1).q)
                             \cup Flight(s) \cup (lost[s] \cup Overwritten(clt[s]))
          BY <4>3, <4>4, <4>5, Zenon
        <4>. QED
          BY <4>1, <4>6 DEF Accounted
      <3>. QED
        BY <2>1, <3>1, <3>2 DEF AllAccounted
    <2>. QED
      BY <2>1, <2>3, <2>4
  <1>2. ASSUME NEW t \in Tasks, RelayTakes(t) PROVE AllAccounted'
    <2>0. PICK s \in Sessions : s = sess[t]
      BY <1>0, <1>2 DEF RelayTakes, Idle
    <2>. DEFINE v == Head(clt[s].q)
    <2>1. /\ inflight[t] = 0 /\ clt[s].q # <<>>
          /\ inflight' = [inflight EXCEPT ![t] = v]
          /\ clt' = [clt EXCEPT ![s] = Received(clt[s])]
          /\ UNCHANGED <<nsent, delivered, lost, sess, receiver>>
      BY <1>2, <2>0 DEF RelayTakes, Idle, CanReceive, conn
    <2>2. clt[s].q \in Seq(Nat) /\ v \in Nat
      BY <1>0, <2>1 DEF Channel
    <2>3. /\ \A r \in Sessions : r # s => Flight(r)' = Flight(r)
          /\ Flight(s)' = Flight(s) \cup ({v} \ {0})
      <3>1. /\ \A r \in Sessions : r # sess[t] => Flight(r)' = Flight(r)
            /\ \/ Flight(sess[t])' \cup ({inflight[t]} \ {0})
                       = Flight(sess[t]) \cup ({v} \ {0})
               \/ ~(inflight[t] = 0 \/ v = 0)
        BY <1>0, <2>1, <2>2, FlightMoves
      <3>. QED
        BY <2>0, <2>1, <3>1
    <2>4. ASSUME NEW r \in receiver, r # s PROVE Accounted(r)'
      <3>1. /\ nsent'[r] = nsent[r] /\ clt'[r] = clt[r] /\ lost'[r] = lost[r]
            /\ delivered'[r] = delivered[r] /\ Flight(r)' = Flight(r)
        BY <1>0, <2>1, <2>3, <2>4
      <3>. QED
        BY <3>1 DEF AllAccounted, Accounted
    <2>5. ASSUME s \in receiver PROVE Accounted(s)'
      <3>1. /\ nsent'[s] = nsent[s] /\ clt'[s].q = Tail(clt[s].q)
            /\ lost'[s] = lost[s] /\ delivered'[s] = delivered[s]
        BY <1>0, <2>1 DEF Received
      <3>2. 1..nsent[s] = Elements(delivered[s]) \cup Elements(clt[s].q) \cup Flight(s)
                             \cup lost[s]
        BY <2>5 DEF AllAccounted, Accounted
      <3>3. Elements(clt[s].q) = {v} \cup Elements(Tail(clt[s].q))
        BY <2>1, <2>2, ElementsTail
      <3>4. v \in 1..nsent[s]
        BY <3>2, <3>3
      <3>5. {v} \ {0} = {v}
        BY <3>4, <1>0
      <3>6. 1..nsent[s] = Elements(delivered[s]) \cup Elements(Tail(clt[s].q))
                            \cup (Flight(s) \cup {v}) \cup lost[s]
        BY <3>2, <3>3, Zenon
      <3>. QED
        BY <2>3, <3>1, <3>5, <3>6 DEF Accounted
    <2>. QED
      BY <2>1, <2>4, <2>5 DEF AllAccounted
  <1>3. ASSUME NEW t \in Tasks, RelayDelivers(t) \/ RelaySinkFails(t)
        PROVE  AllAccounted'
    <2>. DEFINE v == inflight[t]
    <2>0. PICK s \in Sessions : s = sess[t]
      BY <1>0, <1>3 DEF RelayDelivers, RelaySinkFails
    <2>1. /\ v # 0
          /\ inflight' = [inflight EXCEPT ![t] = 0]
          /\ UNCHANGED <<nsent, clt, sess, receiver>>
          /\ \/ /\ delivered' = [delivered EXCEPT ![s] = Append(delivered[s], v)]
                /\ lost' = lost
             \/ /\ lost' = [lost EXCEPT ![s] = lost[s] \cup {v}]
                /\ delivered' = delivered
      BY <1>3, <2>0 DEF RelayDelivers, RelaySinkFails, conn
    <2>2. v \in Nat /\ delivered[s] \in Seq(Nat)
      BY <1>0
    <2>3. /\ \A r \in Sessions : r # s => Flight(r)' = Flight(r)
          /\ Flight(s)' \cup {v} = Flight(s)
      <3>1. /\ \A r \in Sessions : r # sess[t] => Flight(r)' = Flight(r)
            /\ \/ Flight(sess[t])' \cup ({v} \ {0})
                       = Flight(sess[t]) \cup ({0} \ {0})
               \/ ~(v = 0 \/ 0 = 0)
        BY <1>0, <2>1, FlightMoves
      <3>. QED
        BY <2>0, <2>1, <3>1
    <2>4. ASSUME NEW r \in receiver, r # s PROVE Accounted(r)'
      <3>1. /\ nsent'[r] = nsent[r] /\ clt'[r] = clt[r] /\ lost'[r] = lost[r]
            /\ delivered'[r] = delivered[r] /\ Flight(r)' = Flight(r)
        BY <1>0, <2>1, <2>3, <2>4
      <3>. QED
        BY <3>1 DEF AllAccounted, Accounted
    <2>5. ASSUME s \in receiver PROVE Accounted(s)'
      <3>1. Elements(delivered'[s]) \cup lost'[s]
              = Elements(delivered[s]) \cup lost[s] \cup {v}
        <4>1. Elements(Append(delivered[s], v)) = Elements(delivered[s]) \cup {v}
          BY <2>2, ElementsAppend
        <4>2. \/ /\ delivered'[s] = Append(delivered[s], v) /\ lost'[s] = lost[s]
              \/ /\ delivered'[s] = delivered[s] /\ lost'[s] = lost[s] \cup {v}
          BY <1>0, <2>1
        <4>. QED
          BY <4>1, <4>2
      <3>2. 1..nsent[s] = Elements(delivered[s]) \cup Elements(clt[s].q) \cup Flight(s)
                             \cup lost[s]
        BY <2>5 DEF AllAccounted, Accounted
      <3>3. 1..nsent[s] = Elements(delivered'[s]) \cup Elements(clt[s].q)
                             \cup Flight(s)' \cup lost'[s]
        BY <2>3, <3>1, <3>2
      <3>4. nsent'[s] = nsent[s] /\ clt'[s].q = clt[s].q
        BY <2>1
      <3>. QED
        BY <3>3, <3>4 DEF Accounted
    <2>. QED
      BY <2>1, <2>4, <2>5 DEF AllAccounted
  <1>4. ASSUME NEW t \in Tasks, RelayLagged(t) PROVE AllAccounted'
    <2>1. /\ UNCHANGED <<nsent, delivered, lost, inflight, sess, receiver>>
          /\ clt' = [clt EXCEPT ![sess[t]] = LagReported(clt[sess[t]])]
      BY <1>4 DEF RelayLagged, conn
    <2>2. \A r \in Sessions : clt'[r].q = clt[r].q
      BY <1>0, <2>1 DEF LagReported
    <2>3. \A r \in Sessions : Flight(r)' = Flight(r)
      BY <2>1 DEF Flight
    <2>. QED
      BY <1>0, <2>1, <2>2, <2>3 DEF AllAccounted, Accounted
  <1>5. ASSUME NEW t \in Tasks, NEW s \in Sessions, New(t, s) \/ Find(t, s)
        PROVE  AllAccounted'
    <2>1. /\ UNCHANGED <<up, receiver>> /\ pc[t] = "idle"
          /\ \A u \in Tasks : u # t => sess'[u] = sess[u]
      <3>1. DOMAIN sess = Tasks
        BY DEF TypeInv, TypeOK
      <3>2. CASE New(t, s)
        BY <3>1, <3>2 DEF New, conn
      <3>3. CASE Find(t, s)
        BY <3>1, <3>3 DEF Find, conn
      <3>. QED
        BY <1>5, <3>2, <3>3
    <2>2. inflight[t] = 0
      BY <1>0, <2>1 DEF TypeInv, Attached
    <2>3. \A r \in Sessions : Flight(r)' = Flight(r)
      BY <1>0, <2>1, <2>2 DEF Flight, up
    <2>. QED
      BY <1>0, <2>1, <2>3 DEF AllAccounted, Accounted, up
  <1>6. \/ \E t \in Tasks : \/ Send(t) \/ RelayTakes(t) \/ RelayDelivers(t)
                            \/ RelaySinkFails(t) \/ RelayLagged(t)
                            \/ \E s \in Sessions : New(t, s) \/ Find(t, s)
        \/ UNCHANGED <<up, sess>> /\ receiver' \subseteq receiver
    <2>. USE DEF conn
    <2>1. ASSUME NEW t \in Tasks, NEW k \in Kinds,
                 GuardStream(t, k) \/ TakeStream(t, k) \/ DropStream(t, k)
          PROVE  UNCHANGED <<up, sess>> /\ receiver' \subseteq receiver
      BY <2>1 DEF GuardStream, TakeStream, DropStream
    <2>2. ASSUME NEW t \in Tasks,
                 \/ Insert(t) \/ EnsureStarted(t) \/ IsStarted(t) \/ Start(t)
                 \/ Take(t) \/ Connect(t) \/ ConnectFails(t)
          PROVE  UNCHANGED <<up, sess>> /\ receiver' \subseteq receiver
      BY <2>2 DEF Insert, EnsureStarted, IsStarted, Start, Take, Connect,
                  ConnectFails
    <2>3. ASSUME NEW t \in Tasks,
                 \/ RelayFromServer(t) \/ UpstreamCloses(t) \/ RelayStops(t)
                 \/ Restore(t)
          PROVE  UNCHANGED <<up, sess>> /\ receiver' \subseteq receiver
      BY <2>3 DEF RelayFromServer, UpstreamCloses, RelayStops, Restore
    <2>4. ASSUME NEW t \in Tasks,
                 \/ Park(t) \/ GuardTimesOut(t) \/ GuardClose(t)
                 \/ GuardCancels(t) \/ Drop(t)
          PROVE  UNCHANGED <<up, sess>> /\ receiver' \subseteq receiver
      BY <2>4 DEF Park, GuardTimesOut, GuardClose, GuardCancels, Drop
    <2>5. ASSUME NEW t \in Tasks,
                 \/ Stop(t) \/ StopSignals(t) \/ StopTimesOut(t) \/ Close(t)
                 \/ CloseCancels(t) \/ BypassSend(t) \/ Recv(t)
          PROVE  UNCHANGED <<up, sess>> /\ receiver' \subseteq receiver
      BY <2>5 DEF Stop, StopSignals, StopTimesOut, Close, CloseCancels,
                  BypassSend, Recv
    <2>6. ASSUME NEW s \in Sessions,
                 Cleanup(s) \/ \E k \in Kinds : ReturnStream(k, s)
          PROVE  UNCHANGED <<up, sess>> /\ receiver' \subseteq receiver
      BY <2>6 DEF Cleanup, ReturnStream
    <2>7. CASE Shutdown
      BY <2>7 DEF Shutdown
    <2>8. CASE UNCHANGED vars
      BY <2>8 DEF vars
    <2>. HIDE DEF conn
    <2>. QED
      BY <2>1, <2>2, <2>3, <2>4, <2>5, <2>6, <2>7, <2>8 DEF Step
  <1>7. CASE UNCHANGED <<up, sess>> /\ receiver' \subseteq receiver
    <2>1. \A r \in Sessions : Flight(r)' = Flight(r)
      BY <1>7 DEF Flight, up
    <2>. QED
      BY <1>0, <1>7, <2>1 DEF AllAccounted, Accounted, up
  <1>. QED
    BY <1>1, <1>2, <1>3, <1>4, <1>5, <1>6, <1>7

\* A client message that Upstream::send accepted stays accounted for across every
\* start, stop and restart of the relay: only a full channel or a failing sink
\* loses it.
THEOREM NothingLost == Spec => []NothingElseLost
  <1>1. Init => TypeInv /\ AllAccounted
    BY InitType, InitAccounted
  <1>2. TypeInv /\ AllAccounted /\ [Next]_vars => TypeInv' /\ AllAccounted'
    BY NextIsStep, StepType, StepAccounted
  <1>. QED
    BY <1>1, <1>2, PlacesNamed, PTL DEF Spec
=============================================================================
