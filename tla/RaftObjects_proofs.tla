------------------------- MODULE RaftObjects_proofs -------------------------
(***************************************************************************)
(* Machine-checked proofs about the RaftSession objects of a cluster, for  *)
(* any cluster, any set of objects and any callers, with crashes and       *)
(* failing calls: their types, the ends of their channels, that the        *)
(* requests for one session on one node share one object, and the order of *)
(* the client messages that the objects of a session pass to each other.   *)
(*                                                                         *)
(* Most steps of the cluster do to the objects what a step of the          *)
(* standalone manager does, so what was proved of those is used again; the *)
(* others have one of a few effects, named below.                          *)
(***************************************************************************)
EXTENDS RaftCluster_proofs, SessionPipes_proofs

-----------------------------------------------------------------------------
(***************************************************************************)
(* What the steps of the cluster do to the objects.                        *)
(***************************************************************************)

\* create and find give an idle task its object, perhaps a new one.
Obtains(t, s) ==
    /\ pc[t] = "idle"
    /\ \/ s \in created /\ UNCHANGED <<created, cancelled, sessions>>
       \/ /\ BuildObject(s)
          /\ sessions' = sessions \/ sessions' = sessions \cup {s}
    /\ sess' = [sess EXCEPT ![t] = s]
    /\ Goto(t, "insert") \/ Goto(t, "Ok")
    /\ UNCHANGED <<shutdown, swept, conn, up, down, slot, guard>>

\* A call goes on, or ends with an error.
Turns(t, p) ==
    /\ Goto(t, p)
    /\ \/ p \in Errors /\ pc[t] # "connect"
       \/ p \in {"Ok", "close"} /\ pc[t] \in {"Ok", "close"}
       \/ p = "take" /\ pc[t] = "take"
    /\ UNCHANGED <<local, sess>>

\* Objects leave the map, and tokens are cancelled.
Clears ==
    /\ sessions' \subseteq sessions
    /\ cancelled \subseteq cancelled' /\ cancelled' \subseteq created
    /\ UNCHANGED <<shutdown, created, swept, conn, up, down, slot, guard, pc,
                   sess>>

\* A relay sends an event's message to its clients.
Emits(s) ==
    /\ Emit(s)
    /\ UNCHANGED <<manager, conn, up, seen, slot, guard, pc, sess>>

\* The state of objects and tasks that RaftCluster shares with StandaloneSession
\* changes in one of these ways.
ObjectStep ==
    \/ [Step]_vars
    \/ \E t \in Tasks, s \in Sessions : Obtains(t, s)
    \/ \E t \in Tasks, p \in Phases : Turns(t, p)
    \/ Clears
    \/ \E t \in Tasks : GuardsClose(t)
    \/ \E s \in Sessions : Emits(s)
    \/ \E n \in Nodes : Crash(n)

\* An event loop takes only created objects out, and a relay with an event in
\* hand has a session.
HandInv ==
    /\ \A n \in Nodes : deleting[n] # Nobody => deleting[n] \in created
    /\ \A t \in Tasks : hand[t] # NoEvent => sess[t] # NoSession

\* The steps of callers.
LEMMA CallIsObjectStep ==
    ASSUME ElectInv, TypeInv, NEW t \in Tasks, RCalls(t)
    PROVE  ObjectStep
  <1>0. /\ CoreType /\ AwaitsWithin(t) /\ KnowsId(t)
        /\ pc \in [Tasks -> Phases] /\ sess \in [Tasks -> created \cup {NoSession}]
    BY DEF ElectInv, TaskInv, CoreType
  <1>1. CASE \/ IsStartedAndAfter(t) \/ Begins(t) \/ Takes(t)
             \/ MainConnectFails(t) \/ StopsRelay(t) \/ Traffic(t)
             \/ CreateInserts(t) \/ Drops(t)
    BY <1>1
    DEF IsStartedAndAfter, Begins, Takes, MainConnectFails, StopsRelay, Traffic,
        CreateInserts, Drops, ObjectStep, Step
  <1>2. CASE Streams(t)
    BY <1>2 DEF Streams, ObjectStep, Step
  <1>3. CASE Locks(t) \/ Puts(t) \/ Deletes(t)
    BY <1>3 DEF Locks, Puts, Deletes, ObjectStep, local, vars
  <1>4. CASE GuardsClose(t)
    BY <1>4 DEF ObjectStep
  <1>5. ASSUME NEW e \in Errors, Goto(t, e), UNCHANGED <<local, sess>>,
               pc[t] # "connect"
        PROVE  ObjectStep
    BY <1>5 DEF Turns, ObjectStep, Phases
  <1>6. CASE RpcFails(t)
    <2>1. pc[t] # "connect"
      BY <1>0, <1>6 DEF RpcFails, AwaitsWithin
    <2>. QED
      BY <1>5, <1>6, <2>1 DEF RpcFails, Fails, Errors
  <1>7. CASE Gets(t)
    <2>1. CASE Fails(t, "AlreadyClosed")
      <3>1. pc[t] # "connect"
        BY <1>0, <1>7 DEF Gets, AwaitsWithin
      <3>. QED
        BY <1>5, <2>1, <3>1 DEF Fails, Errors
    <2>2. CASE UNCHANGED <<local, pc, sess>>
      BY <2>2 DEF ObjectStep, local, vars
    <2>. QED
      BY <1>7, <2>1, <2>2 DEF Gets
  <1>8. CASE ChecksAgain(t)
    <2>1. pc[t] = "take"
      BY <1>0, <1>8 DEF ChecksAgain, AwaitsWithin
    <2>2. CASE Goto(t, "AlreadyClosed")
      BY <1>5, <1>8, <2>1, <2>2 DEF ChecksAgain, Errors
    <2>3. CASE Goto(t, "take")
      BY <1>8, <2>1, <2>3
      DEF ChecksAgain, Turns, ObjectStep, Phases, Waiting
    <2>. QED
      BY <1>8, <2>2, <2>3 DEF ChecksAgain, CheckToken
  <1>9. CASE Closes(t)
    BY <1>9 DEF Closes, Calling, Turns, ObjectStep, Phases, Waiting
  <1>10. CASE NotifiesDelete(t)
    <2>1. pc[t] = "close"
      BY <1>0, <1>10 DEF NotifiesDelete, AwaitsWithin
    <2>. QED
      BY <1>10, <2>1 DEF NotifiesDelete, Turns, ObjectStep, Phases
  <1>11. ASSUME NEW i \in Ids, FindGets(t, i) PROVE ObjectStep
    <2>1. pc[t] # "connect"
      BY <1>11 DEF FindGets
    <2>2. CASE UNCHANGED pc
      BY <1>11, <2>2 DEF FindGets, ObjectStep, local, vars
    <2>. QED
      BY <1>5, <1>11, <2>1, <2>2 DEF FindGets, Errors
  <1>12. CASE FindLooks(t)
    <2>1. CASE UNCHANGED <<local, pc, sess>>
      BY <2>1 DEF ObjectStep, local, vars
    <2>2. ASSUME NEW s \in InMap(NodeOf[t], goal[t]), Found(t, s),
                 UNCHANGED local
          PROVE  ObjectStep
      <3>1. pc[t] = "idle" /\ s \in created /\ s \in Sessions
        BY <1>0, <1>12, <2>2 DEF FindLooks, AwaitsWithin, InMap, CoreType
      <3>. QED
        BY <2>2, <3>1 DEF Found, Obtains, ObjectStep, local, manager
    <2>. QED
      BY <1>12, <2>1, <2>2 DEF FindLooks
  <1>13. ASSUME NEW s \in Sessions, FindInserts(t, s) PROVE ObjectStep
    <2>1. pc[t] = "idle"
      BY <1>0, <1>13 DEF FindInserts, AwaitsWithin
    <2>2. s \in InMap(NodeOf[t], goal[t]) => s \in created
      BY <1>0 DEF InMap, CoreType
    <2>. QED
      BY <1>13, <2>1, <2>2 DEF FindInserts, Found, Obtains, ObjectStep
  <1>14. ASSUME NEW s \in Sessions, Create(t, s) PROVE ObjectStep
    BY <1>14 DEF Create, Obtains, ObjectStep
  <1>. QED
    BY <1>1, <1>2, <1>3, <1>4, <1>6, <1>7, <1>8, <1>9, <1>10, <1>11, <1>12, <1>13,
       <1>14 DEF RCalls

\* The steps of relays and nodes.
LEMMA NodeIsObjectStep ==
    ASSUME TypeInv, HandInv,
           \/ \E t \in Tasks : RRelay(t) \/ GuardCloses(t)
           \/ \E k \in Kinds, s \in Sessions : StreamReturns(k, s)
           \/ \E n \in Nodes :
                EventLoop(n) \/ EventLoopCancels(n) \/ Halt(n) \/ Crash(n)
           \/ UNCHANGED rvars
    PROVE  ObjectStep
  <1>0. /\ created \subseteq Sessions /\ cancelled \subseteq created
        /\ sess \in [Tasks -> created \cup {NoSession}]
    BY DEF TypeInv, TypeOK
  <1>1. ASSUME NEW t \in Tasks, RRelay(t) PROVE ObjectStep
    <2>1. CASE \/ RelayReceives(t) \/ HandsOn(t) \/ HandOnFails(t)
               \/ RelayLeaves(t) \/ RelayRestores(t)
      BY <2>1 DEF RelayReceives, HandsOn, HandOnFails, RelayLeaves,
                  RelayHearsStop, ServerHangsUp,
                  RelayRestores, ObjectStep, Step
    <2>2. CASE MainHears(t) \/ MainPosts(t) \/ ServerSends(t) \/ HearsLagged(t)
      BY <2>2 DEF MainHears, MainPosts, ServerSends, HearsLagged, ObjectStep
    <2>3. CASE MainNotifies(t)
      <3>1. hand[t] # NoEvent
        BY <2>3 DEF MainNotifies, NoEvent
      <3>2. sess[t] \in Sessions
        BY <1>0, <3>1 DEF HandInv
      <3>. QED
        BY <2>3, <3>2 DEF MainNotifies, Emits, ObjectStep
    <2>4. CASE SubHears(t)
      <3>1. sess[t] \in Sessions
        BY <1>0, <2>4 DEF SubHears, Idle, TypeInv, Attached
      <3>2. CASE Emit(sess[t])
        BY <2>4, <3>1, <3>2 DEF SubHears, Emits, ObjectStep
      <3>3. CASE UNCHANGED <<svr, nemit>>
        BY <2>4, <3>3 DEF SubHears, ObjectStep, vars, down
      <3>. QED
        BY <2>4, <3>2, <3>3 DEF SubHears
    <2>. QED
      BY <1>1, <2>1, <2>2, <2>3, <2>4 DEF RRelay
  <1>2. ASSUME NEW t \in Tasks, GuardCloses(t) PROVE ObjectStep
    BY <1>2 DEF GuardCloses, ObjectStep, Step
  <1>3. ASSUME NEW k \in Kinds, NEW s \in Sessions, StreamReturns(k, s)
        PROVE  ObjectStep
    BY <1>3 DEF StreamReturns, ObjectStep, Step
  <1>4. ASSUME NEW n \in Nodes, EventLoop(n) \/ EventLoopCancels(n) \/ Halt(n)
        PROVE  ObjectStep
    <2>1. Clears
      BY <1>0, <1>4 DEF EventLoop, EventLoopCancels, Halt, Clears, HandInv
    <2>. QED
      BY <2>1 DEF ObjectStep
  <1>. QED
    BY <1>1, <1>2, <1>3, <1>4 DEF ObjectStep, rvars

\* Every step of the cluster has one of these effects.
LEMMA ClusterIsObjectStep ==
    ElectInv /\ TypeInv /\ HandInv /\ [RNext]_rvars => ObjectStep
  BY CallIsObjectStep, NodeIsObjectStep DEF RNext

-----------------------------------------------------------------------------
(***************************************************************************)
(* Types.                                                                  *)
(***************************************************************************)

\* Every effect keeps the types of objects and tasks.
LEMMA ObjectStepType == TypeInv /\ ObjectStep => TypeInv'
  <1>. SUFFICES ASSUME TypeInv, ObjectStep PROVE TypeInv'
    OBVIOUS
  <1>. USE TaskAssumption DEF manager, conn, up, down
  <1>1. CASE [Step]_vars
    BY <1>1, StepType
  <1>2. ASSUME NEW t \in Tasks, NEW s \in Sessions, Obtains(t, s) PROVE TypeInv'
    <2>1. sess[t] = NoSession /\ relay[t] = "none" /\ guard[t] = "none"
            /\ inflight[t] = 0
      BY <1>2 DEF Obtains, TypeInv, TypeOK, Attached
    <2>2. /\ created \subseteq created' /\ s \in created'
          /\ created' \subseteq Sessions
          /\ sessions' \subseteq created' /\ cancelled' \subseteq created'
          /\ cancelled \subseteq cancelled'
      BY <1>2 DEF Obtains, BuildObject, TypeInv, TypeOK
    <2>3. PICK p \in {"insert", "Ok"} : pc' = [pc EXCEPT ![t] = p]
      BY <1>2 DEF Obtains, Goto
    <2>4. /\ sess' = [sess EXCEPT ![t] = s]
          /\ UNCHANGED <<shutdown, swept, conn, up, down, slot, guard>>
      BY <1>2 DEF Obtains
    <2>5. TypeOK'
      BY <2>2, <2>3, <2>4 DEF TypeInv, TypeOK, Phases, Waiting
    <2>6. Attached'
      BY <2>1, <2>3, <2>4 DEF TypeInv, TypeOK, Attached
    <2>. QED
      BY <2>5, <2>6 DEF TypeInv
  <1>3. ASSUME NEW t \in Tasks, NEW p \in Phases, Turns(t, p) PROVE TypeInv'
    <2>1. /\ pc' = [pc EXCEPT ![t] = p]
          /\ UNCHANGED <<manager, conn, up, down, slot, guard, sess>>
      BY <1>3 DEF Turns, Goto, local
    <2>2. p \in {"Ok"} \cup Waiting => sess[t] # NoSession
      BY <1>3 DEF Turns, TypeInv, TypeOK, Waiting, Errors, Kinds
    <2>3. /\ p # "idle"
          /\ p \in {"is_started", "start", "take", "connect"} => relay[t] = "none"
      BY <1>3 DEF Turns, TypeInv, Attached, Errors
    <2>. QED
      BY <2>1, <2>2, <2>3 DEF TypeInv, TypeOK, Attached
  <1>4. CASE Clears
    BY <1>4 DEF Clears, TypeInv, TypeOK, Attached
  <1>5. ASSUME NEW t \in Tasks, GuardsClose(t) PROVE TypeInv'
    BY <1>5 DEF GuardsClose, Calling, TypeInv, TypeOK, Attached
  <1>6. ASSUME NEW s \in Sessions, Emits(s) PROVE TypeInv'
    <2>1. SendTo(svr[s], nemit[s] + 1) \in Channel(Nat)
      BY SendToType DEF TypeInv, TypeOK
    <2>. QED
      BY <1>6, <2>1 DEF Emits, Emit, TypeInv, TypeOK, Attached
  <1>7. ASSUME NEW n \in Nodes, Crash(n) PROVE TypeInv'
    <2>. DEFINE mine == {t \in Tasks : NodeOf[t] = n
                                       /\ (pc[t] # "idle" \/ rpc[t] # "none")}
                objects == {s \in created : Home[s] = n}
    <2>1. /\ pc' = [t \in Tasks |-> IF t \in mine THEN "dropped" ELSE pc[t]]
          /\ relay' = [t \in Tasks |-> IF t \in mine /\ relay[t] # "none"
                                       THEN "exited" ELSE relay[t]]
          /\ guard' = [t \in Tasks |-> IF t \in mine /\ guard[t] # "none"
                                       THEN "notified" ELSE guard[t]]
          /\ inflight' = [t \in Tasks |-> IF t \in mine THEN 0 ELSE inflight[t]]
      BY <1>7 DEF Crash
    <2>2. /\ receiver' \subseteq receiver /\ sessions' \subseteq sessions
          /\ cancelled' = cancelled \cup objects
          /\ slot' = [k \in Kinds |-> [s \in Sessions |->
                         IF s \in objects THEN InSlot ELSE slot[k][s]]]
          /\ UNCHANGED <<shutdown, created, swept, connection, stop_ct, clt,
                         nsent, delivered, lost, down, sess>>
      BY <1>7 DEF Crash
    <2>. HIDE DEF mine
    <2>3. TypeOK'
      BY <2>1, <2>2 DEF TypeInv, TypeOK, Phases, Waiting, Kinds
    <2>4. Attached'
      BY <2>1, <2>2 DEF TypeInv, TypeOK, Attached
    <2>. QED
      BY <2>3, <2>4 DEF TypeInv
  <1>. HIDE DEF manager, conn, up, down
  <1>. QED
    BY <1>1, <1>2, <1>3, <1>4, <1>5, <1>6, <1>7 DEF ObjectStep

\* Types of the events and of what carries them.
WireTypes ==
    /\ bus \in [Nodes -> Seq(Event)]
    /\ halted \subseteq Nodes
    /\ deleting \in [Nodes -> created \cup {Nobody}]
    /\ role \in [Tasks -> {"none", "main", "sub"}]
    /\ inbox \in [Tasks -> Channel(Event)]
    /\ hand \in [Tasks -> Event]
    /\ got \in [Tasks -> Seq(Message)]
    /\ \A t \in Tasks : hand[t] # NoEvent => sess[t] # NoSession

wires == <<bus, halted, deleting, role, inbox, hand, got>>

\* The events that tasks and relays make are events.
LEMMA EventTypes ==
    ASSUME NEW i \in Ids, NEW s \in Sessions, NEW n \in Nat
    PROVE  /\ DeleteSession(i) \in Event /\ NotifyToSub(i) \in Event
           /\ NotifyToMain(i, s, n) \in Event /\ NoEvent \in Event
           /\ <<s, n>> \in Message
  BY DEF DeleteSession, NotifyToSub, NotifyToMain, NoEvent, NoMessage, Event,
         Message

\* Publishing an event leaves queues of events.
LEMMA PublishType ==
    ASSUME bus \in [Nodes -> Seq(Event)], NEW e \in Event, Publish(e)
    PROVE  bus' \in [Nodes -> Seq(Event)]
  BY DEF Publish

\* Objects stay created, tokens cancelled and tasks with their objects.
LEMMA ObjectStepLasting ==
    ASSUME TypeInv, ObjectStep
    PROVE  /\ created \subseteq created' /\ cancelled \subseteq cancelled'
           /\ \A t \in Tasks : sess[t] # NoSession => sess'[t] = sess[t]
  <1>. DEFINE Goal == /\ created \subseteq created' /\ cancelled \subseteq cancelled'
                      /\ \A t \in Tasks : sess[t] # NoSession => sess'[t] = sess[t]
  <1>1. CASE [Step]_vars
    BY <1>1, StepLasting DEF Lasting
  <1>2. ASSUME NEW t \in Tasks, NEW s \in Sessions, Obtains(t, s) PROVE Goal
    <2>1. /\ sess[t] = NoSession /\ sess' = [sess EXCEPT ![t] = s]
          /\ DOMAIN sess = Tasks
      BY <1>2 DEF Obtains, TypeInv, TypeOK, Attached
    <2>2. created \subseteq created' /\ cancelled \subseteq cancelled'
      BY <1>2 DEF Obtains, BuildObject
    <2>. QED
      BY <2>1, <2>2
  <1>3. ASSUME NEW t \in Tasks, NEW p \in Phases, Turns(t, p) PROVE Goal
    BY <1>3 DEF Turns, local, manager
  <1>4. CASE Clears
    BY <1>4 DEF Clears
  <1>5. ASSUME NEW t \in Tasks, GuardsClose(t) PROVE Goal
    BY <1>5 DEF GuardsClose, manager
  <1>6. ASSUME NEW s \in Sessions, Emits(s) PROVE Goal
    BY <1>6 DEF Emits, manager
  <1>7. ASSUME NEW n \in Nodes, Crash(n) PROVE Goal
    BY <1>7 DEF Crash
  <1>. QED
    BY <1>1, <1>2, <1>3, <1>4, <1>5, <1>6, <1>7 DEF ObjectStep

\* Callers' steps keep the types of events and inboxes.
LEMMA CallWires ==
    ASSUME ElectInv, TypeInv, WireTypes, NEW t \in Tasks, RCalls(t),
           created \subseteq created',
           \A u \in Tasks : sess[u] # NoSession => sess'[u] = sess[u]
    PROVE  WireTypes'
  <1>. DEFINE Rest == UNCHANGED <<halted, deleting, hand, got>>
  <1>0. NewChannel \in Channel(Event)
    BY DEF NewChannel, Channel
  <1>1. ASSUME Rest, bus' \in [Nodes -> Seq(Event)],
               role' \in [Tasks -> {"none", "main", "sub"}],
               inbox' \in [Tasks -> Channel(Event)]
        PROVE  WireTypes'
    BY <1>1 DEF WireTypes
  <1>2. CASE \/ \E s \in Sessions : Create(t, s) \/ FindInserts(t, s)
             \/ \E i \in Ids : FindGets(t, i)
             \/ CreateInserts(t) \/ FindLooks(t)
    BY <1>1, <1>2 DEF Create, FindInserts, FindGets, CreateInserts, FindLooks,
                      cluster, raft, WireTypes
  <1>3. CASE \/ IsStartedAndAfter(t) \/ Begins(t) \/ Locks(t) \/ Gets(t)
             \/ ChecksAgain(t) \/ Takes(t) \/ StopsRelay(t)
    BY <1>1, <1>3 DEF IsStartedAndAfter, Begins, Locks, Gets, ChecksAgain, Takes,
                      StopsRelay, cluster, raft, WireTypes
  <1>4. CASE Closes(t) \/ Deletes(t) \/ GuardsClose(t) \/ Streams(t)
             \/ Traffic(t) \/ RpcFails(t)
    BY <1>1, <1>4 DEF Closes, Deletes, GuardsClose, Streams, Traffic, RpcFails,
                      cluster, raft, WireTypes
  <1>5. CASE Puts(t)
    <2>1. role' \in [Tasks -> {"none", "main", "sub"}]
      BY <1>5 DEF Puts, WireTypes
    <2>. QED
      BY <1>1, <1>5, <2>1 DEF Puts, WireTypes
  <1>6. CASE MainConnectFails(t) \/ Drops(t)
    <2>1. inbox' \in [Tasks -> Channel(Event)]
      BY <1>0, <1>6 DEF MainConnectFails, Drops, Unsubscribes, WireTypes
    <2>. QED
      BY <1>1, <1>6, <2>1 DEF MainConnectFails, Drops, cluster, WireTypes
  <1>7. CASE NotifiesDelete(t)
    <2>1. MyId(t) \in Ids
      BY <1>7, ClusterAssumption
      DEF NotifiesDelete, ElectInv, TaskInv, AwaitsWithin, KnowsId, CoreType,
          InUse, Waiting, MyId
    <2>2. DeleteSession(MyId(t)) \in Event
      BY <2>1 DEF DeleteSession, NoMessage, Event, Message
    <2>3. bus' \in [Nodes -> Seq(Event)]
      BY <1>7, <2>2, PublishType DEF NotifiesDelete, WireTypes
    <2>. QED
      BY <1>1, <1>7, <2>3 DEF NotifiesDelete, WireTypes
  <1>. QED
    BY <1>2, <1>3, <1>4, <1>5, <1>6, <1>7 DEF RCalls

\* The relays' steps do.
LEMMA RelayWires ==
    ASSUME TypeInv, WireTypes, NEW t \in Tasks, RRelay(t)
    PROVE  WireTypes'
  <1>0. /\ relay[t] = "running" => sess[t] \in Sessions
        /\ inflight[t] # 0 => relay[t] = "running"
        /\ inflight[t] \in Nat /\ created \subseteq Sessions
        /\ sess \in [Tasks -> created \cup {NoSession}]
        /\ hand[t] \in Event /\ inbox[t] \in Channel(Event)
        /\ NewChannel \in Channel(Event) /\ NoEvent \in Event
    <2>1. /\ relay[t] = "running" => sess[t] \in Sessions
          /\ inflight[t] # 0 => relay[t] = "running"
          /\ inflight[t] \in Nat /\ created \subseteq Sessions
          /\ sess \in [Tasks -> created \cup {NoSession}]
      BY DEF TypeInv, TypeOK, Attached
    <2>2. hand[t] \in Event /\ inbox[t] \in Channel(Event)
      BY DEF WireTypes
    <2>3. NewChannel \in Channel(Event) /\ NoEvent \in Event
      BY DEF NewChannel, Channel, NoEvent, NoMessage, Event, Message
    <2>. QED
      BY <2>1, <2>2, <2>3
  <1>1. sess[t] \in Sessions =>
          /\ MyId(t) \in Ids
          /\ NotifyToSub(MyId(t)) \in Event
          /\ \A n \in Nat : /\ NotifyToMain(MyId(t), sess[t], n) \in Event
                            /\ <<sess[t], n>> \in Message
    BY ClusterAssumption, EventTypes DEF MyId
  <1>2. ASSUME UNCHANGED <<halted, deleting, role, created, sess>>,
               bus' \in [Nodes -> Seq(Event)],
               inbox' \in [Tasks -> Channel(Event)],
               got' \in [Tasks -> Seq(Message)],
               hand' = hand \/ \E e \in Event :
                   /\ hand' = [hand EXCEPT ![t] = e]
                   /\ e = NoEvent \/ sess[t] # NoSession
        PROVE  WireTypes'
    BY <1>2 DEF WireTypes
  <1>. USE DEF cluster, raft, manager
  <1>3. CASE RelayReceives(t) \/ HandOnFails(t) \/ RelayLeaves(t)
    <2>1. UNCHANGED <<wires, created, sess>>
      BY <1>3 DEF RelayReceives, RelayTakes, RelayLagged, HandOnFails,
                  RelaySinkFails, RelayLeaves,
                  RelayHearsStop, ServerHangsUp, RelayStops, UpstreamCloses, wires
    <2>. QED
      BY <1>2, <2>1 DEF wires, WireTypes
  <1>4. CASE RelayRestores(t)
    <2>1. inbox' \in [Tasks -> Channel(Event)]
      BY <1>0, <1>4 DEF RelayRestores, Unsubscribes, WireTypes
    <2>. QED
      BY <1>2, <1>4, <2>1 DEF RelayRestores, Restore, WireTypes
  <1>5. CASE HandsOn(t)
    <2>0. sess[t] \in Sessions
      BY <1>0, <1>5 DEF HandsOn, RelayDelivers
    <2>1. got' \in [Tasks -> Seq(Message)]
      <3>1. <<sess[t], inflight[t]>> \in Message
        BY <1>0, <1>1, <2>0
      <3>2. got[t] \in Seq(Message)
        BY DEF WireTypes
      <3>3. Append(got[t], <<sess[t], inflight[t]>>) \in Seq(Message)
        BY <3>1, <3>2
      <3>. HIDE DEF Message
      <3>. QED
        BY <1>5, <3>3 DEF HandsOn, WireTypes
    <2>2. bus' \in [Nodes -> Seq(Event)]
      <3>1. NotifyToMain(MyId(t), sess[t], inflight[t]) \in Event
        BY <1>0, <1>1, <2>0
      <3>. QED
        BY <1>5, <3>1, PublishType DEF HandsOn, WireTypes
    <2>. QED
      BY <1>2, <1>5, <2>1, <2>2 DEF HandsOn, RelayDelivers, WireTypes
  <1>6. CASE MainHears(t)
    <2>0. /\ sess[t] # NoSession
          /\ Head(inbox[t].q) \in Event /\ Received(inbox[t]) \in Channel(Event)
      BY <1>0, <1>6, ReceivedType DEF MainHears, Idle, TypeInv, Attached
    <2>1. inbox' \in [Tasks -> Channel(Event)]
      BY <1>6, <2>0 DEF MainHears, WireTypes
    <2>. QED
      BY <1>2, <1>6, <2>0, <2>1 DEF MainHears, vars, WireTypes
  <1>7. CASE MainPosts(t)
    <2>1. hand[t].msg \in Message
      BY <1>0 DEF Event
    <2>2. Append(got[t], hand[t].msg) \in Seq(Message)
      BY <2>1 DEF WireTypes
    <2>3. got' \in [Tasks -> Seq(Message)]
      BY <1>7, <2>2 DEF MainPosts, WireTypes
    <2>. QED
      BY <1>0, <1>2, <1>7, <2>3 DEF MainPosts, vars, WireTypes
  <1>8. CASE ServerSends(t)
    <2>1. sess[t] \in Sessions /\ sess[t] # NoSession
      BY <1>0, <1>8 DEF ServerSends, Idle, TypeInv, Attached
    <2>. QED
      BY <1>1, <1>2, <1>8, <2>1 DEF ServerSends, vars, WireTypes
  <1>9. CASE MainNotifies(t)
    <2>1. bus' \in [Nodes -> Seq(Event)]
      BY <1>0, <1>9, PublishType DEF MainNotifies, WireTypes
    <2>. QED
      BY <1>0, <1>2, <1>9, <2>1 DEF MainNotifies, WireTypes
  <1>10. CASE SubHears(t)
    <2>1. Received(inbox[t]) \in Channel(Event)
      BY <1>0, <1>10, ReceivedType DEF SubHears
    <2>2. inbox' \in [Tasks -> Channel(Event)]
      BY <1>10, <2>1 DEF SubHears, WireTypes
    <2>. QED
      BY <1>2, <1>10, <2>2 DEF SubHears, WireTypes
  <1>11. CASE HearsLagged(t)
    <2>1. LagReported(inbox[t]) \in Channel(Event)
      BY <1>0, LagReportedType
    <2>2. inbox' \in [Tasks -> Channel(Event)]
      BY <1>11, <2>1 DEF HearsLagged, WireTypes
    <2>. QED
      BY <1>2, <1>11, <2>2 DEF HearsLagged, vars, WireTypes
  <1>. QED
    BY <1>3, <1>4, <1>5, <1>6, <1>7, <1>8, <1>9, <1>10, <1>11 DEF RRelay

\* The nodes' steps do.
LEMMA NodeWires ==
    ASSUME TypeInv, WireTypes, NEW n \in Nodes,
           EventLoop(n) \/ EventLoopCancels(n) \/ Halt(n) \/ Crash(n)
    PROVE  WireTypes'
  <1>1. CASE EventLoop(n)
    <2>. DEFINE e == Head(bus[n])
                entry == InMap(n, e.id)
    <2>1. e \in Event /\ bus' \in [Nodes -> Seq(Event)]
      <3>1. bus[n] \in Seq(Event) /\ bus[n] # <<>>
        BY <1>1 DEF EventLoop, WireTypes
      <3>2. e \in Event /\ Tail(bus[n]) \in Seq(Event)
        BY <3>1
      <3>. QED
        BY <1>1, <3>2 DEF EventLoop, WireTypes
    <2>. HIDE DEF e
    <2>2. CASE inbox' = inbox
               /\ deleting' = [deleting EXCEPT ![n] =
                                   IF entry = {} THEN Nobody
                                   ELSE CHOOSE s \in entry : TRUE]
      <3>1. entry # {} => (CHOOSE s \in entry : TRUE) \in created
        BY DEF InMap, TypeInv, TypeOK
      <3>. HIDE DEF entry
      <3>2. deleting' \in [Nodes -> created \cup {Nobody}]
        BY <2>2, <3>1 DEF WireTypes
      <3>. QED
        BY <1>1, <2>1, <2>2, <3>2 DEF EventLoop, WireTypes
    <2>3. CASE deleting' = deleting
               /\ inbox' = [t \in Tasks |->
                              IF t \in {u \in Tasks : NodeOf[u] = n /\ HasEnds(u)}
                              THEN SendTo(inbox[t], e) ELSE inbox[t]]
      <3>1. \A t \in Tasks : SendTo(inbox[t], e) \in Channel(Event)
        BY <2>1, SendToType DEF WireTypes
      <3>2. inbox' \in [Tasks -> Channel(Event)]
        BY <2>3, <3>1 DEF WireTypes
      <3>. QED
        BY <1>1, <2>1, <2>3, <3>2 DEF EventLoop, WireTypes
    <2>. QED
      BY <1>1, <2>2, <2>3 DEF EventLoop, e
  <1>2. CASE EventLoopCancels(n) \/ Halt(n)
    BY <1>2 DEF EventLoopCancels, Halt, raft, WireTypes
  <1>3. CASE Crash(n)
    <2>. DEFINE mine == {t \in Tasks : NodeOf[t] = n
                                       /\ (pc[t] # "idle" \/ rpc[t] # "none")}
    <2>1. /\ hand' = [t \in Tasks |-> IF t \in mine THEN NoEvent ELSE hand[t]]
          /\ inbox' = [t \in Tasks |-> IF t \in mine THEN NewChannel ELSE inbox[t]]
          /\ bus' = [bus EXCEPT ![n] = <<>>]
          /\ deleting' = [deleting EXCEPT ![n] = Nobody]
          /\ halted' = halted \ {n}
          /\ UNCHANGED <<role, got, sess, created>>
      BY <1>3 DEF Crash
    <2>. HIDE DEF mine
    <2>2. NoEvent \in Event /\ NewChannel \in Channel(Event) /\ <<>> \in Seq(Event)
      BY DEF NoEvent, NoMessage, Event, Message, NewChannel, Channel
    <2>. QED
      BY <2>1, <2>2 DEF WireTypes
  <1>. QED
    BY <1>1, <1>2, <1>3

\* The invariant the theorems below start from.
RaftInv == ElectInv /\ TypeInv /\ WireTypes

\* It holds initially ...
LEMMA InitRaft == RInit => RaftInv
  <1>. SUFFICES ASSUME RInit PROVE RaftInv
    OBVIOUS
  <1>1. TypeInv
    BY InitType DEF RInit
  <1>2. <<>> \in Seq(Event) /\ <<>> \in Seq(Message) /\ NoEvent \in Event
        /\ NewChannel \in Channel(Event)
    BY DEF NoEvent, NoMessage, Event, Message, NewChannel, Channel
  <1>3. WireTypes
    BY <1>2 DEF RInit, WireTypes
  <1>. QED
    BY <1>1, <1>3, InitElect DEF RaftInv

\* ... and every step keeps it.
LEMMA StepRaft == RaftInv /\ [RNext]_rvars => RaftInv' /\ ObjectStep
  <1>. SUFFICES ASSUME RaftInv, [RNext]_rvars PROVE RaftInv' /\ ObjectStep
    OBVIOUS
  <1>1. ElectInv /\ TypeInv /\ WireTypes /\ HandInv
    BY DEF RaftInv, WireTypes, HandInv
  <1>2. ObjectStep
    BY <1>1, ClusterIsObjectStep
  <1>3. ElectInv' /\ TypeInv'
    BY <1>1, <1>2, StepElect, ObjectStepType
  <1>4. UNCHANGED wires => WireTypes'
    BY <1>1, <1>2, ObjectStepLasting DEF wires, WireTypes
  <1>5. ASSUME NEW t \in Tasks, GuardCloses(t) PROVE UNCHANGED wires
    BY <1>5 DEF GuardCloses, cluster, raft, wires
  <1>6. ASSUME NEW k \in Kinds, NEW s \in Sessions, StreamReturns(k, s)
        PROVE  UNCHANGED wires
    BY <1>6 DEF StreamReturns, cluster, raft, wires
  <1>7. UNCHANGED rvars => UNCHANGED wires
    BY DEF rvars, cluster, raft, wires
  <1>8. WireTypes'
    BY <1>1, <1>2, <1>4, <1>5, <1>6, <1>7, ObjectStepLasting, CallWires,
       RelayWires, NodeWires DEF RNext
  <1>. QED
    BY <1>2, <1>3, <1>8 DEF RaftInv

\* Type correctness of the cluster: store, locks, events and subscriptions hold
\* what they should, and each object's tokens, channel ends and control points
\* fit together as those of a standalone session do, whatever crashes.
THEOREM RaftTypeCorrect == RSpec => []RTypeOK
  <1>1. RaftInv => RTypeOK
    BY ClusterAssumption
    DEF RaftInv, ElectInv, CoreType, TypeInv, TypeOK, WireTypes, RTypeOK
  <1>2. RaftInv /\ [RNext]_rvars => RaftInv'
    BY StepRaft
  <1>. QED
    BY <1>1, <1>2, InitRaft, PTL DEF RSpec

-----------------------------------------------------------------------------
(***************************************************************************)
(* Nodes: a task's object is on its own node, and so is the object an      *)
(* event loop is about to cancel.                                          *)
(***************************************************************************)
OnOwnNode ==
    /\ \A t \in Tasks : sess[t] # NoSession => Home[sess[t]] = NodeOf[t]
    /\ \A n \in Nodes : deleting[n] # Nobody => Home[deleting[n]] = n

\* Every step keeps tasks and event loops to their own node's objects.
LEMMA StepOnOwnNode ==
    ASSUME RaftInv, OnOwnNode, [RNext]_rvars
    PROVE  OnOwnNode'
  <1>0. /\ DOMAIN sess = Tasks /\ DOMAIN deleting = Nodes /\ TypeInv /\ ObjectStep
        /\ sessions \subseteq Sessions
    BY StepRaft DEF RaftInv, TypeInv, TypeOK, WireTypes
  <1>1. ASSUME NEW t \in Tasks, NEW s \in Sessions, Home[s] = NodeOf[t],
               sess' = [sess EXCEPT ![t] = s], deleting' = deleting
        PROVE  OnOwnNode'
    BY <1>0, <1>1 DEF OnOwnNode
  <1>2. ASSUME NEW t \in Tasks, RCalls(t) PROVE OnOwnNode'
    <2>1. ASSUME NEW s \in Sessions, Create(t, s) \/ FindInserts(t, s)
          PROVE  OnOwnNode'
      BY <1>1, <2>1 DEF Create, FindInserts, Found, cluster
    <2>2. CASE FindLooks(t)
      <3>1. CASE UNCHANGED <<sess, deleting>>
        BY <3>1 DEF OnOwnNode
      <3>2. ASSUME NEW s \in InMap(NodeOf[t], goal[t]), Found(t, s),
                   deleting' = deleting
            PROVE  OnOwnNode'
        BY <1>0, <1>1, <3>2 DEF Found, InMap
      <3>. QED
        BY <2>2, <3>1, <3>2 DEF FindLooks, cluster
    <2>3. CASE \/ \E i \in Ids : FindGets(t, i)
               \/ CreateInserts(t) \/ IsStartedAndAfter(t) \/ Begins(t)
               \/ Locks(t) \/ Gets(t) \/ Puts(t) \/ ChecksAgain(t)
      <3>1. UNCHANGED <<sess, deleting>>
        BY <2>3 DEF FindGets, CreateInserts, Insert, IsStartedAndAfter,
                    EnsureStarted, IsStarted, Begins, Start, Stop, Locks, Gets,
                    Fails, Puts, ChecksAgain, cluster
      <3>. QED
        BY <3>1 DEF OnOwnNode
    <2>4. CASE \/ Takes(t) \/ MainConnectFails(t) \/ StopsRelay(t) \/ Closes(t)
               \/ Deletes(t) \/ NotifiesDelete(t) \/ GuardsClose(t)
               \/ RpcFails(t) \/ Drops(t)
      <3>1. UNCHANGED <<sess, deleting>>
        BY <2>4 DEF Takes, Take, Connect, MainConnectFails, ConnectFails,
                    StopsRelay, StopSignals, StopTimesOut, Closes, Deletes,
                    NotifiesDelete, GuardsClose, RpcFails, Fails, Drops, Drop,
                    cluster
      <3>. QED
        BY <3>1 DEF OnOwnNode
    <2>5. CASE Streams(t) \/ Traffic(t)
      <3>1. UNCHANGED <<sess, deleting>>
        BY <2>5 DEF Streams, GuardStream, TakeStream, DropStream, Park,
                    GuardTimesOut, Traffic, Send, BypassSend, Recv, cluster
      <3>. QED
        BY <3>1 DEF OnOwnNode
    <2>. QED
      BY <1>2, <2>1, <2>2, <2>3, <2>4, <2>5 DEF RCalls
  <1>3. ASSUME NEW t \in Tasks, RRelay(t) \/ GuardCloses(t)
        PROVE  UNCHANGED <<sess, deleting>>
    BY <1>3
    DEF RRelay, RelayReceives, RelayTakes, RelayLagged, HandsOn, RelayDelivers,
        HandOnFails, RelaySinkFails, MainHears, MainPosts, ServerSends,
        MainNotifies, SubHears, HearsLagged, RelayLeaves,
        RelayHearsStop, ServerHangsUp, RelayStops,
        UpstreamCloses, RelayRestores, Restore, GuardCloses, GuardCancels, vars,
        cluster
  <1>4. ASSUME NEW k \in Kinds, NEW s \in Sessions, StreamReturns(k, s)
        PROVE  UNCHANGED <<sess, deleting>>
    BY <1>4 DEF StreamReturns, ReturnStream, cluster
  <1>5. ASSUME NEW n \in Nodes, EventLoop(n) PROVE OnOwnNode'
    <2>. DEFINE entry == InMap(n, Head(bus[n]).id)
    <2>1. /\ sess' = sess
          /\ \/ deleting' = deleting
             \/ deleting' = [deleting EXCEPT ![n] =
                                 IF entry = {} THEN Nobody
                                 ELSE CHOOSE s \in entry : TRUE]
      BY <1>5 DEF EventLoop
    <2>2. entry # {} => Home[CHOOSE s \in entry : TRUE] = n
      BY DEF InMap
    <2>. HIDE DEF entry
    <2>. QED
      BY <1>0, <2>1, <2>2 DEF OnOwnNode
  <1>6. ASSUME NEW n \in Nodes, EventLoopCancels(n) \/ Halt(n) \/ Crash(n)
        PROVE  OnOwnNode'
    <2>1. /\ sess' = sess
          /\ deleting' = deleting \/ deleting' = [deleting EXCEPT ![n] = Nobody]
      BY <1>6 DEF EventLoopCancels, Halt, Crash
    <2>. QED
      BY <1>0, <2>1 DEF OnOwnNode
  <1>7. UNCHANGED rvars => UNCHANGED <<sess, deleting>>
    BY DEF rvars, vars, cluster
  <1>8. UNCHANGED <<sess, deleting>> => OnOwnNode'
    BY DEF OnOwnNode
  <1>. QED
    BY <1>2, <1>3, <1>4, <1>5, <1>6, <1>7, <1>8 DEF RNext

-----------------------------------------------------------------------------
(***************************************************************************)
(* Channel ends, with nodes that crash.                                    *)
(***************************************************************************)

\* A crash takes the ends of the node's started objects and their tasks together.
LEMMA CrashConn ==
    ASSUME TypeInv, OnOwnNode, ConnInv, NEW n \in Nodes, Crash(n)
    PROVE  ConnInv'
  <1>. DEFINE mine == {t \in Tasks : NodeOf[t] = n
                                     /\ (pc[t] # "idle" \/ rpc[t] # "none")}
              objects == {s \in created : Home[s] = n}
  <1>1. /\ pc' = [t \in Tasks |-> IF t \in mine THEN "dropped" ELSE pc[t]]
        /\ relay' = [t \in Tasks |-> IF t \in mine /\ relay[t] # "none"
                                     THEN "exited" ELSE relay[t]]
        /\ receiver' = {s \in receiver : s \in objects => connection[s] = Stopped}
        /\ UNCHANGED <<connection, sess>>
    BY DEF Crash
  <1>2. /\ \A t \in mine : ~HasEnds(t)'
        /\ \A t \in Tasks \ mine : HasEnds(t)' <=> HasEnds(t)
    BY <1>1 DEF HasEnds
  <1>3. OneRelay' /\ OwnerIsOfSession'
    BY <1>1, <1>2 DEF ConnInv, OneRelay, OwnerIsOfSession
  <1>4. ASSUME NEW s \in Sessions, connection[s] # Stopped
        PROVE  /\ connection[s] \in Tasks
               /\ connection[s] \in mine <=> s \in objects
    <2>1. connection[s] \in Tasks /\ sess[connection[s]] = s
      BY <1>4 DEF TypeInv, TypeOK, ConnInv, OwnerIsOfSession
    <2>2. s # NoSession /\ s \in created /\ pc[connection[s]] # "idle"
      BY <2>1, TaskAssumption DEF TypeInv, TypeOK, Attached
    <2>3. Home[s] = NodeOf[connection[s]]
      BY <2>1, <2>2 DEF OnOwnNode
    <2>. QED
      BY <2>1, <2>2, <2>3
  <1>5. \A s \in Sessions :
            s \in receiver' <=> connection'[s] = Stopped \/ HasEnds(connection[s])'
    <2>. HIDE DEF mine, objects
    <2>. QED
      BY <1>1, <1>2, <1>4 DEF ConnInv, EndsKept
  <1>6. EndsKept'
    BY <1>1, <1>5 DEF EndsKept, HasEnds
  <1>. QED
    BY <1>3, <1>6 DEF ConnInv

\* So does every step keep the ends of every object in one place.
LEMMA ObjectStepConn ==
    ASSUME TypeInv, OnOwnNode, ConnInv, ObjectStep
    PROVE  ConnInv'
  <1>. USE DEF manager, conn
  <1>0. pc \in [Tasks -> Phases] /\ sess \in [Tasks -> created \cup {NoSession}]
    BY DEF TypeInv, TypeOK
  <1>1. CASE [Step]_vars
    BY <1>1, StepConn
  <1>2. ASSUME NEW t \in Tasks, NEW s \in Sessions, Obtains(t, s) PROVE ConnInv'
    <2>1. /\ sess[t] = NoSession /\ relay[t] = "none" /\ pc[t] = "idle"
          /\ sess' = [sess EXCEPT ![t] = s]
          /\ UNCHANGED <<connection, receiver, relay>>
      BY <1>2 DEF Obtains, TypeInv, Attached
    <2>2. \A r \in Sessions : connection[r] # t
      BY <2>1, TaskAssumption DEF ConnInv, OwnerIsOfSession
    <2>3. pc'[t] # "connect" /\ \A u \in Tasks \ {t} : pc'[u] = pc[u]
      BY <1>0, <1>2 DEF Obtains, Goto
    <2>4. \A u \in Tasks : HasEnds(u)' <=> HasEnds(u)
      BY <2>1, <2>3 DEF HasEnds
    <2>5. ~HasEnds(t)
      BY <2>1 DEF HasEnds
    <2>6. OneRelay' /\ OwnerIsOfSession'
      BY <1>0, <2>1, <2>2, <2>4, <2>5 DEF ConnInv, OneRelay, OwnerIsOfSession, TypeInv, TypeOK
    <2>7. EndsKept'
      BY <2>1, <2>4 DEF ConnInv, EndsKept, TypeInv, TypeOK
    <2>. QED
      BY <2>6, <2>7 DEF ConnInv
  <1>3. ASSUME NEW t \in Tasks, NEW p \in Phases, Turns(t, p) PROVE ConnInv'
    <2>1. /\ pc' = [pc EXCEPT ![t] = p] /\ pc[t] # "connect" /\ p # "connect"
          /\ UNCHANGED <<connection, receiver, relay, sess>>
      BY <1>3 DEF Turns, Goto, local, Errors
    <2>. QED
      BY <1>0, <2>1, ConnFrame
  <1>4. CASE Clears
    BY <1>4, ConnFrame DEF Clears
  <1>5. ASSUME NEW t \in Tasks, GuardsClose(t) PROVE ConnInv'
    BY <1>5, ConnFrame DEF GuardsClose
  <1>6. ASSUME NEW s \in Sessions, Emits(s) PROVE ConnInv'
    BY <1>6, ConnFrame DEF Emits
  <1>7. ASSUME NEW n \in Nodes, Crash(n) PROVE ConnInv'
    BY <1>7, CrashConn
  <1>. HIDE DEF manager, conn
  <1>. QED
    BY <1>1, <1>2, <1>3, <1>4, <1>5, <1>6, <1>7 DEF ObjectStep

EndsInv == RaftInv /\ OnOwnNode /\ ConnInv

\* The ends' invariant holds initially ...
LEMMA EndsStart == RInit => EndsInv
  <1>. SUFFICES ASSUME RInit PROVE EndsInv
    OBVIOUS
  <1>1. OnOwnNode
    BY DEF RInit, Init, OnOwnNode
  <1>. QED
    BY <1>1, InitRaft, InitConn DEF EndsInv, RInit

\* ... after every step ...
LEMMA EndsStep == EndsInv /\ [RNext]_rvars => EndsInv'
  BY StepRaft, StepOnOwnNode, ObjectStepConn DEF EndsInv, RaftInv

\* ... and so always.
LEMMA EndsAlways == RSpec => []EndsInv
  BY EndsStart, EndsStep, PTL DEF RSpec

\* Whatever crashes, an object that can still be used has its receiving end or a
\* start that holds it: only a start that failed loses it.
THEOREM RaftEndsConserved == RSpec => []EndsKept
  <1>1. EndsInv => EndsKept
    BY DEF EndsInv, ConnInv
  <1>. QED
    BY <1>1, EndsAlways, PTL

\* One object has at most one start or relay, in a cluster as on one node: the
\* distributed lock is not what decides that race, the object's own lock is.
THEOREM RaftRelayExclusion == RSpec => []OneRelay
  <1>1. EndsInv => OneRelay
    BY DEF EndsInv, ConnInv
  <1>. QED
    BY <1>1, EndsAlways, PTL

-----------------------------------------------------------------------------
(***************************************************************************)
(* One object for all requests of a node for one session.                  *)
(***************************************************************************)

\* A node's map has one object under each key, and its keys are known ids.
MapIsFunction ==
    /\ \A r, s \in sessions : Home[r] = Home[s] /\ Id[r] = Id[s] => r = s
    /\ \A s \in sessions : Id[s] \in known

\* An object in use is in the map while it is open.
UsedIsMapped ==
    \A t \in Tasks : pc[t] \in InUse /\ Open(sess[t]) => sess[t] \in sessions

ShareInv == MapIsFunction /\ UsedIsMapped

\* A step that leaves the map alone, opens no object again and brings no task into
\* use of an object keeps ShareInv.
LEMMA ShareFrame ==
    ASSUME ShareInv, sessions' = sessions, known \subseteq known',
           \A t \in Tasks :
               pc'[t] \in InUse =>
                   \/ sess'[t] \in sessions
                   \/ /\ pc[t] \in InUse /\ sess'[t] = sess[t]
                      /\ Open(sess[t])' => Open(sess[t])
    PROVE  ShareInv'
  BY DEF ShareInv, MapIsFunction, UsedIsMapped

\* Tokens stay cancelled, so an object reopens only when an event loop lets go of
\* it, which then has cancelled it.
LEMMA ClosedStaysClosed ==
    ASSUME RaftInv, OnOwnNode, [RNext]_rvars, NEW s \in created, Open(s)'
    PROVE  Open(s)
  <1>1. cancelled \subseteq cancelled'
    BY StepRaft, ObjectStepLasting DEF RaftInv
  <1>2. SUFFICES ASSUME NEW n \in Nodes, deleting[n] = s, deleting'[n] # s
                 PROVE  s \in cancelled'
    BY <1>1 DEF Open
  <1>3. s # Nobody /\ DOMAIN deleting = Nodes
    BY ClusterAssumption DEF RaftInv, WireTypes, TypeInv, TypeOK
  <1>4. ASSUME NEW m \in Nodes, EventLoop(m) PROVE FALSE
    <2>1. deleting[m] = Nobody /\ \A k \in Nodes \ {m} : deleting'[k] = deleting[k]
      BY <1>3, <1>4 DEF EventLoop
    <2>. QED
      BY <1>2, <1>3, <2>1
  <1>5. ASSUME NEW m \in Nodes, EventLoopCancels(m) PROVE s \in cancelled'
    BY <1>2, <1>3, <1>5 DEF EventLoopCancels
  <1>6. ASSUME NEW m \in Nodes, Crash(m) PROVE s \in cancelled'
    <2>1. m = n
      BY <1>2, <1>3, <1>6 DEF Crash
    <2>2. Home[s] = n
      BY <1>2, <1>3 DEF OnOwnNode
    <2>. QED
      BY <1>6, <2>1, <2>2 DEF Crash
  <1>7. ASSUME NEW m \in Nodes, Halt(m) PROVE deleting' = deleting
    BY <1>7 DEF Halt
  <1>8. ASSUME NEW t \in Tasks, RCalls(t) PROVE deleting' = deleting
    <2>1. CASE \/ \E r \in Sessions : Create(t, r) \/ FindInserts(t, r)
               \/ \E i \in Ids : FindGets(t, i)
               \/ CreateInserts(t) \/ FindLooks(t) \/ IsStartedAndAfter(t)
               \/ Begins(t) \/ Locks(t) \/ Gets(t) \/ Puts(t)
      BY <2>1 DEF Create, FindInserts, FindGets, CreateInserts, FindLooks,
                  IsStartedAndAfter, Begins, Locks, Gets, Puts, cluster
    <2>2. CASE \/ ChecksAgain(t) \/ Takes(t) \/ MainConnectFails(t)
               \/ StopsRelay(t) \/ Closes(t) \/ Deletes(t) \/ NotifiesDelete(t)
               \/ GuardsClose(t) \/ Streams(t) \/ Traffic(t) \/ RpcFails(t)
               \/ Drops(t)
      BY <2>2 DEF ChecksAgain, Takes, MainConnectFails, StopsRelay, Closes,
                  Deletes, NotifiesDelete, GuardsClose, Streams, Traffic,
                  RpcFails, Drops, cluster
    <2>. QED
      BY <1>8, <2>1, <2>2 DEF RCalls
  <1>9. ASSUME NEW t \in Tasks, RRelay(t) \/ GuardCloses(t)
        PROVE  deleting' = deleting
    BY <1>9
    DEF RRelay, RelayReceives, HandsOn, HandOnFails, MainHears, MainPosts,
        ServerSends, MainNotifies, SubHears, HearsLagged, RelayLeaves,
        RelayHearsStop, ServerHangsUp,
        RelayRestores, GuardCloses, cluster
  <1>10. ASSUME \/ \E k \in Kinds, r \in Sessions : StreamReturns(k, r)
                \/ UNCHANGED rvars
         PROVE  deleting' = deleting
    BY <1>10 DEF StreamReturns, rvars, cluster
  <1>. QED
    BY <1>2, <1>4, <1>5, <1>6, <1>7, <1>8, <1>9, <1>10 DEF RNext

\* The steps of callers keep one object for a node's requests for a session ...
LEMMA CallShare ==
    ASSUME RaftInv, OnOwnNode, ShareInv, [RNext]_rvars, NEW t \in Tasks, RCalls(t)
    PROVE  ShareInv'
  <1>0. /\ CoreType /\ AwaitsWithin(t) /\ KnowsId(t)
        /\ \A u \in Tasks : pc[u] \in InUse => sess[u] \in created
        /\ DOMAIN pc = Tasks /\ DOMAIN sess = Tasks
    BY DEF RaftInv, ElectInv, TaskInv, KnowsId, CoreType
  <1>1. \A s \in created : Open(s)' => Open(s)
    BY ClosedStaysClosed
  <1>2. ASSUME NEW p, pc' = [pc EXCEPT ![t] = p], p \in InUse => pc[t] \in InUse,
               UNCHANGED <<sessions, sess, known>>
        PROVE  ShareInv'
    BY <1>0, <1>1, <1>2, ShareFrame
  <1>3. ASSUME NEW s \in Sessions, s \in sessions',
               sess' = [sess EXCEPT ![t] = s], Goto(t, "Ok"), known' = known,
               MapIsFunction', sessions \subseteq sessions'
        PROVE  ShareInv'
    <2>1. ASSUME NEW u \in Tasks, pc'[u] \in InUse, Open(sess[u])'
          PROVE  sess'[u] \in sessions'
      <3>1. CASE u = t
        <4>1. sess'[u] = s
          BY <1>0, <1>3, <3>1
        <4>. QED
          BY <1>3, <4>1
      <3>2. CASE u # t
        <4>1. pc[u] \in InUse /\ sess'[u] = sess[u]
          BY <1>0, <1>3, <2>1, <3>2 DEF Goto
        <4>2. Open(sess[u])
          <5>1. sess[u] \in created
            BY <1>0, <4>1
          <5>2. PICK r \in created : r = sess[u]
            BY <5>1
          <5>3. Open(r)'
            BY <2>1, <4>1, <5>2 DEF Open
          <5>. QED
            BY <1>1, <5>2, <5>3
        <4>. QED
          BY <1>3, <4>1, <4>2 DEF ShareInv, UsedIsMapped
      <3>. QED
        BY <3>1, <3>2
    <2>. QED
      BY <1>3, <2>1 DEF ShareInv, UsedIsMapped
  <1>4. ASSUME NEW s \in Sessions, Create(t, s) PROVE ShareInv'
    <2>1. /\ pc' = [pc EXCEPT ![t] = "insert"] /\ "insert" \notin InUse
          /\ sess' = [sess EXCEPT ![t] = s]
          /\ UNCHANGED <<sessions, known>>
      BY <1>4 DEF Create, Goto, cluster, InUse, Waiting, Kinds
    <2>. QED
      BY <1>0, <1>1, <2>1, ShareFrame
  <1>5. CASE CreateInserts(t)
    <2>1. /\ pc[t] = "insert" /\ sessions' = sessions \cup {sess[t]}
          /\ sess' = sess /\ pc' = [pc EXCEPT ![t] = "Ok"]
          /\ known' = known \cup {MyId(t)}
      BY <1>5 DEF CreateInserts, Insert, Goto
    <2>2. Id[sess[t]] \notin known
      BY <1>0, <2>1 DEF KnowsId, MyId
    <2>3. MapIsFunction'
      BY <2>1, <2>2 DEF ShareInv, MapIsFunction, MyId
    <2>4. UsedIsMapped'
      BY <1>0, <1>1, <2>1 DEF ShareInv, UsedIsMapped
    <2>. QED
      BY <2>3, <2>4 DEF ShareInv
  <1>6. CASE FindLooks(t)
    <2>1. CASE UNCHANGED <<pc, sess>>
      <3>1. UNCHANGED <<sessions, known>>
        BY <1>6 DEF FindLooks, local, manager, cluster
      <3>. QED
        BY <1>0, <1>1, <2>1, <3>1, ShareFrame
    <2>2. ASSUME NEW s \in InMap(NodeOf[t], goal[t]), Found(t, s)
          PROVE  ShareInv'
      <3>1. s \in Sessions /\ s \in sessions /\ UNCHANGED <<sessions, known>>
        BY <1>0, <1>6, <2>2 DEF FindLooks, InMap, CoreType, local, manager, cluster
      <3>2. MapIsFunction'
        BY <3>1 DEF ShareInv, MapIsFunction
      <3>. QED
        BY <1>3, <2>2, <3>1, <3>2 DEF Found
    <2>. QED
      BY <1>6, <2>1, <2>2 DEF FindLooks
  <1>7. ASSUME NEW s \in Sessions, FindInserts(t, s) PROVE ShareInv'
    <2>1. /\ Home[s] = NodeOf[t] /\ Id[s] = goal[t] /\ goal[t] \in known
          /\ known' = known
      BY <1>0, <1>7 DEF FindInserts, AwaitsWithin, cluster
    <2>2. MapIsFunction' /\ s \in sessions' /\ sessions \subseteq sessions'
      <3>1. \/ s \in InMap(NodeOf[t], goal[t]) /\ sessions' = sessions
            \/ InMap(NodeOf[t], goal[t]) = {} /\ sessions' = sessions \cup {s}
        BY <1>7 DEF FindInserts
      <3>. QED
        BY <2>1, <3>1 DEF ShareInv, MapIsFunction, InMap
    <2>. QED
      BY <1>3, <1>7, <2>1, <2>2 DEF FindInserts, Found
  <1>8. CASE UNCHANGED <<sessions, sess, known, pc>>
    BY <1>0, <1>1, <1>8, ShareFrame
  <1>9. \A e \in Errors \cup {"dropped"} : e \notin InUse
    BY DEF Errors, InUse, Waiting, Kinds
  <1>10. CASE \E i \in Ids : FindGets(t, i)
    BY <1>2, <1>8, <1>9, <1>10
    DEF FindGets, Goto, Errors, local, manager, cluster
  <1>11. CASE Locks(t) \/ Puts(t) \/ Deletes(t) \/ GuardsClose(t)
    BY <1>8, <1>11 DEF Locks, Puts, Deletes, GuardsClose, local, manager, cluster
  <1>12. CASE Gets(t) \/ RpcFails(t)
    BY <1>2, <1>8, <1>9, <1>12
    DEF Gets, RpcFails, Fails, Goto, Errors, local, manager, cluster
  <1>13. CASE ChecksAgain(t) \/ Closes(t) \/ NotifiesDelete(t)
    <2>1. /\ pc[t] \in {"take", "close", "Ok"}
          /\ \/ pc' = [pc EXCEPT ![t] = "take"]
             \/ pc' = [pc EXCEPT ![t] = "AlreadyClosed"]
             \/ pc' = [pc EXCEPT ![t] = "close"]
             \/ pc' = [pc EXCEPT ![t] = "Ok"]
          /\ UNCHANGED <<sessions, sess, known>>
      BY <1>0, <1>13
      DEF ChecksAgain, CheckToken, Closes, Calling, NotifiesDelete, AwaitsWithin,
          Goto, local, manager, cluster
    <2>2. pc[t] \in InUse
      BY <2>1 DEF InUse, Waiting
    <2>. QED
      BY <1>2, <2>1, <2>2
  <1>14. CASE IsStartedAndAfter(t) \/ Begins(t)
    <2>1. /\ pc[t] \in {"Ok", "is_started", "start"}
          /\ \E p : pc' = [pc EXCEPT ![t] = p]
          /\ UNCHANGED <<sessions, sess, known>>
      BY <1>14
      DEF IsStartedAndAfter, EnsureStarted, IsStarted, Begins, Start, Stop,
          CheckToken, Calling, Goto, manager, cluster
    <2>2. pc[t] \in InUse
      BY <2>1 DEF InUse, Waiting
    <2>. QED
      BY <1>2, <2>1, <2>2
  <1>15. CASE Takes(t) \/ MainConnectFails(t) \/ StopsRelay(t)
    <2>1. /\ pc[t] \in {"take", "connect", "stop", "stopping"}
          /\ \E p : pc' = [pc EXCEPT ![t] = p]
          /\ UNCHANGED <<sessions, sess, known>>
      BY <1>15
      DEF Takes, Take, Connect, MainConnectFails, ConnectFails, StopsRelay,
          StopSignals, StopTimesOut, Goto, manager, cluster
    <2>2. pc[t] \in InUse
      BY <2>1 DEF InUse, Waiting
    <2>. QED
      BY <1>2, <2>1, <2>2
  <1>16. CASE Drops(t)
    BY <1>2, <1>9, <1>16 DEF Drops, Drop, Goto, manager, cluster
  <1>17. CASE Streams(t)
    <2>1. /\ pc[t] \in {"Ok", "parked"} \cup Kinds
          /\ UNCHANGED pc \/ \E p : pc' = [pc EXCEPT ![t] = p]
          /\ UNCHANGED <<sessions, sess, known>>
      BY <1>17
      DEF Streams, GuardStream, TakeStream, DropStream, Park, GuardTimesOut,
          CheckToken, Calling, Goto, Kinds, manager, cluster
    <2>2. pc[t] \in InUse
      BY <2>1 DEF InUse, Waiting, Kinds
    <2>. QED
      BY <1>2, <1>8, <2>1, <2>2
  <1>18. CASE Traffic(t)
    <2>1. /\ pc[t] = "Ok"
          /\ \E p : pc' = [pc EXCEPT ![t] = p]
          /\ UNCHANGED <<sessions, sess, known>>
      BY <1>18 DEF Traffic, Send, BypassSend, Recv, Calling, Goto, manager, cluster
    <2>2. pc[t] \in InUse
      BY <2>1 DEF InUse
    <2>. QED
      BY <1>2, <2>1, <2>2
  <1>. QED
    BY <1>4, <1>5, <1>6, <1>7, <1>10, <1>11, <1>12, <1>13, <1>14, <1>15, <1>16,
       <1>17, <1>18 DEF RCalls

\* ... and so do the others: an event loop closes what it takes out of the map,
\* and a crash ends the tasks with the objects.
LEMMA StepShare ==
    ASSUME RaftInv, OnOwnNode, ShareInv, [RNext]_rvars
    PROVE  ShareInv'
  <1>0. /\ sessions \subseteq created /\ Nobody \notin created
        /\ DOMAIN deleting = Nodes
        /\ \A u \in Tasks : pc[u] \in InUse => sess[u] \in created
    BY ClusterAssumption
    DEF RaftInv, ElectInv, TaskInv, KnowsId, CoreType, WireTypes
  <1>1. \A s \in created : Open(s)' => Open(s)
    BY ClosedStaysClosed
  <1>2. UNCHANGED <<sessions, known, pc, sess>> => ShareInv'
    BY <1>0, <1>1, ShareFrame
  <1>3. ASSUME NEW t \in Tasks, RRelay(t) \/ GuardCloses(t) PROVE ShareInv'
    <2>1. UNCHANGED <<sessions, known, pc, sess>>
      BY <1>3
      DEF RRelay, RelayReceives, RelayTakes, RelayLagged, HandsOn, RelayDelivers,
          HandOnFails, RelaySinkFails, MainHears, MainPosts, ServerSends,
          MainNotifies, SubHears, HearsLagged, RelayLeaves,
          RelayHearsStop, ServerHangsUp, RelayStops,
          UpstreamCloses, RelayRestores, Restore, GuardCloses, GuardCancels, vars,
          manager, cluster
    <2>. QED
      BY <1>2, <2>1
  <1>4. ASSUME NEW k \in Kinds, NEW s \in Sessions, StreamReturns(k, s)
        PROVE  ShareInv'
    BY <1>2, <1>4 DEF StreamReturns, ReturnStream, manager, cluster
  <1>5. ASSUME NEW n \in Nodes, EventLoop(n) PROVE ShareInv'
    <2>. DEFINE entry == InMap(n, Head(bus[n]).id)
    <2>1. CASE UNCHANGED sessions
      BY <1>2, <1>5, <2>1 DEF EventLoop
    <2>2. CASE /\ sessions' = sessions \ entry
               /\ deleting' = [deleting EXCEPT ![n] =
                                   IF entry = {} THEN Nobody
                                   ELSE CHOOSE s \in entry : TRUE]
      <3>1. \A r, s \in entry : r = s
        BY DEF InMap, ShareInv, MapIsFunction
      <3>2. MapIsFunction'
        BY <1>5, <2>2 DEF EventLoop, ShareInv, MapIsFunction
      <3>3. ASSUME NEW s \in entry PROVE ~Open(s)'
        <4>1. deleting'[n] = s
          BY <1>0, <2>2, <3>1, <3>3
        <4>. QED
          BY <4>1 DEF Open
      <3>. HIDE DEF entry
      <3>4. UsedIsMapped'
        BY <1>0, <1>1, <1>5, <2>2, <3>3 DEF EventLoop, ShareInv, UsedIsMapped
      <3>. QED
        BY <3>2, <3>4 DEF ShareInv
    <2>. QED
      BY <1>5, <2>1, <2>2 DEF EventLoop
  <1>6. ASSUME NEW n \in Nodes, EventLoopCancels(n) \/ Halt(n) PROVE ShareInv'
    BY <1>2, <1>6 DEF EventLoopCancels, Halt
  <1>7. ASSUME NEW n \in Nodes, Crash(n) PROVE ShareInv'
    <2>. DEFINE mine == {t \in Tasks : NodeOf[t] = n
                                       /\ (pc[t] # "idle" \/ rpc[t] # "none")}
                objects == {s \in created : Home[s] = n}
    <2>1. /\ pc' = [t \in Tasks |-> IF t \in mine THEN "dropped" ELSE pc[t]]
          /\ sessions' = sessions \ objects
          /\ UNCHANGED <<sess, known>>
      BY <1>7 DEF Crash
    <2>2. MapIsFunction'
      BY <2>1 DEF ShareInv, MapIsFunction
    <2>3. "dropped" \notin InUse /\ "idle" \notin InUse
      BY DEF InUse, Waiting, Kinds
    <2>4. ASSUME NEW t \in Tasks, pc'[t] \in InUse PROVE pc[t] \in InUse /\ sess[t] \notin objects
      <3>1. t \notin mine /\ pc[t] \in InUse
        BY <2>1, <2>3, <2>4
      <3>2. NodeOf[t] # n /\ sess[t] \in created
        BY <1>0, <2>3, <3>1
      <3>3. Home[sess[t]] = NodeOf[t]
        BY <3>2, TaskAssumption DEF OnOwnNode, RaftInv, TypeInv, TypeOK
      <3>. QED
        BY <3>1, <3>2, <3>3
    <2>. HIDE DEF mine, objects
    <2>5. UsedIsMapped'
      BY <1>0, <1>1, <2>1, <2>4 DEF ShareInv, UsedIsMapped
    <2>. QED
      BY <2>2, <2>5 DEF ShareInv
  <1>8. UNCHANGED rvars => ShareInv'
    BY <1>2 DEF rvars, vars, manager, cluster
  <1>. QED
    BY <1>3, <1>4, <1>5, <1>6, <1>7, <1>8, CallShare DEF RNext

\* Whatever finds, deletions, crashes and failing calls come in between, the tasks
\* of one node that use one session id use one object as long as it is open.
THEOREM OneObjectPerNode == RSpec => []RequestsShareSession
  <1>. DEFINE Inv == EndsInv /\ ShareInv
  <1>1. RInit => ShareInv
    BY DEF RInit, Init, ShareInv, MapIsFunction, UsedIsMapped, InUse, Waiting, Kinds
  <1>2. Inv /\ [RNext]_rvars => ShareInv'
    BY StepShare DEF EndsInv
  <1>3. Inv => RequestsShareSession
    <2>. SUFFICES ASSUME Inv, NEW t \in Tasks, NEW u \in Tasks,
                         pc[t] \in InUse, pc[u] \in InUse, NodeOf[t] = NodeOf[u],
                         MyId(t) = MyId(u), Open(sess[t]), Open(sess[u])
                  PROVE  sess[t] = sess[u]
      BY DEF RequestsShareSession
    <2>1. sess[t] \in sessions /\ sess[u] \in sessions
      BY DEF ShareInv, UsedIsMapped
    <2>2. sess[t] # NoSession /\ sess[u] # NoSession
      BY <2>1, TaskAssumption DEF EndsInv, RaftInv, TypeInv, TypeOK
    <2>3. Home[sess[t]] = Home[sess[u]]
      BY <2>2 DEF EndsInv, OnOwnNode
    <2>. QED
      BY <2>1, <2>3 DEF ShareInv, MapIsFunction, MyId
  <1>. QED
    BY <1>1, <1>2, <1>3, EndsAlways, PTL DEF RSpec

-----------------------------------------------------------------------------
(***************************************************************************)
(* The objects' client messages and server messages go through pipes, as   *)
(* those of a standalone session do, with nodes that crash.                *)
(***************************************************************************)
\* Messages of object s that its relays handed on.
Given(s) == Elements(delivered[s])

\* A message that a relay lets go of leaves its pipe in order.
LEMMA CrashPipes ==
    ASSUME TypeInv, UpPipe!PipeInv, NEW n \in Nodes, Crash(n)
    PROVE  UpPipe!PipeInv'
  <1>. DEFINE mine == {t \in Tasks : NodeOf[t] = n
                                     /\ (pc[t] # "idle" \/ rpc[t] # "none")}
  <1>1. /\ inflight' = [t \in Tasks |-> IF t \in mine THEN 0 ELSE inflight[t]]
        /\ UNCHANGED <<connection, clt, nsent, delivered>>
    BY DEF Crash
  <1>. HIDE DEF mine
  <1>2. /\ connection \in [Sessions -> Tasks \cup {Stopped}]
        /\ inflight \in [Tasks -> Nat]
    BY DEF TypeInv, TypeOK
  <1>3. \A s \in Sessions : InHand'[s] \in {0, InHand[s]}
    BY <1>1, <1>2 DEF InHand
  <1>4. UpPipe!PipeType'
    <2>1. \A s \in Sessions : InHand[s] \in Nat
      BY DEF UpPipe!PipeInv, UpPipe!PipeType
    <2>2. InHand' \in [Sessions -> Nat]
      BY <1>3, <2>1 DEF InHand
    <2>. QED
      BY <1>1, <2>2 DEF UpPipe!PipeInv, UpPipe!PipeType
  <1>5. ASSUME NEW s \in Sessions
        PROVE  UpPipe!Ordered(nsent[s], clt[s].q, InHand'[s], delivered[s])
    <2>1. /\ UpPipe!Ordered(nsent[s], clt[s].q, InHand[s], delivered[s])
          /\ nsent[s] \in Nat
      BY DEF UpPipe!PipeInv, TypeInv, TypeOK
    <2>. QED
      BY <1>3, <2>1 DEF UpPipe!Ordered
  <1>. QED
    BY <1>1, <1>4, <1>5 DEF UpPipe!PipeInv

\* The objects of a cluster carry their client messages in pipes, in which what
\* was handed on stays so.
LEMMA PipesGoOn ==
    ASSUME TypeInv, ConnInv, UpPipe!PipeInv, ObjectStep
    PROVE  /\ UpPipe!PipeInv'
           /\ \A s \in Sessions : Given(s) \subseteq Given(s)'
  <1>. DEFINE Goal == /\ UpPipe!PipeInv'
                      /\ \A s \in Sessions : Given(s) \subseteq Given(s)'
  <1>1. ASSUME [Up!Next]_(Up!pipe) PROVE Goal
    <2>1. [UpPipe!Next]_(UpPipe!pipe)
      BY <1>1
      DEF Up!Accept, Up!TakeInHand, Up!Deliver, Up!Lose,
          Up!Next, Up!pipe, UpPipe!Accept, UpPipe!TakeInHand,
          UpPipe!Deliver, UpPipe!Lose, UpPipe!Next,
          UpPipe!pipe
    <2>2. UpPipe!PipeInv'
      BY <2>1, UpPipe!NextPipe
    <2>3. \A s \in Sessions : delivered[s] \in Seq(Nat)
      BY DEF TypeInv, TypeOK
    <2>4. \A s \in Sessions :
             \/ delivered'[s] = delivered[s]
             \/ \E m : delivered'[s] = Append(delivered[s], m)
      <3>1. \/ delivered' = delivered
            \/ \E p \in Sessions : \E m :
                  delivered' = [delivered EXCEPT ![p] = Append(@, m)]
        BY <1>1, Zenon
        DEF Up!Accept, Up!TakeInHand, Up!Deliver, Up!Lose,
            Up!Next, Up!pipe
      <3>2. DOMAIN delivered = Sessions
        BY DEF TypeInv, TypeOK
      <3>. QED
        BY <3>1, <3>2
    <2>5. ASSUME NEW q \in Seq(Nat), NEW m
          PROVE  Elements(q) \subseteq Elements(Append(q, m))
      <3>1. \A i \in DOMAIN q : i \in DOMAIN Append(q, m) /\ Append(q, m)[i] = q[i]
        OBVIOUS
      <3>. QED
        BY <3>1 DEF Elements
    <2>. QED
      BY <2>2, <2>3, <2>4, <2>5 DEF Given
  <1>2. UNCHANGED upPipe => Goal
    BY <1>1, UpFrame
  <1>3. CASE [Step]_vars
    BY <1>1, <1>3, UpStep
  <1>. HIDE DEF Goal
  <1>. USE DEF upPipe, up, conn, local
  <1>4. ASSUME NEW t \in Tasks, NEW s \in Sessions, Obtains(t, s) PROVE Goal
    BY <1>2, <1>4 DEF Obtains
  <1>5. ASSUME NEW t \in Tasks, NEW p \in Phases, Turns(t, p) PROVE Goal
    BY <1>2, <1>5 DEF Turns
  <1>6. CASE Clears
    BY <1>2, <1>6 DEF Clears, Goal
  <1>7. ASSUME NEW t \in Tasks, GuardsClose(t) PROVE Goal
    BY <1>2, <1>7 DEF GuardsClose
  <1>8. ASSUME NEW s \in Sessions, Emits(s) PROVE Goal
    BY <1>2, <1>8 DEF Emits
  <1>9. ASSUME NEW n \in Nodes, Crash(n) PROVE Goal
    BY <1>9, CrashPipes DEF Goal, Crash, Given
  <1>. QED
    BY <1>3, <1>4, <1>5, <1>6, <1>7, <1>8, <1>9 DEF ObjectStep, Goal

\* The pipes stay in order.
LEMMA PipesAlways == RSpec => [](EndsInv /\ UpPipe!PipeInv)
  <1>1. RInit => UpPipe!PipeInv
    <2>1. RInit => UpPipe!Init
      BY UpInit DEF RInit, Up!Init, UpPipe!Init
    <2>. QED
      BY <2>1, UpPipe!InitPipe
  <1>2. EndsInv /\ UpPipe!PipeInv /\ [RNext]_rvars => UpPipe!PipeInv'
    BY StepRaft, PipesGoOn DEF EndsInv, RaftInv
  <1>. QED
    BY <1>1, <1>2, EndsAlways, PTL DEF RSpec

\* The relays of an object in a cluster hand its client messages on in the order
\* they were sent, none twice, although one crash may take several in hand.
THEOREM RaftUpstreamOrder == RSpec => []DeliveredInOrder
  <1>1. UpPipe!PipeInv => DeliveredInOrder
    BY DEF UpPipe!PipeInv, UpPipe!Ordered, UpPipe!Ascending, DeliveredInOrder,
           Increasing
  <1>. QED
    BY <1>1, PipesAlways, PTL

\* The message in flight is after all that its object's relays handed on.
LEMMA FlightIsNext ==
    ASSUME TypeInv, ConnInv, UpPipe!PipeInv, NEW t \in Tasks, inflight[t] # 0
    PROVE  /\ sess[t] \in Sessions /\ inflight[t] \in Nat
           /\ \A k \in Given(sess[t]) : k < inflight[t]
  <1>1. /\ sess[t] \in Sessions /\ inflight[t] \in Nat
        /\ connection[sess[t]] = t /\ t # Stopped
    BY TaskAssumption
    DEF TypeInv, TypeOK, Attached, ConnInv, OneRelay, HasEnds
  <1>2. InHand[sess[t]] = inflight[t]
    BY <1>1 DEF InHand
  <1>. QED
    BY <1>1, <1>2 DEF UpPipe!PipeInv, UpPipe!Ordered, Given, Elements

-----------------------------------------------------------------------------
(***************************************************************************)
(* UpstreamGets: what is on its way to a relay is in the order it was      *)
(* published in, and behind what the relay's upstream connection got.      *)
(***************************************************************************)
IsMessage(e) == e.type = "NotifyToMain"

\* f is no message that its object handed on before message e.
Follows(e, f) ==
    IsMessage(e) /\ IsMessage(f) /\ e.msg[1] = f.msg[1] => e.msg[2] < f.msg[2]

InLine(q) == \A j, k \in DOMAIN q : j < k => Follows(q[j], q[k])

Ahead(S, T) == \A e \in S, f \in T : Follows(e, f)

\* Event h in hand, events q in a subscription, events b its node has not heard.
Queued(h, q, b) ==
    /\ InLine(q) /\ InLine(b)
    /\ Ahead({h}, Elements(q)) /\ Ahead({h}, Elements(b))
    /\ Ahead(Elements(q), Elements(b))

OnItsWay(h, q, b) == {h} \cup Elements(q) \cup Elements(b)

\* Appending an event that follows all of a line makes a line.
LEMMA LineAppend ==
    ASSUME NEW q \in Seq(Event), NEW f \in Event, InLine(q), Ahead(Elements(q), {f})
    PROVE  /\ InLine(Append(q, f)) /\ Append(q, f) \in Seq(Event)
           /\ Elements(Append(q, f)) = Elements(q) \cup {f}
  <1>1. /\ DOMAIN q = 1..Len(q) /\ Len(q) \in Nat
        /\ DOMAIN Append(q, f) = 1..(Len(q) + 1)
        /\ Append(q, f)[Len(q) + 1] = f
        /\ \A i \in 1..Len(q) : Append(q, f)[i] = q[i]
        /\ Append(q, f) \in Seq(Event)
    OBVIOUS
  <1>2. \A i \in DOMAIN q : Follows(q[i], f)
    BY DEF Ahead, Elements
  <1>. DEFINE r == Append(q, f)
  <1>. HIDE DEF r
  <1>3. ASSUME NEW j \in DOMAIN r, NEW k \in DOMAIN r, j < k
        PROVE  Follows(r[j], r[k])
    <2>1. j \in DOMAIN q /\ r[j] = q[j]
      BY <1>1, <1>3 DEF r
    <2>2. CASE k = Len(q) + 1
      BY <1>1, <1>2, <2>1, <2>2 DEF r
    <2>3. CASE k # Len(q) + 1
      <3>1. k \in DOMAIN q /\ r[k] = q[k]
        BY <1>1, <2>3 DEF r
      <3>. QED
        BY <1>3, <2>1, <3>1 DEF InLine
    <2>. QED
      BY <2>2, <2>3
  <1>4. Elements(r) = Elements(q) \cup {f}
    <2>1. ASSUME NEW i \in DOMAIN r PROVE r[i] \in Elements(q) \cup {f}
      BY <1>1 DEF r, Elements
    <2>2. \A i \in DOMAIN q : q[i] \in Elements(r)
      <3>1. \A i \in DOMAIN q : i \in DOMAIN r /\ r[i] = q[i]
        BY <1>1 DEF r
      <3>. QED
        BY <3>1 DEF Elements
    <2>3. f \in Elements(r)
      <3>1. Len(q) + 1 \in DOMAIN r /\ r[Len(q) + 1] = f
        BY <1>1 DEF r
      <3>. QED
        BY <3>1 DEF Elements
    <2>. QED
      BY <2>1, <2>2, <2>3 DEF Elements
  <1>. QED
    BY <1>1, <1>3, <1>4 DEF InLine, r

\* The head of a line is ahead of its tail, which is a line.
LEMMA LineTail ==
    ASSUME NEW q \in Seq(Event), q # <<>>, InLine(q)
    PROVE  /\ Head(q) \in Event /\ Tail(q) \in Seq(Event)
           /\ InLine(Tail(q)) /\ Ahead({Head(q)}, Elements(Tail(q)))
           /\ Elements(q) = {Head(q)} \cup Elements(Tail(q))
  <1>1. /\ DOMAIN q = 1..Len(q) /\ Len(q) \in Nat \ {0}
        /\ Head(q) = q[1] /\ Head(q) \in Event /\ Tail(q) \in Seq(Event)
        /\ DOMAIN Tail(q) = 1..(Len(q) - 1)
        /\ \A i \in 1..(Len(q) - 1) : Tail(q)[i] = q[i + 1]
    OBVIOUS
  <1>. DEFINE r == Tail(q)
  <1>. HIDE DEF r
  <1>2. \A i \in DOMAIN r : i \in Int /\ i > 0 /\ i + 1 \in DOMAIN q /\ r[i] = q[i + 1]
    BY <1>1 DEF r
  <1>3. InLine(r)
    <2>. SUFFICES ASSUME NEW j \in DOMAIN r, NEW k \in DOMAIN r, j < k
                  PROVE  Follows(r[j], r[k])
      BY DEF InLine
    <2>1. j + 1 < k + 1
      BY <1>2
    <2>. QED
      BY <1>2, <2>1 DEF InLine
  <1>4. \A i \in DOMAIN r : Follows(q[1], r[i])
    <2>. TAKE i \in DOMAIN r
    <2>1. 1 < i + 1 /\ 1 \in DOMAIN q
      BY <1>1, <1>2
    <2>. QED
      BY <1>2, <2>1 DEF InLine
  <1>5. ASSUME NEW i \in DOMAIN q PROVE q[i] \in {Head(q)} \cup Elements(r)
    <2>1. CASE i = 1
      BY <1>1, <2>1
    <2>2. CASE i # 1
      <3>1. i - 1 \in DOMAIN r /\ r[i - 1] = q[i]
        BY <1>1, <2>2 DEF r
      <3>. QED
        BY <3>1 DEF Elements
    <2>. QED
      BY <2>1, <2>2
  <1>6. Elements(r) \subseteq Elements(q) /\ Head(q) \in Elements(q)
    BY <1>1, <1>2 DEF Elements
  <1>. QED
    BY <1>1, <1>3, <1>4, <1>5, <1>6 DEF Ahead, Elements, r

\* Events go from a bus to a subscription to a hand, or are dropped on the way:
\* what is left keeps its order.
LEMMA Moves ==
    ASSUME NEW h \in Event, NEW q \in Seq(Event), NEW b \in Seq(Event),
           Queued(h, q, b)
    PROVE  /\ q # <<>> => /\ Queued(h, Tail(q), b) /\ Queued(Head(q), Tail(q), b)
                          /\ Elements(q) = {Head(q)} \cup Elements(Tail(q))
                          /\ Head(q) \in Event /\ Tail(q) \in Seq(Event)
           /\ b # <<>> => /\ Queued(h, q, Tail(b))
                          /\ Queued(h, Append(q, Head(b)), Tail(b))
                          /\ Elements(b) = {Head(b)} \cup Elements(Tail(b))
                          /\ Elements(Append(q, Head(b))) = Elements(q) \cup {Head(b)}
                          /\ Head(b) \in Event /\ Tail(b) \in Seq(Event)
  <1>1. ASSUME q # <<>>
        PROVE  /\ Queued(h, Tail(q), b) /\ Queued(Head(q), Tail(q), b)
               /\ Elements(q) = {Head(q)} \cup Elements(Tail(q))
               /\ Head(q) \in Event /\ Tail(q) \in Seq(Event)
    BY <1>1, LineTail DEF Queued, Ahead
  <1>2. ASSUME b # <<>>
        PROVE  /\ Queued(h, q, Tail(b))
               /\ Queued(h, Append(q, Head(b)), Tail(b))
               /\ Elements(b) = {Head(b)} \cup Elements(Tail(b))
               /\ Elements(Append(q, Head(b))) = Elements(q) \cup {Head(b)}
               /\ Head(b) \in Event /\ Tail(b) \in Seq(Event)
    <2>1. /\ Head(b) \in Event /\ Tail(b) \in Seq(Event)
          /\ InLine(Tail(b)) /\ Ahead({Head(b)}, Elements(Tail(b)))
          /\ Elements(b) = {Head(b)} \cup Elements(Tail(b))
      BY <1>2, LineTail DEF Queued
    <2>2. Ahead(Elements(q), {Head(b)}) /\ InLine(q)
      BY <2>1 DEF Queued, Ahead
    <2>3. /\ InLine(Append(q, Head(b)))
          /\ Elements(Append(q, Head(b))) = Elements(q) \cup {Head(b)}
      BY <2>1, <2>2, LineAppend
    <2>. QED
      BY <2>1, <2>2, <2>3 DEF Queued, Ahead
  <1>. QED
    BY <1>1, <1>2

\* An event that follows all others joins the line.
LEMMA Joins ==
    ASSUME NEW h, NEW q \in Seq(Event), NEW b \in Seq(Event), Queued(h, q, b),
           NEW f \in Event, Ahead(OnItsWay(h, q, b), {f})
    PROVE  /\ Queued(h, q, Append(b, f))
           /\ OnItsWay(h, q, Append(b, f)) = OnItsWay(h, q, b) \cup {f}
  <1>1. Ahead(Elements(b), {f}) /\ InLine(b)
    BY DEF Ahead, OnItsWay, Queued
  <1>2. InLine(Append(b, f)) /\ Elements(Append(b, f)) = Elements(b) \cup {f}
    BY <1>1, LineAppend
  <1>. QED
    BY <1>2 DEF Queued, Ahead, OnItsWay

-----------------------------------------------------------------------------
\* What is on its way to relay t, and its order.
Pending(t) == OnItsWay(hand[t], inbox[t].q, bus[NodeOf[t]])

InOrder(t) == Queued(hand[t], inbox[t].q, bus[NodeOf[t]])

\* An event with a client message is one that a relay handed on.
Sent(e) ==
    IsMessage(e) => /\ e.msg[1] \in Sessions /\ e.id = Id[e.msg[1]]
                    /\ e.msg[2] \in Given(e.msg[1])

\* Message m may reach relay t's upstream connection before message k.
GotBefore(t, m, k) ==
    m[1] = k[1] => IF m[1] = sess[t] THEN m[2] # k[2] ELSE m[2] < k[2]

\* Relay t's upstream connection may have got message m: it is of the relay's
\* session, was handed on, and may be before all that is on its way.
MayHave(t, m) ==
    /\ m[1] \in Sessions /\ Id[m[1]] = MyId(t) /\ m[2] \in Given(m[1])
    /\ \A e \in Pending(t) : IsMessage(e) => GotBefore(t, m, e.msg)

FlowOf(t) ==
    /\ InOrder(t)
    /\ \A e \in Pending(t) : Sent(e)
    /\ IsMessage(hand[t]) => hand[t].id = MyId(t)
    /\ got[t] # <<>> => sess[t] # NoSession
    /\ \A j \in DOMAIN got[t] : MayHave(t, got[t][j])
    /\ \A j, k \in DOMAIN got[t] : j < k => GotBefore(t, got[t][j], got[t][k])

FlowInv == \A t \in Tasks : FlowOf(t)

\* What is on its way to relay t after a step is in order, and was on its way before
\* or is among the events F that the step published.
Advances(t, F) ==
    /\ InOrder(t)'
    /\ \A e \in Pending(t)' : IsMessage(e) => e \in Pending(t) \cup F

\* An event with a message that was handed on in this step.
Fresh(e) ==
    /\ e \in Event
    /\ IsMessage(e) => /\ e.msg[1] \in Sessions /\ e.id = Id[e.msg[1]]
                       /\ e.msg[2] \in Given(e.msg[1])'
                       /\ \A k \in Given(e.msg[1]) : k < e.msg[2]

\* Messages that were handed on stay so, and tasks keep their objects.
Grows ==
    /\ \A s \in Sessions : Given(s) \subseteq Given(s)'
    /\ \A t \in Tasks : sess[t] # NoSession => sess'[t] = sess[t]

\* What is on its way to a relay are events, and numbers are numbers.
LEMMA FlowTypes ==
    ASSUME RaftInv, NEW t \in Tasks
    PROVE  /\ hand[t] \in Event /\ inbox[t].q \in Seq(Event)
           /\ bus[NodeOf[t]] \in Seq(Event)
           /\ Pending(t) \subseteq Event
           /\ \A s \in Sessions : Given(s) \subseteq Nat
  <1>1. /\ hand[t] \in Event /\ inbox[t].q \in Seq(Event)
        /\ bus[NodeOf[t]] \in Seq(Event)
    BY ClusterAssumption DEF RaftInv, WireTypes, Channel
  <1>2. \A q \in Seq(Event) : Elements(q) \subseteq Event
    BY DEF Elements
  <1>3. \A s \in Sessions : delivered[s] \in Seq(Nat)
    BY DEF RaftInv, TypeInv, TypeOK
  <1>4. \A q \in Seq(Nat) : Elements(q) \subseteq Nat
    BY DEF Elements
  <1>. QED
    BY <1>1, <1>2, <1>3, <1>4 DEF Pending, OnItsWay, Given

\* What relay t's upstream connection got stays before what is on its way.
LEMMA MayStillHave ==
    ASSUME RaftInv, Grows, NEW t \in Tasks, NEW m \in Message, MayHave(t, m),
           sess[t] # NoSession, NEW F, Advances(t, F), \A f \in F : Fresh(f)
    PROVE  MayHave(t, m)'
  <1>1. sess'[t] = sess[t]
    BY DEF Grows
  <1>2. m[1] \in Sessions /\ Id[m[1]] = MyId(t)' /\ m[2] \in Given(m[1])'
    BY <1>1 DEF MayHave, MyId, Grows
  <1>3. ASSUME NEW e \in Pending(t)', IsMessage(e) PROVE GotBefore(t, m, e.msg)'
    <2>1. CASE e \in Pending(t)
      BY <1>1, <1>3, <2>1 DEF MayHave, GotBefore
    <2>2. CASE e \in F
      <3>1. /\ e.msg[1] = m[1] => m[2] < e.msg[2]
            /\ e.msg[2] \in Nat /\ m[2] \in Nat
        BY <1>3, <2>2 DEF Fresh, MayHave, Event, Message
      <3>. QED
        BY <3>1 DEF GotBefore
    <2>. QED
      BY <1>3, <2>1, <2>2 DEF Advances
  <1>. QED
    BY <1>2, <1>3 DEF MayHave

\* Relay t's flow is in order after a step in which its upstream connection gets
\* nothing ...
LEMMA FlowAdvances ==
    ASSUME RaftInv, RaftInv', Grows, NEW t \in Tasks, FlowOf(t), NEW F,
           Advances(t, F), \A f \in F : Fresh(f), IsMessage(hand'[t]) => hand'[t].id = MyId(t)',
           got'[t] = got[t]
    PROVE  FlowOf(t)'
  <1>1. ASSUME NEW e \in Pending(t)' PROVE Sent(e)'
    BY <1>1 DEF Advances, FlowOf, Sent, Fresh, Grows
  <1>2. got[t] # <<>> => sess'[t] = sess[t] /\ sess[t] # NoSession
    BY DEF FlowOf, Grows
  <1>3. got[t] \in Seq(Message)
    BY DEF RaftInv, WireTypes
  <1>4. \A j \in DOMAIN got[t] : got[t] # <<>> /\ got[t][j] \in Message
    BY <1>3
  <1>5. \A j \in DOMAIN got[t] : MayHave(t, got[t][j])'
    BY <1>2, <1>4, MayStillHave DEF FlowOf
  <1>6. \A j, k \in DOMAIN got[t] : j < k => GotBefore(t, got[t][j], got[t][k])'
    BY <1>2, <1>4 DEF FlowOf, GotBefore
  <1>. QED
    BY <1>1, <1>2, <1>5, <1>6 DEF FlowOf, Advances

\* ... and after a step in which it gets a message that may be next.
LEMMA FlowGets ==
    ASSUME RaftInv, RaftInv', Grows, NEW t \in Tasks, FlowOf(t), Advances(t, {}),
           IsMessage(hand'[t]) => hand'[t].id = MyId(t)',
           sess[t] # NoSession, NEW m \in Message, got'[t] = Append(got[t], m),
           MayHave(t, m)', \A j \in DOMAIN got[t] : GotBefore(t, got[t][j], m)
    PROVE  FlowOf(t)'
  <1>1. ASSUME NEW e \in Pending(t)' PROVE Sent(e)'
    BY <1>1 DEF Advances, FlowOf, Sent, Grows
  <1>2. sess'[t] = sess[t]
    BY DEF Grows
  <1>. PICK h : h = got'[t]
    OBVIOUS
  <1>3. /\ got[t] \in Seq(Message) /\ Len(got[t]) \in Nat
        /\ DOMAIN got[t] = 1..Len(got[t])
        /\ DOMAIN h = 1..Len(got[t]) + 1
        /\ \A j \in DOMAIN got[t] : got[t][j] \in Message /\ h[j] = got[t][j]
        /\ h[Len(got[t]) + 1] = m
    BY DEF RaftInv, WireTypes
  <1>4. ASSUME NEW j \in DOMAIN h PROVE MayHave(t, h[j])'
    <2>1. CASE j \in DOMAIN got[t]
      <3>1. MayHave(t, h[j]) /\ h[j] \in Message /\ \A f \in {} : Fresh(f)
        BY <1>3, <2>1 DEF FlowOf
      <3>. QED
        BY <3>1, MayStillHave
    <2>2. CASE j \notin DOMAIN got[t]
      <3>1. h[j] = m
        BY <1>3, <2>2
      <3>. QED
        BY <3>1
    <2>. QED
      BY <2>1, <2>2
  <1>5. ASSUME NEW j \in DOMAIN h, NEW k \in DOMAIN h, j < k
        PROVE  GotBefore(t, h[j], h[k])'
    <2>1. j \in DOMAIN got[t]
      BY <1>3, <1>5
    <2>2. CASE k \in DOMAIN got[t]
      BY <1>2, <1>3, <1>5, <2>1, <2>2 DEF FlowOf, GotBefore
    <2>3. CASE k \notin DOMAIN got[t]
      <3>1. h[k] = m /\ GotBefore(t, h[j], m)
        BY <1>3, <2>1, <2>3
      <3>. QED
        BY <1>2, <3>1 DEF GotBefore
    <2>. QED
      BY <2>2, <2>3
  <1>. QED
    BY <1>1, <1>2, <1>4, <1>5 DEF FlowOf, Advances

-----------------------------------------------------------------------------
\* The event in a relay's hand stays there or is no longer a client message's.
Holds(t) == hand'[t] = hand[t] \/ ~IsMessage(hand'[t])

\* Part of what is on its way to a relay is lost, or nothing is.
LEMMA SomeLost ==
    ASSUME RaftInv, NEW t \in Tasks, InOrder(t), Holds(t),
           \/ inbox'[t].q \in {inbox[t].q, <<>>}
           \/ inbox[t].q # <<>> /\ inbox'[t].q = Tail(inbox[t].q),
           bus'[NodeOf[t]] \in {bus[NodeOf[t]], <<>>}
    PROVE  Advances(t, {})
  <1>. DEFINE h == hand[t]
              q == inbox[t].q
              b == bus[NodeOf[t]]
  <1>1. h \in Event /\ q \in Seq(Event) /\ b \in Seq(Event)
    BY FlowTypes
  <1>2. PICK h2, q2, b2 : h2 = hand'[t] /\ q2 = inbox'[t].q /\ b2 = bus'[NodeOf[t]]
    OBVIOUS
  <1>3. Queued(h, q, b)
    BY DEF InOrder
  <1>. HIDE DEF h, q, b
  <1>4. InLine(q2) /\ Elements(q2) \subseteq Elements(q)
    <2>1. q2 \in {q, <<>>} \/ (q # <<>> /\ q2 = Tail(q))
      BY <1>2 DEF q
    <2>2. InLine(<<>>) /\ Elements(<<>>) = {}
      BY DEF InLine, Elements
    <2>. QED
      BY <1>1, <1>3, <2>1, <2>2, LineTail DEF Queued
  <1>5. InLine(b2) /\ Elements(b2) \subseteq Elements(b)
    BY <1>2, <1>3 DEF b, Queued, InLine, Elements
  <1>6. h2 = h \/ ~IsMessage(h2)
    BY <1>2 DEF h, Holds
  <1>7. Queued(h2, q2, b2)
    BY <1>3, <1>4, <1>5, <1>6 DEF Queued, Ahead, Follows
  <1>8. \A e \in OnItsWay(h2, q2, b2) : IsMessage(e) => e \in OnItsWay(h, q, b)
    BY <1>4, <1>5, <1>6 DEF OnItsWay
  <1>. QED
    BY <1>2, <1>7, <1>8 DEF Advances, InOrder, Pending, h, q, b

\* A relay takes the next event of its subscription in hand.
LEMMA TakenInHand ==
    ASSUME RaftInv, NEW t \in Tasks, InOrder(t), inbox[t].q # <<>>,
           hand'[t] = Head(inbox[t].q), inbox'[t].q = Tail(inbox[t].q), bus' = bus
    PROVE  Advances(t, {})
  <1>. DEFINE h == hand[t]
              q == inbox[t].q
              b == bus[NodeOf[t]]
  <1>1. h \in Event /\ q \in Seq(Event) /\ b \in Seq(Event)
    BY FlowTypes
  <1>2. Queued(h, q, b)
    BY DEF InOrder
  <1>. HIDE DEF h, q, b
  <1>3. q # <<>> => /\ Queued(Head(q), Tail(q), b)
                    /\ Elements(q) = {Head(q)} \cup Elements(Tail(q))
    BY <1>1, <1>2, Moves
  <1>4. Queued(hand'[t], inbox'[t].q, bus'[NodeOf[t]])
    BY <1>3 DEF q, b
  <1>5. OnItsWay(hand'[t], inbox'[t].q, bus'[NodeOf[t]]) \subseteq OnItsWay(h, q, b)
    BY <1>3 DEF OnItsWay, q, b
  <1>. QED
    BY <1>4, <1>5 DEF Advances, InOrder, Pending, h, q, b

\* A node's event loop hears an event, and passes it on or not.
LEMMA HeardByNode ==
    ASSUME RaftInv, NEW t \in Tasks, InOrder(t), hand'[t] = hand[t],
           bus[NodeOf[t]] # <<>>, bus'[NodeOf[t]] = Tail(bus[NodeOf[t]]),
           \/ inbox'[t] = inbox[t]
           \/ inbox'[t] = SendTo(inbox[t], Head(bus[NodeOf[t]]))
    PROVE  Advances(t, {})
  <1>. DEFINE h == hand[t]
              q == inbox[t].q
              b == bus[NodeOf[t]]
  <1>1. h \in Event /\ q \in Seq(Event) /\ b \in Seq(Event)
    BY FlowTypes
  <1>2. PICK q2 : q2 = inbox'[t].q
    OBVIOUS
  <1>3. Queued(h, q, b) /\ b # <<>>
    BY DEF InOrder
  <1>4. \/ q2 = q \/ q2 = Append(q, Head(b))
        \/ q # <<>> /\ q2 = Append(Tail(q), Head(b))
    BY <1>1, <1>2, CapacityAssumption DEF SendTo, IsFull
  <1>. HIDE DEF h, q, b
  <1>5. /\ Queued(h, q2, Tail(b))
        /\ Elements(q2) \subseteq Elements(q) \cup {Head(b)}
        /\ Elements(b) = {Head(b)} \cup Elements(Tail(b))
    <2>1. CASE q2 = q \/ q2 = Append(q, Head(b))
      <3>1. /\ Queued(h, q, Tail(b)) /\ Queued(h, Append(q, Head(b)), Tail(b))
            /\ Elements(b) = {Head(b)} \cup Elements(Tail(b))
            /\ Elements(Append(q, Head(b))) = Elements(q) \cup {Head(b)}
        BY <1>1, <1>3, Moves
      <3>. QED
        BY <2>1, <3>1
    <2>2. CASE q # <<>> /\ q2 = Append(Tail(q), Head(b))
      <3>1. PICK r : r = Tail(q)
        OBVIOUS
      <3>2. /\ Queued(h, r, b) /\ r \in Seq(Event)
            /\ Elements(q) = {Head(q)} \cup Elements(r)
        BY <1>1, <1>3, <2>2, <3>1, Moves
      <3>3. /\ Queued(h, Append(r, Head(b)), Tail(b))
            /\ Elements(b) = {Head(b)} \cup Elements(Tail(b))
            /\ Elements(Append(r, Head(b))) = Elements(r) \cup {Head(b)}
        BY <1>1, <1>3, <3>2, Moves
      <3>. QED
        BY <2>2, <3>1, <3>2, <3>3
    <2>. QED
      BY <1>4, <2>1, <2>2
  <1>6. OnItsWay(h, q2, Tail(b)) \subseteq OnItsWay(h, q, b)
    BY <1>5 DEF OnItsWay
  <1>. QED
    BY <1>2, <1>5, <1>6 DEF Advances, InOrder, Pending, h, q, b

\* An event is published that was not there before.
LEMMA PublishedLast ==
    ASSUME RaftInv, NEW t \in Tasks, FlowOf(t), Holds(t), inbox'[t] = inbox[t],
           NEW f, Fresh(f), Publish(f)
    PROVE  Advances(t, {f})
  <1>. DEFINE h == hand[t]
              q == inbox[t].q
              b == bus[NodeOf[t]]
  <1>1. /\ h \in Event /\ q \in Seq(Event) /\ b \in Seq(Event) /\ f \in Event
        /\ Queued(h, q, b) /\ Pending(t) = OnItsWay(h, q, b)
    BY FlowTypes DEF FlowOf, InOrder, Pending, Fresh
  <1>2. Ahead(OnItsWay(h, q, b), {f})
    BY <1>1 DEF Ahead, FlowOf, Sent, Follows, Fresh
  <1>3. bus'[NodeOf[t]] = Append(b, f)
    BY ClusterAssumption DEF Publish
  <1>4. PICK h2 : h2 = hand'[t]
    OBVIOUS
  <1>5. h2 = h \/ ~IsMessage(h2)
    BY <1>4 DEF Holds
  <1>. HIDE DEF h, q, b
  <1>6. /\ Queued(h, q, Append(b, f))
        /\ OnItsWay(h, q, Append(b, f)) = OnItsWay(h, q, b) \cup {f}
    BY <1>1, <1>2, Joins
  <1>7. Queued(h2, q, Append(b, f))
    BY <1>5, <1>6 DEF Queued, Ahead, Follows
  <1>8. \A e \in OnItsWay(h2, q, Append(b, f)) :
            IsMessage(e) => e \in OnItsWay(h, q, b) \cup {f}
    BY <1>5, <1>6 DEF OnItsWay
  <1>9. inbox'[t].q = q
    BY DEF q
  <1>. QED
    BY <1>1, <1>3, <1>4, <1>7, <1>8, <1>9 DEF Advances, InOrder, Pending

-----------------------------------------------------------------------------
\* A step in which no upstream connection gets anything.
LEMMA NothingGot ==
    ASSUME RaftInv, RaftInv', Grows, FlowInv, NEW t \in Tasks, NEW F,
           Advances(t, F), \A f \in F : Fresh(f), Holds(t), got'[t] = got[t]
    PROVE  FlowOf(t)'
  <1>1. FlowOf(t)
    BY DEF FlowInv
  <1>2. ASSUME IsMessage(hand'[t]) PROVE hand'[t].id = MyId(t)'
    <2>1. hand'[t] = hand[t] /\ hand[t].id = MyId(t)
      BY <1>1, <1>2 DEF Holds, FlowOf
    <2>2. sess'[t] = sess[t]
      BY <1>2, <2>1 DEF IsMessage, NoEvent, RaftInv, WireTypes, Grows
    <2>. QED
      BY <2>1, <2>2 DEF MyId
  <1>. QED
    BY <1>1, <1>2, FlowAdvances

\* Some of what is on its way is lost.
LEMMA NothingNew ==
    ASSUME RaftInv, RaftInv', Grows, FlowInv, UNCHANGED <<bus, got>>,
           \A t \in Tasks : Holds(t),
           \A t \in Tasks : \/ inbox'[t].q \in {inbox[t].q, <<>>}
                            \/ inbox[t].q # <<>> /\ inbox'[t].q = Tail(inbox[t].q)
    PROVE  FlowInv'
  <1>. SUFFICES ASSUME NEW t \in Tasks PROVE FlowOf(t)'
    BY DEF FlowInv
  <1>1. InOrder(t)
    BY DEF FlowInv, FlowOf
  <1>2. Advances(t, {})
    BY <1>1, SomeLost
  <1>3. \A f \in {} : Fresh(f)
    OBVIOUS
  <1>. QED
    BY <1>2, <1>3, NothingGot

\* An event is published.
LEMMA NewEvent ==
    ASSUME RaftInv, RaftInv', Grows, FlowInv, UNCHANGED <<inbox, got>>,
           \A t \in Tasks : Holds(t), NEW f, Fresh(f), Publish(f)
    PROVE  FlowInv'
  <1>. SUFFICES ASSUME NEW t \in Tasks PROVE FlowOf(t)'
    BY DEF FlowInv
  <1>1. Advances(t, {f})
    BY PublishedLast DEF FlowInv
  <1>2. \A g \in {f} : Fresh(g)
    OBVIOUS
  <1>. QED
    BY <1>1, <1>2, NothingGot

\* Callers' steps keep the order of what is on its way.
LEMMA CallFlow ==
    ASSUME RaftInv, RaftInv', Grows, FlowInv, NEW t \in Tasks, RCalls(t)
    PROVE  FlowInv'
  <1>1. ASSUME UNCHANGED <<bus, inbox, hand, got>> PROVE FlowInv'
    BY <1>1, NothingNew DEF Holds
  <1>2. CASE NotifiesDelete(t)
    <2>1. MyId(t) \in Ids
      BY <1>2, ClusterAssumption
      DEF NotifiesDelete, RaftInv, ElectInv, TaskInv, AwaitsWithin, KnowsId,
          CoreType, InUse, Waiting, MyId
    <2>2. Fresh(DeleteSession(MyId(t)))
      BY <2>1 DEF Fresh, IsMessage, DeleteSession, NoMessage, Event, Message
    <2>. QED
      BY <1>2, <2>2, NewEvent DEF NotifiesDelete, Holds
  <1>3. CASE Drops(t) \/ MainConnectFails(t)
    <2>1. /\ UNCHANGED <<bus, hand, got>>
          /\ inbox' = inbox \/ inbox' = [inbox EXCEPT ![t] = NewChannel]
      BY <1>3 DEF Drops, MainConnectFails, Unsubscribes, cluster
    <2>2. DOMAIN inbox = Tasks
      BY DEF RaftInv, WireTypes
    <2>3. \A u \in Tasks : inbox'[u].q \in {inbox[u].q, <<>>}
      BY <2>1, <2>2 DEF NewChannel
    <2>. QED
      BY <2>1, <2>3, NothingNew DEF Holds
  <1>4. CASE \/ \E s \in Sessions : Create(t, s) \/ FindInserts(t, s)
             \/ \E i \in Ids : FindGets(t, i)
             \/ CreateInserts(t) \/ FindLooks(t) \/ IsStartedAndAfter(t)
    BY <1>1, <1>4
    DEF Create, FindInserts, FindGets, CreateInserts, FindLooks, IsStartedAndAfter,
        cluster, raft
  <1>5. CASE \/ Begins(t) \/ Locks(t) \/ Gets(t) \/ Puts(t) \/ ChecksAgain(t)
             \/ Takes(t) \/ StopsRelay(t) \/ Closes(t) \/ Deletes(t)
    BY <1>1, <1>5
    DEF Begins, Locks, Gets, Puts, ChecksAgain, Takes, StopsRelay, Closes, Deletes,
        cluster, raft
  <1>6. CASE GuardsClose(t) \/ Streams(t) \/ Traffic(t) \/ RpcFails(t)
    BY <1>1, <1>6 DEF GuardsClose, Streams, Traffic, RpcFails, cluster, raft
  <1>. QED
    BY <1>2, <1>3, <1>4, <1>5, <1>6 DEF RCalls

\* A message that a relay delivered was handed on.
LEMMA HandedOn ==
    ASSUME TypeInv, NEW t \in Tasks, sess[t] \in Sessions, sess'[t] = sess[t],
           delivered' = [delivered EXCEPT ![sess[t]] = Append(@, inflight[t])]
    PROVE  inflight[t] \in Given(sess[t])'
  <1>1. delivered[sess[t]] \in Seq(Nat) /\ DOMAIN delivered = Sessions
    BY DEF TypeInv, TypeOK
  <1>2. PICK d : d = delivered[sess[t]] /\ d \in Seq(Nat)
    BY <1>1
  <1>3. /\ delivered'[sess'[t]] = Append(d, inflight[t])
        /\ Len(d) + 1 \in DOMAIN Append(d, inflight[t])
        /\ Append(d, inflight[t])[Len(d) + 1] = inflight[t]
    BY <1>1, <1>2
  <1>. QED
    BY <1>3 DEF Given, Elements

\* A main session's relay sends on a message of its own clients.
LEMMA OwnHandsOn ==
    ASSUME RaftInv, RaftInv', ConnInv, UpPipe!PipeInv, Grows, FlowInv,
           NEW t \in Tasks, HandsOn(t), role[t] = "main"
    PROVE  FlowInv'
  <1>. PICK m : m = <<sess[t], inflight[t]>>
    OBVIOUS
  <1>1. /\ got' = [got EXCEPT ![t] = Append(@, m)]
        /\ UNCHANGED <<bus, inbox, hand>>
        /\ inflight[t] # 0
        /\ delivered' = [delivered EXCEPT ![sess[t]] = Append(@, inflight[t])]
    BY DEF HandsOn, RelayDelivers
  <1>2. /\ sess[t] \in Sessions /\ sess[t] # NoSession /\ inflight[t] \in Nat
        /\ \A k \in Given(sess[t]) : k < inflight[t]
        /\ sess'[t] = sess[t]
    BY <1>1, FlightIsNext, TaskAssumption DEF RaftInv, TypeInv, Attached, Grows
  <1>3. m \in Message
    BY <1>2 DEF Message
  <1>4. /\ got'[t] = Append(got[t], m)
        /\ \A u \in Tasks \ {t} : got'[u] = got[u]
    BY <1>1 DEF RaftInv, WireTypes
  <1>5. ASSUME NEW u \in Tasks PROVE Advances(u, {}) /\ Holds(u) /\ FlowOf(u)
    <2>1. InOrder(u) /\ FlowOf(u) /\ Holds(u)
      BY <1>1 DEF FlowInv, FlowOf, Holds
    <2>. QED
      BY <1>1, <2>1, SomeLost
  <1>6. inflight[t] \in Given(sess[t])'
    BY <1>1, <1>2, HandedOn DEF RaftInv
  <1>7. /\ \A e \in Pending(t) : IsMessage(e) => GotBefore(t, m, e.msg)
        /\ \A j \in DOMAIN got[t] : GotBefore(t, got[t][j], m)
    BY <1>2, <1>5 DEF FlowOf, Sent, MayHave, GotBefore
  <1>8. MayHave(t, m)'
    <2>1. Pending(t)' = Pending(t)
      BY <1>1 DEF Pending
    <2>2. m[1] \in Sessions /\ Id[m[1]] = MyId(t)' /\ m[2] \in Given(m[1])'
      BY <1>2, <1>6 DEF MyId
    <2>3. \A e \in Pending(t) : IsMessage(e) => GotBefore(t, m, e.msg)'
      BY <1>2, <1>7 DEF GotBefore
    <2>. QED
      BY <2>1, <2>2, <2>3 DEF MayHave
  <1>9. FlowOf(t)'
    <2>1. IsMessage(hand'[t]) => hand'[t].id = MyId(t)'
      BY <1>1, <1>2, <1>5 DEF FlowOf, MyId
    <2>. QED
      BY <1>2, <1>3, <1>4, <1>5, <1>7, <1>8, <2>1, FlowGets
  <1>10. ASSUME NEW u \in Tasks, u # t PROVE FlowOf(u)'
    <2>1. got'[u] = got[u] /\ \A f \in {} : Fresh(f)
      BY <1>4, <1>10
    <2>. QED
      BY <1>5, <2>1, NothingGot
  <1>. QED
    BY <1>9, <1>10 DEF FlowInv

\* A sub session's relay publishes a message of its clients.
LEMMA OwnPublishes ==
    ASSUME RaftInv, RaftInv', ConnInv, UpPipe!PipeInv, Grows, FlowInv,
           NEW t \in Tasks, HandsOn(t), role[t] = "sub"
    PROVE  FlowInv'
  <1>. PICK f : f = NotifyToMain(MyId(t), sess[t], inflight[t])
    OBVIOUS
  <1>1. /\ Publish(f) /\ UNCHANGED <<inbox, hand, got>>
        /\ inflight[t] # 0
        /\ delivered' = [delivered EXCEPT ![sess[t]] = Append(@, inflight[t])]
    BY DEF HandsOn, RelayDelivers
  <1>2. /\ sess[t] \in Sessions /\ inflight[t] \in Nat
        /\ \A k \in Given(sess[t]) : k < inflight[t]
    BY <1>1, FlightIsNext DEF RaftInv
  <1>3. sess'[t] = sess[t] /\ inflight[t] \in Given(sess[t])'
    BY <1>1, <1>2, HandedOn, TaskAssumption DEF RaftInv, Grows
  <1>4. /\ f \in Event /\ f.id = Id[sess[t]]
        /\ f.msg[1] = sess[t] /\ f.msg[2] = inflight[t]
    BY <1>2, ClusterAssumption, EventTypes DEF NotifyToMain, MyId
  <1>5. f.msg[2] \in Given(f.msg[1])'
    BY <1>3, <1>4 DEF Given
  <1>6. Fresh(f)
    BY <1>2, <1>4, <1>5 DEF Fresh
  <1>. QED
    BY <1>1, <1>6, NewEvent DEF Holds

\* A main session's relay takes a message of another object in hand, or skips an
\* event.
LEMMA HearsFlow ==
    ASSUME RaftInv, RaftInv', Grows, FlowInv, NEW t \in Tasks, MainHears(t)
    PROVE  FlowInv'
  <1>1. /\ inbox[t].q # <<>> /\ UNCHANGED <<bus, got, sess>>
        /\ inbox' = [inbox EXCEPT ![t] = Received(@)]
        /\ hand' = hand \/ (/\ hand' = [hand EXCEPT ![t] = Head(inbox[t].q)]
                            /\ Head(inbox[t].q).id = MyId(t))
        /\ DOMAIN inbox = Tasks /\ DOMAIN hand = Tasks
    BY DEF MainHears, CanReceive, MineOf, vars, cluster, RaftInv, WireTypes
  <1>2. /\ inbox'[t].q = Tail(inbox[t].q)
        /\ \A u \in Tasks \ {t} : inbox'[u] = inbox[u]
    BY <1>1 DEF Received
  <1>3. CASE hand' = hand
    BY <1>1, <1>2, <1>3, NothingNew DEF Holds
  <1>4. CASE /\ hand' = [hand EXCEPT ![t] = Head(inbox[t].q)]
             /\ Head(inbox[t].q).id = MyId(t)
    <2>1. \A f \in {} : Fresh(f)
      OBVIOUS
    <2>2. ASSUME NEW u \in Tasks, u # t PROVE FlowOf(u)'
      <3>1. InOrder(u) /\ Holds(u) /\ inbox'[u] = inbox[u]
        BY <1>1, <1>2, <1>4, <2>2 DEF Holds, FlowInv, FlowOf
      <3>2. Advances(u, {})
        BY <1>1, <3>1, SomeLost
      <3>. QED
        BY <1>1, <2>1, <3>1, <3>2, NothingGot
    <2>3. hand'[t] = Head(inbox[t].q) /\ hand'[t].id = MyId(t)'
      BY <1>1, <1>4 DEF MyId
    <2>4. FlowOf(t) /\ InOrder(t)
      BY DEF FlowInv, FlowOf
    <2>5. Advances(t, {})
      BY <1>1, <1>2, <2>3, <2>4, TakenInHand
    <2>6. FlowOf(t)'
      BY <1>1, <2>1, <2>3, <2>4, <2>5, FlowAdvances
    <2>. QED
      BY <2>2, <2>6 DEF FlowInv
  <1>. QED
    BY <1>1, <1>3, <1>4

\* A main session's relay sends on the message it has in hand, or fails to.
LEMMA PostsFlow ==
    ASSUME RaftInv, RaftInv', Grows, FlowInv, NEW t \in Tasks, MainPosts(t)
    PROVE  FlowInv'
  <1>1. /\ IsMessage(hand[t]) /\ UNCHANGED <<bus, inbox, sess, delivered>>
        /\ hand' = [hand EXCEPT ![t] = NoEvent]
        /\ got' = got \/ got' = [got EXCEPT ![t] = Append(@, hand[t].msg)]
        /\ DOMAIN hand = Tasks /\ DOMAIN got = Tasks
        /\ hand[t] \in Event
    BY DEF MainPosts, IsMessage, vars, up, cluster, RaftInv, WireTypes
  <1>2. \A u \in Tasks : Holds(u)
    BY <1>1 DEF Holds, IsMessage, NoEvent
  <1>3. CASE got' = got
    BY <1>1, <1>2, <1>3, NothingNew
  <1>4. CASE got' = [got EXCEPT ![t] = Append(@, hand[t].msg)]
    <2>1. \A f \in {} : Fresh(f)
      OBVIOUS
    <2>2. ASSUME NEW u \in Tasks PROVE Advances(u, {}) /\ FlowOf(u) /\ InOrder(u)
      BY <1>1, <1>2, SomeLost DEF FlowInv, FlowOf
    <2>3. ASSUME NEW u \in Tasks, u # t PROVE FlowOf(u)'
      <3>1. got'[u] = got[u]
        BY <1>4, <2>3
      <3>. QED
        BY <1>2, <2>1, <2>2, <3>1, NothingGot
    <2>4. PICK m : m = hand[t].msg
      OBVIOUS
    <2>5. /\ m \in Message /\ m[2] \in Nat
          /\ got'[t] = Append(got[t], m) /\ sess[t] # NoSession
          /\ ~IsMessage(hand'[t]) /\ hand[t] \in Pending(t)
      BY <1>1, <1>4, <2>4
      DEF Event, Message, RaftInv, WireTypes, IsMessage, NoEvent, Pending, OnItsWay
    <2>6. m[1] \in Sessions /\ Id[m[1]] = MyId(t) /\ m[2] \in Given(m[1])
      BY <1>1, <2>2, <2>4, <2>5 DEF FlowOf, Sent
    <2>7. \A j \in DOMAIN got[t] : GotBefore(t, got[t][j], m)
      BY <1>1, <2>2, <2>4, <2>5 DEF FlowOf, MayHave
    <2>8. ASSUME NEW e \in Pending(t)', IsMessage(e) PROVE GotBefore(t, m, e.msg)'
      <3>1. e \in Elements(inbox[t].q) \cup Elements(bus[NodeOf[t]])
        BY <1>1, <2>5, <2>8 DEF Pending, OnItsWay
      <3>2. e \in Event /\ Follows(hand[t], e)
        BY <2>2, <3>1, FlowTypes DEF InOrder, Queued, Ahead, Pending, OnItsWay
      <3>3. m[1] = e.msg[1] => m[2] < e.msg[2] /\ e.msg[2] \in Nat
        BY <1>1, <2>4, <2>8, <3>2 DEF Follows, Event, Message
      <3>. QED
        BY <2>5, <3>3 DEF GotBefore
    <2>9. MayHave(t, m)'
      BY <1>1, <2>6, <2>8 DEF MayHave, MyId, Given
    <2>10. FlowOf(t)'
      BY <2>2, <2>5, <2>7, <2>9, FlowGets
    <2>. QED
      BY <2>3, <2>10 DEF FlowInv
  <1>. QED
    BY <1>1, <1>3, <1>4

\* The relays' steps keep the order of what is on its way.
LEMMA RelayFlow ==
    ASSUME RaftInv, RaftInv', ConnInv, UpPipe!PipeInv, Grows, FlowInv,
           NEW t \in Tasks, RRelay(t)
    PROVE  FlowInv'
  <1>0. DOMAIN inbox = Tasks /\ DOMAIN hand = Tasks
    BY DEF RaftInv, WireTypes
  <1>1. CASE RelayReceives(t) \/ HandOnFails(t) \/ RelayLeaves(t)
    BY <1>1, NothingNew
    DEF RelayReceives, HandOnFails, RelayLeaves,
        RelayHearsStop, ServerHangsUp, Holds, cluster, raft
  <1>2. CASE HandsOn(t)
    BY <1>2, OwnHandsOn, OwnPublishes DEF HandsOn
  <1>3. CASE MainHears(t)
    BY <1>3, HearsFlow
  <1>4. CASE MainPosts(t)
    BY <1>4, PostsFlow
  <1>5. CASE ServerSends(t)
    <2>1. /\ UNCHANGED <<bus, inbox, got>>
          /\ hand' = [hand EXCEPT ![t] = NotifyToSub(MyId(t))]
      BY <1>5 DEF ServerSends, cluster
    <2>2. \A u \in Tasks : Holds(u)
      BY <1>0, <2>1 DEF Holds, IsMessage, NotifyToSub
    <2>. QED
      BY <2>1, <2>2, NothingNew
  <1>6. CASE MainNotifies(t)
    <2>1. /\ UNCHANGED <<inbox, got>> /\ hand[t].type = "NotifyToSub"
          /\ hand' = [hand EXCEPT ![t] = NoEvent]
          /\ Publish(hand[t]) \/ UNCHANGED bus
      BY <1>6 DEF MainNotifies
    <2>2. \A u \in Tasks : Holds(u)
      BY <1>0, <2>1 DEF Holds, IsMessage, NoEvent
    <2>3. Fresh(hand[t])
      BY <2>1 DEF Fresh, IsMessage, RaftInv, WireTypes
    <2>. QED
      BY <2>1, <2>2, <2>3, NothingNew, NewEvent
  <1>7. CASE SubHears(t) \/ HearsLagged(t) \/ RelayRestores(t)
    <2>1. /\ UNCHANGED <<bus, hand, got>>
          /\ \/ inbox[t].q # <<>> /\ inbox' = [inbox EXCEPT ![t] = Received(@)]
             \/ inbox' = [inbox EXCEPT ![t] = LagReported(@)]
             \/ inbox' = [inbox EXCEPT ![t] = NewChannel]
      BY <1>7
      DEF SubHears, HearsLagged, RelayRestores, Unsubscribes, CanReceive, cluster
    <2>2. /\ Received(inbox[t]).q = Tail(inbox[t].q)
          /\ LagReported(inbox[t]).q = inbox[t].q /\ NewChannel.q = <<>>
      BY DEF Received, LagReported, NewChannel
    <2>3. PICK c : /\ inbox' = [inbox EXCEPT ![t] = c]
                   /\ \/ c.q \in {inbox[t].q, <<>>}
                      \/ inbox[t].q # <<>> /\ c.q = Tail(inbox[t].q)
      BY <2>1, <2>2
    <2>4. inbox'[t] = c /\ \A u \in Tasks \ {t} : inbox'[u] = inbox[u]
      BY <1>0, <2>3
    <2>. QED
      BY <2>1, <2>3, <2>4, NothingNew DEF Holds
  <1>. QED
    BY <1>1, <1>2, <1>3, <1>4, <1>5, <1>6, <1>7 DEF RRelay

\* The nodes' steps do.
LEMMA NodeFlow ==
    ASSUME RaftInv, RaftInv', Grows, FlowInv, NEW n \in Nodes,
           EventLoop(n) \/ EventLoopCancels(n) \/ Halt(n) \/ Crash(n)
    PROVE  FlowInv'
  <1>0. \A f \in {} : Fresh(f)
    OBVIOUS
  <1>1. \A t \in Tasks : InOrder(t)
    BY DEF FlowInv, FlowOf
  <1>2. DOMAIN bus = Nodes /\ \A t \in Tasks : NodeOf[t] \in Nodes
    BY ClusterAssumption DEF RaftInv, WireTypes
  <1>3. CASE EventLoop(n)
    <2>. SUFFICES ASSUME NEW t \in Tasks PROVE FlowOf(t)'
      BY DEF FlowInv
    <2>1. /\ bus[n] # <<>> /\ bus' = [bus EXCEPT ![n] = Tail(@)]
          /\ UNCHANGED <<hand, got>>
          /\ inbox'[t] = inbox[t] \/ (/\ NodeOf[t] = n
                                      /\ inbox'[t] = SendTo(inbox[t], Head(bus[n])))
      BY <1>3 DEF EventLoop
    <2>2. CASE NodeOf[t] = n
      <3>1. Advances(t, {})
        BY <1>1, <1>2, <2>1, <2>2, HeardByNode
      <3>. QED
        BY <1>0, <2>1, <3>1, NothingGot DEF Holds
    <2>3. CASE NodeOf[t] # n
      <3>1. bus'[NodeOf[t]] = bus[NodeOf[t]] /\ inbox'[t] = inbox[t] /\ Holds(t)
        BY <1>2, <2>1, <2>3 DEF Holds
      <3>2. Advances(t, {})
        BY <1>1, <3>1, SomeLost
      <3>. QED
        BY <1>0, <2>1, <3>1, <3>2, NothingGot
    <2>. QED
      BY <2>2, <2>3
  <1>4. CASE EventLoopCancels(n) \/ Halt(n)
    BY <1>4, NothingNew DEF EventLoopCancels, Halt, raft, Holds
  <1>5. CASE Crash(n)
    <2>. SUFFICES ASSUME NEW t \in Tasks PROVE FlowOf(t)'
      BY DEF FlowInv
    <2>1. /\ bus' = [bus EXCEPT ![n] = <<>>] /\ got' = got
          /\ hand'[t] \in {hand[t], NoEvent}
          /\ inbox'[t] \in {inbox[t], NewChannel}
      BY <1>5 DEF Crash
    <2>2. Holds(t) /\ inbox'[t].q \in {inbox[t].q, <<>>}
      BY <2>1 DEF Holds, IsMessage, NoEvent, NewChannel
    <2>3. bus'[NodeOf[t]] \in {bus[NodeOf[t]], <<>>}
      BY <1>2, <2>1
    <2>4. Advances(t, {})
      BY <1>1, <2>2, <2>3, SomeLost
    <2>. QED
      BY <1>0, <2>1, <2>2, <2>4, NothingGot
  <1>. QED
    BY <1>3, <1>4, <1>5

\* The client messages that an upstream connection gets are of its own session,
\* none twice, and those of each other object in the order they were sent there:
\* across the bus, subscriptions that overflow, relays that stop and start, calls
\* that fail and nodes that crash.
THEOREM UpstreamInOrder == RSpec => []UpstreamGets
  <1>1. RInit => FlowInv
    <2>. SUFFICES ASSUME RInit, NEW t \in Tasks PROVE FlowOf(t)
      BY DEF FlowInv
    <2>1. /\ hand[t] = NoEvent /\ inbox[t].q = <<>> /\ got[t] = <<>>
          /\ bus[NodeOf[t]] = <<>> /\ ~IsMessage(hand[t])
      BY ClusterAssumption DEF RInit, NewChannel, IsMessage, NoEvent
    <2>2. InOrder(t) /\ Pending(t) = {NoEvent}
      BY <2>1 DEF InOrder, Queued, InLine, Ahead, Elements, Pending, OnItsWay
    <2>. QED
      BY <2>1, <2>2 DEF FlowOf, Sent
  <1>2. EndsInv /\ UpPipe!PipeInv /\ EndsInv' /\ FlowInv /\ [RNext]_rvars => FlowInv'
    <2>. SUFFICES ASSUME EndsInv, UpPipe!PipeInv, EndsInv', FlowInv, [RNext]_rvars
                  PROVE  FlowInv'
      OBVIOUS
    <2>1. RaftInv /\ RaftInv' /\ TypeInv /\ ConnInv
      BY DEF EndsInv, RaftInv
    <2>2. ObjectStep
      BY <2>1, StepRaft
    <2>3. Grows
      BY <2>1, <2>2, PipesGoOn, ObjectStepLasting DEF Grows
    <2>4. ASSUME NEW t \in Tasks, RCalls(t) PROVE FlowInv'
      BY <2>1, <2>3, <2>4, CallFlow
    <2>5. ASSUME NEW t \in Tasks, RRelay(t) PROVE FlowInv'
      BY <2>1, <2>3, <2>5, RelayFlow
    <2>6. ASSUME NEW n \in Nodes,
                 EventLoop(n) \/ EventLoopCancels(n) \/ Halt(n) \/ Crash(n)
          PROVE  FlowInv'
      BY <2>1, <2>3, <2>6, NodeFlow
    <2>7. ASSUME \/ \E t \in Tasks : GuardCloses(t)
                 \/ \E k \in Kinds, s \in Sessions : StreamReturns(k, s)
                 \/ UNCHANGED rvars
          PROVE  FlowInv'
      BY <2>1, <2>3, <2>7, NothingNew
      DEF GuardCloses, StreamReturns, Holds, rvars, cluster, raft
    <2>. QED
      BY <2>4, <2>5, <2>6, <2>7 DEF RNext
  <1>3. FlowInv => UpstreamGets
    <2>. SUFFICES ASSUME FlowInv, NEW t \in Tasks,
                         NEW j \in DOMAIN got[t], NEW k \in DOMAIN got[t]
                  PROVE  /\ Id[got[t][j][1]] = MyId(t)
                         /\ j < k => GotBefore(t, got[t][j], got[t][k])
      BY DEF UpstreamGets, GotBefore
    <2>. QED
      BY DEF FlowInv, FlowOf, MayHave
  <1>. QED
    BY <1>1, <1>2, <1>3, PipesAlways, PTL DEF RSpec
=============================================================================
