---------------------------- MODULE RaftCluster -----------------------------
(***************************************************************************)
(* The raft session manager (overlay-mcp-raft): one RaftManager per node,  *)
(* over hiqlite's replicated store, its distributed lock and its event     *)
(* bus.  A member of Sessions is here one RaftSession object, named by its *)
(* subsession_id: Home[s] is the node it lives on, Id[s] the session id it *)
(* has in common with the objects of the other nodes.                      *)
(*                                                                         *)
(* RaftSession repeats the guards, the connection and the relay's channel  *)
(* ends of StandaloneSession line by line, so those steps are taken from   *)
(* there.  This module adds what differs: create and find over the store,  *)
(* the election of a main session under the lock, close, the node's event  *)
(* loop, the relays' second input, and nodes that stop or crash.           *)
(*                                                                         *)
(* A call of hiqlite is one step of the store, the lock or the bus.  rpc[t]*)
(* is the hiqlite call (or the map section) that task t awaits inside the  *)
(* operation that pc[t] names.                                             *)
(***************************************************************************)
EXTENDS StandaloneSession

CONSTANTS
    Nodes,      \* nodes of the cluster
    Ids,        \* session ids
    NoId,
    Home,       \* the node a RaftSession object lives on
    Id,         \* its session_id
    NodeOf,     \* the node that serves a request task
    MaxSends,   \* bound: client messages that a task sends
    MaxBus,     \* bound: events some node has not heard when close is called
    Does,       \* the calls that the caller of a task makes
    MayFail,    \* whether hiqlite calls may fail
    MayCrash    \* whether nodes may be halted and crash

\* Values of the store and of the lock that name no object and no task.
Absent == "Absent"
Unset  == "Unset"
Free   == "Free"
Nobody == "Nobody"

ASSUME ClusterAssumption ==
    /\ NoId \notin Ids
    /\ {Absent, Unset} \cap Sessions = {}
    /\ Free \notin Tasks
    /\ Nobody \notin Sessions
    /\ Home \in [Sessions -> Nodes]
    /\ Id \in [Sessions -> Ids]
    /\ NodeOf \in [Tasks -> Nodes]
    /\ MaxSends \in [Tasks -> Nat] /\ MaxBus \in Nat
    /\ MayFail \in BOOLEAN /\ MayCrash \in BOOLEAN

VARIABLES
    store,      \* main_subsession_id of each stored session, Unset or Absent
    lock,       \* holder of the distributed lock of each session id
    bus,        \* events of the cluster that a node has not heard yet
    halted,     \* nodes whose cancel_token is cancelled
    deleting,   \* the object an event loop took out of the map to cancel
    known,      \* ids that a create has returned
    rpc, goal,  \* the await of task t inside its call, the id its find asks for
    read,       \* session_data.main_subsession_id of task t, to be put back
    role,       \* the kind of session task t's start decided on
    inbox,      \* relay t's subscription to event_send
    hand,       \* the event relay t is sending on (NoEvent: none)
    got         \* client messages that relay t's upstream connection got

cluster == <<store, lock, bus, halted, deleting, known>>
raft    == <<rpc, goal, read, role, inbox, hand, got>>
rvars   == <<vars, cluster, raft>>

-----------------------------------------------------------------------------
\* RaftSchemaEvent.  NewMainSession is declared in the source and never sent.
NoMessage == <<Nobody, 0>>
DeleteSession(i) == [type |-> "DeleteSession", id |-> i, msg |-> NoMessage]
NotifyToSub(i)   == [type |-> "NotifyToSub", id |-> i, msg |-> NoMessage]
NotifyToMain(i, s, n) == [type |-> "NotifyToMain", id |-> i, msg |-> <<s, n>>]
NoEvent == [type |-> "none", id |-> NoId, msg |-> NoMessage]

Message == (Sessions \cup {Nobody}) \X Nat
Event == [type : {"none", "DeleteSession", "NotifyToSub", "NotifyToMain"},
          id : Ids \cup {NoId}, msg : Message]

Rpcs == {"none", "lock", "get", "put", "token", "delete", "notify", "map",
         "insert"}

RTypeOK ==
    /\ TypeOK
    /\ store \in [Ids -> Sessions \cup {Absent, Unset}]
    /\ lock \in [Ids -> Tasks \cup {Free}]
    /\ bus \in [Nodes -> Seq(Event)]
    /\ halted \subseteq Nodes
    /\ deleting \in [Nodes -> Sessions \cup {Nobody}]
    /\ known \subseteq Ids
    /\ rpc \in [Tasks -> Rpcs]
    /\ goal \in [Tasks -> Ids \cup {NoId}]
    /\ read \in [Tasks -> Sessions \cup {Unset}]
    /\ role \in [Tasks -> {"none", "main", "sub"}]
    /\ inbox \in [Tasks -> Channel(Event)]
    /\ hand \in [Tasks -> Event]
    /\ got \in [Tasks -> Seq(Message)]

RInit ==
    /\ Init
    /\ store = [i \in Ids |-> Absent]
    /\ lock = [i \in Ids |-> Free]
    /\ bus = [n \in Nodes |-> <<>>]
    /\ halted = {}
    /\ deleting = [n \in Nodes |-> Nobody]
    /\ known = {}
    /\ rpc = [t \in Tasks |-> "none"]
    /\ goal = [t \in Tasks |-> NoId]
    /\ read = [t \in Tasks |-> Unset]
    /\ role = [t \in Tasks |-> "none"]
    /\ inbox = [t \in Tasks |-> NewChannel]
    /\ hand = [t \in Tasks |-> NoEvent]
    /\ got = [t \in Tasks |-> <<>>]

-----------------------------------------------------------------------------
MyId(t) == Id[sess[t]]

Awaits(t, r) == rpc' = [rpc EXCEPT ![t] = r]

\* All of a session's state but the control of its callers.
local == <<manager, conn, up, down, slot, guard>>

\* The entry of one node's map under one key, as a set.
InMap(n, i) == {s \in sessions : Home[s] = n /\ Id[s] = i}

\* RaftSession::new with a child of the node's token: born cancelled on a node
\* that is shutting down.
BuildObject(s) ==
    /\ s \notin created
    /\ created' = created \cup {s}
    /\ cancelled' = IF Home[s] \in halted THEN cancelled \cup {s} ELSE cancelled

\* Lock::drop of hiqlite.
Unlock(t) == lock' = [i \in Ids |-> IF lock[i] = t THEN Free ELSE lock[i]]

\* Client::notify of hiqlite: every node hears every event, all in one order.
Publish(e) == bus' = [n \in Nodes |-> Append(bus[n], e)]

\* The store once the write that task t awaits has been committed.
Written(t) ==
    [store EXCEPT ![MyId(t)] = IF rpc[t] = "delete" THEN Absent ELSE read[t]]

\* The call under way ends with error e: `?` drops the lock.
Fails(t, e) ==
    /\ Goto(t, e)
    /\ Awaits(t, "none")
    /\ Unlock(t)
    /\ read' = [read EXCEPT ![t] = Unset]
    /\ UNCHANGED <<local, sess>>

\* A hiqlite call ends with an error; the awaited lock may also time out.  A
\* write that is reported as failed may have been committed all the same.
RpcFails(t) ==
    /\ MayFail
    /\ rpc[t] \in {"lock", "get", "put", "delete", "notify"}
    /\ \/ Fails(t, "Hiqlite")
       \/ rpc[t] = "lock" /\ Fails(t, "Timeout")
    /\ \/ UNCHANGED store
       \/ rpc[t] \in {"put", "delete"} /\ store' = Written(t)
    /\ UNCHANGED <<bus, halted, deleting, known, goal, role, inbox, hand, got>>

(***************************************************************************)
(* The manager: create and find.                                           *)
(***************************************************************************)

\* create draws a new id and builds its object; the put is next.
Create(t, s) ==
    /\ pc[t] = "idle" /\ rpc[t] = "none"
    /\ Home[s] = NodeOf[t]
    /\ \A r \in created : Id[r] # Id[s]
    /\ BuildObject(s)
    /\ sess' = [sess EXCEPT ![t] = s]
    /\ Goto(t, "insert")
    /\ Awaits(t, "put")
    /\ UNCHANGED <<shutdown, sessions, swept, conn, up, down, slot, guard>>
    /\ UNCHANGED <<cluster, goal, read, role, inbox, hand, got>>

\* create's write lock on the map; the id is known once create returns.
CreateInserts(t) ==
    /\ rpc[t] = "none"
    /\ Insert(t)
    /\ known' = known \cup {MyId(t)}
    /\ UNCHANGED <<store, lock, bus, halted, deleting, raft>>

\* find reads the store.  An id that a caller names is one that a create has
\* returned, or one that no session has.
FindGets(t, i) ==
    /\ pc[t] = "idle" /\ rpc[t] = "none"
    /\ i \in known \/ store[i] = Absent
    /\ \/ /\ store[i] = Absent
          /\ Goto(t, "NotFound")
          /\ UNCHANGED <<rpc, goal>>
       \/ /\ store[i] # Absent
          /\ goal' = [goal EXCEPT ![t] = i]
          /\ Awaits(t, "map")
          /\ UNCHANGED pc
       \/ /\ MayFail
          /\ Goto(t, "Hiqlite")
          /\ UNCHANGED <<rpc, goal>>
    /\ UNCHANGED <<local, sess, cluster, read, role, inbox, hand, got>>

\* find ends with object s.
Found(t, s) ==
    /\ sess' = [sess EXCEPT ![t] = s]
    /\ Goto(t, "Ok")
    /\ Awaits(t, "none")
    /\ goal' = [goal EXCEPT ![t] = NoId]

\* find's read lock on the map.
FindLooks(t) ==
    LET entry == InMap(NodeOf[t], goal[t]) IN
    /\ rpc[t] = "map"
    /\ \/ \E s \in entry : Found(t, s)
       \/ /\ entry = {}
          /\ Awaits(t, "insert")
          /\ UNCHANGED <<pc, sess, goal>>
    /\ UNCHANGED <<local, cluster, read, role, inbox, hand, got>>

\* Mutant: find inserts its new object without looking again.
FindInserts_Overwrites(t, s) ==
    LET entry == InMap(NodeOf[t], goal[t]) IN
    /\ rpc[t] = "insert"
    /\ Home[s] = NodeOf[t] /\ Id[s] = goal[t]
    /\ BuildObject(s)
    /\ sessions' = (sessions \ entry) \cup {s}
    /\ Found(t, s)
    /\ UNCHANGED <<shutdown, swept, conn, up, down, slot, guard>>
    /\ UNCHANGED <<cluster, read, role, inbox, hand, got>>

\* find's write lock on the map: entry().or_insert_with().
FindInserts(t, s) ==
    LET entry == InMap(NodeOf[t], goal[t]) IN
    /\ rpc[t] = "insert"
    /\ Home[s] = NodeOf[t] /\ Id[s] = goal[t]
    /\ \/ /\ s \in entry
          /\ UNCHANGED <<created, cancelled, sessions>>
       \/ /\ entry = {}
          /\ BuildObject(s)
          /\ sessions' = sessions \cup {s}
    /\ Found(t, s)
    /\ UNCHANGED <<shutdown, swept, conn, up, down, slot, guard>>
    /\ UNCHANGED <<cluster, read, role, inbox, hand, got>>

(***************************************************************************)
(* start and stop: a section under the distributed lock of the session id, *)
(* then the same steps as in StandaloneSession.                            *)
(***************************************************************************)
IsStartedAndAfter(t) ==
    /\ ("start" \in Does[t] /\ EnsureStarted(t)) \/ IsStarted(t)
    /\ UNCHANGED <<cluster, raft>>

\* The token check that start and stop begin with, then the lock is awaited.
Begins(t) ==
    /\ rpc[t] = "none"
    /\ Start(t) \/ ("stop" \in Does[t] /\ Stop(t))
    /\ Awaits(t, IF sess[t] \in cancelled THEN "none" ELSE "lock")
    /\ UNCHANGED <<cluster, goal, read, role, inbox, hand, got>>

\* Mutant: the lock is not exclusive.
Locks_Shared(t) ==
    /\ rpc[t] = "lock"
    /\ Awaits(t, "get")
    /\ UNCHANGED <<local, pc, sess, cluster, goal, read, role, inbox, hand, got>>

\* Client::lock of hiqlite.
Locks(t) ==
    /\ rpc[t] = "lock"
    /\ lock[MyId(t)] = Free
    /\ lock' = [lock EXCEPT ![MyId(t)] = t]
    /\ Awaits(t, "get")
    /\ UNCHANGED <<local, pc, sess, store, bus, halted, deleting, known, goal,
                   read, role, inbox, hand, got>>

\* Mutant: a missing entry is not an error.
Gets_Unwraps(t) ==
    LET main == store[MyId(t)] IN
    /\ rpc[t] = "get"
    /\ read' = [read EXCEPT ![t] = IF main = Unset THEN sess[t] ELSE main]
    /\ Awaits(t, "put")
    /\ UNCHANGED <<local, pc, sess, cluster, goal, role, inbox, hand, got>>

\* The store is read.  start puts itself forward when no main session is set and
\* writes the entry back in any case; stop clears the entry when it is the main.
Gets(t) ==
    LET main == store[MyId(t)] IN
    /\ rpc[t] = "get"
    /\ \/ /\ main = Absent
          /\ Fails(t, "AlreadyClosed")
       \/ /\ main # Absent /\ pc[t] = "take"
          /\ read' = [read EXCEPT ![t] = IF main = Unset THEN sess[t] ELSE main]
          /\ Awaits(t, "put")
          /\ UNCHANGED <<local, pc, sess, lock>>
       \/ /\ main = sess[t] /\ pc[t] = "stop"
          /\ read' = [read EXCEPT ![t] = Unset]
          /\ Awaits(t, "put")
          /\ UNCHANGED <<local, pc, sess, lock>>
       \/ /\ main \notin {Absent, sess[t]} /\ pc[t] = "stop"
          /\ Awaits(t, "none")
          /\ Unlock(t)
          /\ UNCHANGED <<local, pc, sess, read>>
    /\ UNCHANGED <<store, bus, halted, deleting, known, goal, role, inbox, hand,
                   got>>

\* The put is committed and the lock dropped.  start now decides: the session
\* recorded as main starts a *sub* session, any other a main session.
Puts(t) ==
    /\ rpc[t] = "put"
    /\ store' = Written(t)
    /\ Unlock(t)
    /\ role' = IF pc[t] # "take" THEN role
               ELSE [role EXCEPT ![t] = IF read[t] = sess[t] THEN "sub" ELSE "main"]
    /\ Awaits(t, IF pc[t] = "take" THEN "token" ELSE "none")
    /\ read' = [read EXCEPT ![t] = Unset]
    /\ UNCHANGED <<local, pc, sess, bus, halted, deleting, known, goal, inbox,
                   hand, got>>

\* start_main_session and start_sub_session check the token once more.
ChecksAgain(t) ==
    /\ rpc[t] = "token"
    /\ CheckToken(t, "take", "AlreadyClosed")
    /\ Awaits(t, "none")
    /\ UNCHANGED <<local, sess, cluster, goal, read, role, inbox, hand, got>>

\* connection.take and the subscription to event_send; then a main session
\* connects to the upstream server, and the relay is spawned.
Takes(t) ==
    /\ rpc[t] = "none"
    /\ Take(t) \/ Connect(t)
    /\ UNCHANGED <<cluster, raft>>

\* Relay t is gone, and its subscription with it.
Unsubscribes(t) == inbox' = [inbox EXCEPT ![t] = NewChannel]

MainConnectFails(t) ==
    /\ role[t] = "main"
    /\ ConnectFails(t)
    /\ Unsubscribes(t)
    /\ UNCHANGED <<cluster, rpc, goal, read, role, hand, got>>

\* The rest of stop, after its section under the distributed lock.
StopsRelay(t) ==
    /\ rpc[t] = "none"
    /\ StopSignals(t) \/ StopTimesOut(t)
    /\ UNCHANGED <<cluster, raft>>

(***************************************************************************)
(* close and the guards.                                                   *)
(***************************************************************************)

\* close checks no token and takes no lock ...
Closes(t) ==
    /\ Calling(t)
    /\ Goto(t, "close")
    /\ Awaits(t, "delete")
    /\ UNCHANGED <<local, sess, cluster, goal, read, role, inbox, hand, got>>

\* ... it deletes the entry ...
Deletes(t) ==
    /\ rpc[t] = "delete"
    /\ store' = Written(t)
    /\ Awaits(t, "notify")
    /\ UNCHANGED <<local, pc, sess, lock, bus, halted, deleting, known, goal,
                   read, role, inbox, hand, got>>

\* ... and tells every node.
NotifiesDelete(t) ==
    /\ rpc[t] = "notify"
    /\ Publish(DeleteSession(MyId(t)))
    /\ Goto(t, "Ok")
    /\ Awaits(t, "none")
    /\ UNCHANGED <<local, sess, store, lock, halted, deleting, known, goal,
                   read, role, inbox, hand, got>>

\* guard_close has no token check.
GuardsClose(t) ==
    /\ Calling(t)
    /\ guard[t] = "none"
    /\ guard' = [guard EXCEPT ![t] = "held"]
    /\ UNCHANGED <<manager, conn, up, down, slot, pc, sess, cluster, raft>>

\* Dropping the SessionGuard cancels the token of this node's object only: the
\* map, the store and the other nodes keep the session.
GuardCloses(t) ==
    /\ GuardCancels(t)
    /\ UNCHANGED <<cluster, raft>>

\* guard_upstream, guard_downstream, guard_bypass_downstream.
Streams(t) ==
    /\ \/ \E k \in Kinds \cap Does[t] :
            \/ GuardStream(t, k) \/ TakeStream(t, k)
            \/ "return" \in Does[t] /\ DropStream(t, k)
       \/ Park(t) \/ GuardTimesOut(t)
    /\ UNCHANGED <<cluster, raft>>

\* The tasks those guards spawned.
StreamReturns(k, s) ==
    /\ ReturnStream(k, s)
    /\ UNCHANGED <<cluster, raft>>

\* The wrappers around the channel ends are those of the standalone manager.
Traffic(t) ==
    /\ \/ Send(t) /\ nsent[sess[t]] < MaxSends[t]
       \/ BypassSend(t) /\ nemit[sess[t]] < MaxDown
       \/ Recv(t)
    /\ UNCHANGED <<cluster, raft>>

\* The task's future is dropped at an await, and with it a distributed lock it
\* holds.  Between a sub session's take and the spawn of its relay there is none.
Drops(t) ==
    /\ Drop(t)
    /\ ~(pc[t] = "connect" /\ role[t] = "sub")
    /\ Awaits(t, "none")
    /\ Unlock(t)
    /\ goal' = [goal EXCEPT ![t] = NoId]
    /\ read' = [read EXCEPT ![t] = Unset]
    /\ inbox' = IF pc[t] = "connect" THEN [inbox EXCEPT ![t] = NewChannel]
                ELSE inbox
    /\ UNCHANGED <<store, bus, halted, deleting, known, role, hand, got>>

(***************************************************************************)
(* The relays.  A main session's relay joins the client channel and the    *)
(* NotifyToMain events to the upstream connection; a sub session's relay   *)
(* turns the client channel into NotifyToMain events and NotifyToSub       *)
(* events into messages for its clients.                                   *)
(***************************************************************************)

\* Relay t stands in its select.
Selects(t) == hand[t] = NoEvent

\* recv.recv() wins: the message is taken, or the gap skipped.
RelayReceives(t) ==
    /\ Selects(t)
    /\ RelayTakes(t) \/ RelayLagged(t)
    /\ UNCHANGED <<cluster, raft>>

\* The message is handed on: to the upstream server or to the cluster.
HandsOn(t) ==
    /\ RelayDelivers(t)
    /\ \/ /\ role[t] = "main"
          /\ got' = [got EXCEPT ![t] = Append(@, <<sess[t], inflight[t]>>)]
          /\ UNCHANGED bus
       \/ /\ role[t] = "sub"
          /\ Publish(NotifyToMain(MyId(t), sess[t], inflight[t]))
          /\ UNCHANGED got
    /\ UNCHANGED <<store, lock, halted, deleting, known, rpc, goal, read, role,
                   inbox, hand>>

\* Sending or notifying fails; the error is logged.
HandOnFails(t) ==
    /\ RelaySinkFails(t)
    /\ UNCHANGED <<cluster, raft>>

\* Mutant: the events are not filtered by session id.
MineOf_AnySession(t, type) == Head(inbox[t].q).type = type

\* The next event of the subscription is of this type and of this session.
MineOf(t, type) ==
    Head(inbox[t].q).type = type /\ Head(inbox[t].q).id = MyId(t)

\* remote_event_recv.recv() wins in a main session: a client message of another
\* node is taken to be sent upstream; other events are skipped.
MainHears(t) ==
    /\ role[t] = "main"
    /\ Selects(t) /\ Idle(t)
    /\ CanReceive(inbox[t])
    /\ hand' = IF MineOf(t, "NotifyToMain")
               THEN [hand EXCEPT ![t] = Head(inbox[t].q)] ELSE hand
    /\ inbox' = [inbox EXCEPT ![t] = Received(@)]
    /\ UNCHANGED <<vars, cluster, rpc, goal, read, role, got>>

\* transport_sink.send of that message ends, well or with an error.
MainPosts(t) ==
    /\ hand[t].type = "NotifyToMain"
    /\ hand' = [hand EXCEPT ![t] = NoEvent]
    /\ \/ got' = [got EXCEPT ![t] = Append(@, hand[t].msg)]
       \/ UNCHANGED got
    /\ UNCHANGED <<vars, cluster, rpc, goal, read, role, inbox>>

\* transport_stream.next() wins in a main session: a message of the server.
ServerSends(t) ==
    /\ role[t] = "main"
    /\ Selects(t) /\ Idle(t)
    /\ hand' = [hand EXCEPT ![t] = NotifyToSub(MyId(t))]
    /\ UNCHANGED <<vars, cluster, rpc, goal, read, role, inbox, got>>

\* The other nodes are notified, or that fails, and this node's clients get it.
MainNotifies(t) ==
    /\ hand[t].type = "NotifyToSub"
    /\ Publish(hand[t]) \/ UNCHANGED bus
    /\ Emit(sess[t])
    /\ hand' = [hand EXCEPT ![t] = NoEvent]
    /\ UNCHANGED <<manager, conn, up, seen, slot, guard, pc, sess>>
    /\ UNCHANGED <<store, lock, halted, deleting, known, rpc, goal, read, role,
                   inbox, got>>

\* remote_event_recv.recv() wins in a sub session: a message of the server is
\* sent to this node's clients; other events are skipped.
SubHears(t) ==
    /\ role[t] = "sub"
    /\ Idle(t)
    /\ CanReceive(inbox[t])
    /\ IF MineOf(t, "NotifyToSub") THEN Emit(sess[t]) ELSE UNCHANGED <<svr, nemit>>
    /\ inbox' = [inbox EXCEPT ![t] = Received(@)]
    /\ UNCHANGED <<manager, conn, up, seen, slot, guard, pc, sess>>
    /\ UNCHANGED <<cluster, rpc, goal, read, role, hand, got>>

\* Events were overwritten: the error is logged and the select runs again.
HearsLagged(t) ==
    /\ Selects(t) /\ Idle(t)
    /\ inbox[t].lagged
    /\ inbox' = [inbox EXCEPT ![t] = LagReported(@)]
    /\ UNCHANGED <<vars, cluster, rpc, goal, read, role, hand, got>>

\* The select ends with the stop token ...
RelayHearsStop(t) ==
    /\ Selects(t)
    /\ RelayStops(t)
    /\ UNCHANGED <<cluster, raft>>

\* ... or, in a main session, with the end of the upstream connection.
ServerHangsUp(t) ==
    /\ role[t] = "main"
    /\ Selects(t)
    /\ UpstreamCloses(t)
    /\ UNCHANGED <<cluster, raft>>

RelayLeaves(t) == RelayHearsStop(t) \/ ServerHangsUp(t)

RelayRestores(t) ==
    /\ Restore(t)
    /\ Unsubscribes(t)
    /\ UNCHANGED <<cluster, rpc, goal, read, role, hand, got>>

(***************************************************************************)
(* Nodes.                                                                  *)
(***************************************************************************)

\* Mutant: the object is taken out of the map and its token left alone.
EventLoop_Forgets(n) ==
    /\ bus[n] # <<>>
    /\ bus' = [bus EXCEPT ![n] = Tail(@)]
    /\ sessions' = sessions \ InMap(n, Head(bus[n]).id)
    /\ UNCHANGED <<shutdown, created, cancelled, swept, conn, up, down, slot,
                   guard, pc, sess>>
    /\ UNCHANGED <<store, lock, halted, deleting, known, raft>>

\* The event loop of node n hears DeleteSession and takes the object out of the
\* map, or passes another event to the relays of the node.  On a halted node the
\* select may choose some more events before it chooses the token.
EventLoop(n) ==
    LET e == Head(bus[n])
        entry == InMap(n, e.id)
        subscribed == {t \in Tasks : NodeOf[t] = n /\ HasEnds(t)} IN
    /\ deleting[n] = Nobody
    /\ bus[n] # <<>>
    /\ bus' = [bus EXCEPT ![n] = Tail(@)]
    /\ \/ /\ e.type = "DeleteSession"
          /\ sessions' = sessions \ entry
          /\ deleting' = [deleting EXCEPT ![n] =
                              IF entry = {} THEN Nobody ELSE CHOOSE s \in entry : TRUE]
          /\ UNCHANGED inbox
       \/ /\ e.type # "DeleteSession"
          /\ inbox' = [t \in Tasks |-> IF t \in subscribed
                                       THEN SendTo(inbox[t], e) ELSE inbox[t]]
          /\ UNCHANGED <<sessions, deleting>>
    /\ UNCHANGED <<shutdown, created, cancelled, swept, conn, up, down, slot,
                   guard, pc, sess>>
    /\ UNCHANGED <<store, lock, halted, known, rpc, goal, read, role, hand, got>>

\* The event loop goes on to cancel the token of the object it took out.
EventLoopCancels(n) ==
    /\ deleting[n] # Nobody
    /\ cancelled' = cancelled \cup {deleting[n]}
    /\ deleting' = [deleting EXCEPT ![n] = Nobody]
    /\ UNCHANGED <<shutdown, created, sessions, swept, conn, up, down, slot,
                   guard, pc, sess>>
    /\ UNCHANGED <<store, lock, bus, halted, known, raft>>

\* The node's token is cancelled: its objects with it, and its event loop may end.
Halt(n) ==
    /\ MayCrash /\ n \notin halted
    /\ halted' = halted \cup {n}
    /\ cancelled' = cancelled \cup {s \in created : Home[s] = n}
    /\ UNCHANGED <<shutdown, created, sessions, swept, conn, up, down, slot,
                   guard, pc, sess>>
    /\ UNCHANGED <<store, lock, bus, deleting, known, raft>>

\* Node n dies and comes back with an empty map.  Its tasks, relays and objects
\* are gone and the events it had not heard are lost.  The cluster releases its
\* locks and keeps the store, and what it had published.
Crash(n) ==
    LET mine == {t \in Tasks : NodeOf[t] = n /\ (pc[t] # "idle" \/ rpc[t] # "none")}
        objects == {s \in created : Home[s] = n} IN
    /\ MayCrash
    /\ pc' = [t \in Tasks |-> IF t \in mine THEN "dropped" ELSE pc[t]]
    /\ rpc' = [t \in Tasks |-> IF t \in mine THEN "none" ELSE rpc[t]]
    /\ relay' = [t \in Tasks |-> IF t \in mine /\ relay[t] # "none"
                                 THEN "exited" ELSE relay[t]]
    /\ guard' = [t \in Tasks |-> IF t \in mine /\ guard[t] # "none"
                                 THEN "notified" ELSE guard[t]]
    /\ goal' = [t \in Tasks |-> IF t \in mine THEN NoId ELSE goal[t]]
    /\ read' = [t \in Tasks |-> IF t \in mine THEN Unset ELSE read[t]]
    /\ inflight' = [t \in Tasks |-> IF t \in mine THEN 0 ELSE inflight[t]]
    /\ hand' = [t \in Tasks |-> IF t \in mine THEN NoEvent ELSE hand[t]]
    /\ inbox' = [t \in Tasks |-> IF t \in mine THEN NewChannel ELSE inbox[t]]
    /\ receiver' = {s \in receiver : s \in objects => connection[s] = Stopped}
    /\ slot' = [k \in Kinds |-> [s \in Sessions |->
                   IF s \in objects THEN InSlot ELSE slot[k][s]]]
    /\ sessions' = sessions \ objects
    /\ cancelled' = cancelled \cup objects
    /\ lock' = [i \in Ids |-> IF lock[i] \in mine THEN Free ELSE lock[i]]
    /\ bus' = [bus EXCEPT ![n] = <<>>]
    /\ deleting' = [deleting EXCEPT ![n] = Nobody]
    /\ halted' = halted \ {n}
    /\ UNCHANGED <<shutdown, created, swept, connection, stop_ct, clt, nsent,
                   delivered, lost, down, sess, store, known, role, got>>

-----------------------------------------------------------------------------
RCalls(t) ==
    \/ \E s \in Sessions : "create" \in Does[t] /\ Create(t, s)
    \/ \E i \in Ids : "find" \in Does[t] /\ FindGets(t, i)
    \/ CreateInserts(t) \/ FindLooks(t)
    \/ \E s \in Sessions : FindInserts(t, s)
    \/ IsStartedAndAfter(t) \/ Begins(t) \/ Locks(t) \/ Gets(t) \/ Puts(t)
    \/ ChecksAgain(t) \/ Takes(t) \/ MainConnectFails(t)
    \/ StopsRelay(t)
    \/ "close" \in Does[t] /\ Closes(t) /\ \A n \in Nodes : Len(bus[n]) < MaxBus
    \/ Deletes(t) \/ NotifiesDelete(t)
    \/ "guard_close" \in Does[t] /\ GuardsClose(t)
    \/ Streams(t) \/ Traffic(t)
    \/ RpcFails(t)
    \/ "drop" \in Does[t] /\ Drops(t)

RRelay(t) ==
    \/ RelayReceives(t) \/ HandsOn(t) \/ HandOnFails(t)
    \/ MainHears(t) \/ MainPosts(t)
    \/ ServerSends(t) /\ nemit[sess[t]] < MaxDown
    \/ MainNotifies(t) \/ SubHears(t) \/ HearsLagged(t)
    \/ RelayLeaves(t) \/ RelayRestores(t)

RNext ==
    \/ \E t \in Tasks : RCalls(t) \/ RRelay(t) \/ GuardCloses(t)
    \/ \E k \in Kinds, s \in Sessions : StreamReturns(k, s)
    \/ \E n \in Nodes : EventLoop(n) \/ EventLoopCancels(n) \/ Halt(n) \/ Crash(n)

RSpec == RInit /\ [][RNext]_rvars

(***************************************************************************)
(* A running node's event loop and the relays are polled when woken, and   *)
(* a send or a notify ends one way or the other.  Nothing is assumed of    *)
(* callers, of connecting, of what the upstream server sends or whether it *)
(* ever hangs up, or of crashes.                                           *)
(***************************************************************************)
RFairSpec ==
    /\ RSpec
    /\ \A n \in Nodes : /\ WF_rvars(n \notin halted /\ EventLoop(n))
                       /\ WF_rvars(EventLoopCancels(n))
    /\ \A t \in Tasks :
         /\ WF_rvars(HandsOn(t) \/ HandOnFails(t))
         /\ WF_rvars(MainPosts(t))
         /\ WF_rvars(MainNotifies(t))
         /\ WF_rvars(RelayHearsStop(t))
         /\ WF_rvars(RelayRestores(t))

-----------------------------------------------------------------------------
(***************************************************************************)
(* Properties.                                                             *)
(***************************************************************************)

\* The recorded main session of an id is never replaced by another: it is
\* cleared by its own stop or deleted with the entry.  The read and the write of
\* start and stop are two calls of the store, close deletes in between, calls
\* fail after their write was committed and nodes crash anywhere.
RecordedMainStable ==
    [][\A i \in Ids :
         store[i] \in Sessions /\ store'[i] # store[i] =>
            \/ store'[i] = Absent
            \/ /\ store'[i] = Unset
               /\ \E t \in Tasks : sess[t] = store[i] /\ pc[t] = "stop"]_rvars

\* Object s is open: no token cancelled, and no event loop about to.
Open(s) == s \notin cancelled /\ \A n \in Nodes : deleting[n] # s

\* Requests for one session id on one node use one object, and with it one pair
\* of channels, as long as the object is open: two finds that both miss the map,
\* or a find after a deletion, never leave two of them in use.
RequestsShareSession ==
    \A t, u \in Tasks :
        /\ pc[t] \in InUse /\ pc[u] \in InUse
        /\ NodeOf[t] = NodeOf[u] /\ MyId(t) = MyId(u)
        /\ Open(sess[t]) /\ Open(sess[u])
        => sess[t] = sess[u]

\* An upstream connection gets only client messages of its own session id, each
\* at most once, and those that another object forwarded in the order they were
\* sent there, whatever relays were stopped and started on the way.
UpstreamGets ==
    \A t \in Tasks : \A j, k \in DOMAIN got[t] :
        /\ Id[got[t][j][1]] = MyId(t)
        /\ j < k /\ got[t][j][1] = got[t][k][1] =>
              IF got[t][j][1] = sess[t] THEN got[t][j][2] # got[t][k][2]
                                        ELSE got[t][j][2] < got[t][k][2]

\* A relay of a session whose DeleteSession event waits to be heard on its node
\* ends, on every node.
DeletedSessionStops ==
    \A t \in Tasks :
        /\ relay[t] = "running"
        /\ sess[t] \in sessions
        /\ \E j \in DOMAIN bus[NodeOf[t]] :
              bus[NodeOf[t]][j] = DeleteSession(MyId(t))
        ~> relay[t] = "exited"

\* raft_schema.rs:22-24: a client message goes from the node with the sub session
\* to the node with the main session and on to the server.  A sub session that
\* has a client message in hand has a main session somewhere to send it to.
SubHasMain ==
    \A t \in Tasks :
        role[t] = "sub" /\ relay[t] = "running" /\ inflight[t] # 0 =>
            \E u \in Tasks : role[u] = "main" /\ relay[u] = "running"
                             /\ MyId(u) = MyId(t)
=============================================================================
