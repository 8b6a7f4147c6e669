------------------------- MODULE StandaloneSession --------------------------
(***************************************************************************)
(* The standalone session manager (session_manager.rs), its sessions       *)
(* (session.rs) and the guards and stream wrappers they hand out (guard.rs,*)
(* stream.rs), under a general caller: a task obtains one session, makes   *)
(* any sequence of calls on it, gives up at the first error (as every `?`  *)
(* in the request handlers does), and may be dropped at any await.         *)
(*                                                                         *)
(* A step is one access to shared state: one token check, one section      *)
(* under a lock, one channel operation.  pc[t] is the await (or the next   *)
(* access) task t stands at, or the result of its last call.               *)
(***************************************************************************)
EXTENDS Integers, Sequences, FiniteSets, BroadcastChannel

CONSTANTS
    Sessions,       \* session ids that Uuid::new_v4 may draw
    NoSession,
    Tasks,          \* request tasks calling the session manager
    MaxUp,          \* bound: client messages sent per session
    MaxDown,        \* bound: messages broadcast to clients per session
    MayShutdown,    \* whether the root token may be cancelled
    Ops             \* the session calls that callers make

\* Values of `connection` and `slot` that are not the task holding the value.
Stopped   == "Stopped"
InSlot    == "InSlot"
Returning == "Returning"

ASSUME TaskAssumption ==
    /\ {Stopped, InSlot, Returning} \cap Tasks = {}
    /\ NoSession \notin Sessions
    /\ MaxUp \in Nat /\ MaxDown \in Nat
    /\ MayShutdown \in BOOLEAN

VARIABLES
    shutdown,    \* the manager's cancel_token is cancelled
    created,     \* sessions StandaloneSession::new has built
    sessions,    \* keys of the manager's session map
    cancelled,   \* sessions whose cancel_token is cancelled
    swept,       \* sessions whose cleanup task has run to its end
    connection,  \* Stopped, or the task whose start took the channel ends
    receiver,    \* sessions whose clt_recv end has not been dropped
    relay,       \* the relay task spawned by task t's start
    stop_ct,     \* tasks whose relay's stop token was cancelled by itself
    inflight,    \* message relay t took and is sending (0: none)
    slot,        \* where each session's Upstream, Downstream and
                 \* BypassDownstream value is
    guard,       \* the SessionGuard of task t
    pc, sess,    \* control point and session of task t
    clt, svr,    \* the two broadcast channels of each session
    nsent, nemit,    \* messages sent into clt and into svr
    delivered, seen, \* messages the upstream server and the SSE clients got
    lost         \* client messages overwritten in clt or failed in the sink

manager == <<shutdown, created, sessions, cancelled, swept>>
conn    == <<connection, receiver, relay, stop_ct>>
up      == <<clt, nsent, delivered, lost, inflight>>
down    == <<svr, nemit, seen>>
vars    == <<manager, conn, up, down, slot, guard, pc, sess>>

-----------------------------------------------------------------------------
Kinds == {"upstream", "downstream", "bypass_downstream"}

Errors == {"NotFound", "AlreadyClosed", "AlreadyStarted", "AlreadyStopped",
           "Timeout", "SseTransport", "Broadcast", "Hiqlite"}

Waiting == {"insert", "is_started", "start", "take", "connect", "parked",
            "stop", "stopping", "close"} \cup Kinds

Phases == {"idle", "Ok", "dropped"} \cup Errors \cup Waiting

TypeOK ==
    /\ shutdown \in BOOLEAN
    /\ created \subseteq Sessions
    /\ sessions \subseteq created
    /\ cancelled \subseteq created
    /\ swept \subseteq cancelled
    /\ connection \in [Sessions -> Tasks \cup {Stopped}]
    /\ receiver \subseteq Sessions
    /\ relay \in [Tasks -> {"none", "running", "exiting", "exited"}]
    /\ stop_ct \subseteq Tasks
    /\ inflight \in [Tasks -> Nat]
    /\ slot \in [Kinds -> [Sessions -> Tasks \cup {InSlot, Returning}]]
    /\ guard \in [Tasks -> {"none", "held", "dropped", "notified"}]
    /\ pc \in [Tasks -> Phases]
    /\ sess \in [Tasks -> created \cup {NoSession}]
    /\ \A t \in Tasks : pc[t] \in {"Ok"} \cup Waiting => sess[t] # NoSession
    /\ clt \in [Sessions -> Channel(Nat)]
    /\ svr \in [Sessions -> Channel(Nat)]
    /\ nsent \in [Sessions -> Nat]
    /\ nemit \in [Sessions -> Nat]
    /\ delivered \in [Sessions -> Seq(Nat)]
    /\ seen \in [Sessions -> Seq(Nat)]
    /\ lost \in [Sessions -> SUBSET Nat]

\* How a task's control state, its relay, its guard and its session go together.
Attached ==
    \A t \in Tasks :
        /\ pc[t] = "idle" => sess[t] = NoSession
        /\ relay[t] # "none" \/ guard[t] # "none" => sess[t] # NoSession
        /\ inflight[t] # 0 => relay[t] = "running"
        /\ pc[t] \in {"is_started", "start", "take", "connect"}
             => relay[t] = "none"

Init ==
    /\ shutdown = FALSE
    /\ created = {} /\ sessions = {} /\ cancelled = {} /\ swept = {}
    /\ connection = [s \in Sessions |-> Stopped]
    /\ receiver = Sessions
    /\ relay = [t \in Tasks |-> "none"]
    /\ stop_ct = {}
    /\ inflight = [t \in Tasks |-> 0]
    /\ slot = [k \in Kinds |-> [s \in Sessions |-> InSlot]]
    /\ guard = [t \in Tasks |-> "none"]
    /\ pc = [t \in Tasks |-> "idle"]
    /\ sess = [t \in Tasks |-> NoSession]
    /\ clt = [s \in Sessions |-> NewChannel]
    /\ svr = [s \in Sessions |-> NewChannel]
    /\ nsent = [s \in Sessions |-> 0]
    /\ nemit = [s \in Sessions |-> 0]
    /\ delivered = [s \in Sessions |-> <<>>]
    /\ seen = [s \in Sessions |-> <<>>]
    /\ lost = [s \in Sessions |-> {}]

-----------------------------------------------------------------------------
Goto(t, p) == pc' = [pc EXCEPT ![t] = p]

\* A task whose last call returned Ok has a session and may make another call.
Calling(t) == pc[t] = "Ok"

\* Every operation begins by reading the session's cancel token.
CheckToken(t, open, closed) ==
    Goto(t, IF sess[t] \in cancelled THEN closed ELSE open)

\* Mutant: the stop token is a root token of its own.
StopCancelled_OwnToken(t) == t \in stop_ct

\* A stop token is a child of the session's cancel token.
StopCancelled(t) == t \in stop_ct \/ sess[t] \in cancelled

(***************************************************************************)
(* The manager.                                                            *)
(***************************************************************************)

\* create, up to the map's write lock: the child token of a cancelled root is
\* born cancelled, and the cleanup task is spawned.
New(t, s) ==
    /\ pc[t] = "idle"
    /\ s \notin created
    /\ created' = created \cup {s}
    /\ cancelled' = IF shutdown THEN cancelled \cup {s} ELSE cancelled
    /\ sess' = [sess EXCEPT ![t] = s]
    /\ Goto(t, "insert")
    /\ UNCHANGED <<shutdown, sessions, swept, conn, up, down, slot, guard>>

\* create, under the map's write lock.
Insert(t) ==
    /\ pc[t] = "insert"
    /\ sessions' = sessions \cup {sess[t]}
    /\ Goto(t, "Ok")
    /\ UNCHANGED <<shutdown, created, cancelled, swept, conn, up, down, slot,
                   guard, sess>>

\* Mutant: find puts back a session it does not find.
Find_OrInsert(t, s) ==
    /\ pc[t] = "idle"
    /\ s \in created
    /\ sessions' = sessions \cup {s}
    /\ sess' = [sess EXCEPT ![t] = s]
    /\ Goto(t, "Ok")
    /\ UNCHANGED <<shutdown, created, cancelled, swept, conn, up, down, slot,
                   guard>>

Find(t, s) ==
    /\ pc[t] = "idle"
    /\ \/ /\ s \in sessions
          /\ sess' = [sess EXCEPT ![t] = s]
          /\ Goto(t, "Ok")
       \/ /\ s \notin sessions
          /\ Goto(t, "NotFound")
          /\ UNCHANGED sess
    /\ UNCHANGED <<manager, conn, up, down, slot, guard>>

\* Mutant: the cleanup task does not await the token.
Cleanup_Eager(s) ==
    /\ s \in created \ swept
    /\ swept' = swept \cup {s}
    /\ sessions' = sessions \ {s}
    /\ UNCHANGED <<shutdown, created, cancelled, conn, up, down, slot, guard,
                   pc, sess>>

\* Mutant: the cleanup task first waits for the connection to be stopped.
Cleanup_WhenStopped(s) ==
    /\ s \in cancelled \ swept
    /\ connection[s] = Stopped
    /\ swept' = swept \cup {s}
    /\ sessions' = sessions \ {s}
    /\ UNCHANGED <<shutdown, created, cancelled, conn, up, down, slot, guard,
                   pc, sess>>

\* The task StandaloneSession::new spawns: remove the session once cancelled.
Cleanup(s) ==
    /\ s \in cancelled \ swept
    /\ swept' = swept \cup {s}
    /\ sessions' = sessions \ {s}
    /\ UNCHANGED <<shutdown, created, cancelled, conn, up, down, slot, guard,
                   pc, sess>>

\* The root token is cancelled, and with it every child token.
Shutdown ==
    /\ MayShutdown /\ ~shutdown
    /\ shutdown' = TRUE
    /\ cancelled' = created
    /\ UNCHANGED <<created, sessions, swept, conn, up, down, slot, guard,
                   pc, sess>>

(***************************************************************************)
(* Starting: ensure_started is is_started and then start, each with its    *)
(* own token check and its own lock section.  A task starts at most one    *)
(* relay, so that the task names the stop token of its start.              *)
(***************************************************************************)
EnsureStarted(t) ==
    /\ Calling(t)
    /\ relay[t] = "none"
    /\ CheckToken(t, "is_started", "start")
    /\ UNCHANGED <<manager, conn, up, down, slot, guard, sess>>

IsStarted(t) ==
    /\ pc[t] = "is_started"
    /\ Goto(t, IF connection[sess[t]] = Stopped THEN "start" ELSE "Ok")
    /\ UNCHANGED <<manager, conn, up, down, slot, guard, sess>>

Start(t) ==
    /\ pc[t] = "start"
    /\ CheckToken(t, "take", "AlreadyClosed")
    /\ UNCHANGED <<manager, conn, up, down, slot, guard, sess>>

\* Mutant: take does not look at the connection's state.
Take_Unchecked(t) ==
    /\ pc[t] = "take"
    /\ connection' = [connection EXCEPT ![sess[t]] = t]
    /\ Goto(t, "connect")
    /\ UNCHANGED <<manager, receiver, relay, stop_ct, up, down, slot, guard,
                   sess>>

\* Mutant: take subscribes anew instead of handing the old receiver over.
Take_Resubscribes(t) ==
    /\ pc[t] = "take"
    /\ \/ /\ connection[sess[t]] = Stopped
          /\ connection' = [connection EXCEPT ![sess[t]] = t]
          /\ clt' = [clt EXCEPT ![sess[t]] = NewChannel]
          /\ Goto(t, "connect")
       \/ /\ connection[sess[t]] # Stopped
          /\ Goto(t, "AlreadyStarted")
          /\ UNCHANGED <<connection, clt>>
    /\ UNCHANGED <<manager, receiver, relay, stop_ct, nsent, delivered, lost,
                   inflight, down, slot, guard, sess>>

\* StandaloneSessionConnection::take.
Take(t) ==
    /\ pc[t] = "take"
    /\ \/ /\ connection[sess[t]] = Stopped
          /\ connection' = [connection EXCEPT ![sess[t]] = t]
          /\ Goto(t, "connect")
       \/ /\ connection[sess[t]] # Stopped
          /\ Goto(t, "AlreadyStarted")
          /\ UNCHANGED connection
    /\ UNCHANGED <<manager, receiver, relay, stop_ct, up, down, slot, guard,
                   sess>>

\* SseTransport::start_with_client succeeds; the relay is spawned.
Connect(t) ==
    /\ pc[t] = "connect"
    /\ relay' = [relay EXCEPT ![t] = "running"]
    /\ Goto(t, "Ok")
    /\ UNCHANGED <<manager, connection, receiver, stop_ct, up, down, slot,
                   guard, sess>>

\* Mutant: the error of a failed connection is swallowed.
ConnectFails_Swallowed(t) ==
    /\ pc[t] = "connect"
    /\ receiver' = receiver \ {sess[t]}
    /\ Goto(t, "Ok")
    /\ UNCHANGED <<manager, connection, relay, stop_ct, up, down, slot, guard,
                   sess>>

\* It fails: the `?` returns and drops both channel ends and the token, while
\* `connection` still says Started.
ConnectFails(t) ==
    /\ pc[t] = "connect"
    /\ receiver' = receiver \ {sess[t]}
    /\ Goto(t, "SseTransport")
    /\ UNCHANGED <<manager, connection, relay, stop_ct, up, down, slot, guard,
                   sess>>

(***************************************************************************)
(* The relay task.                                                         *)
(***************************************************************************)
Idle(t) == relay[t] = "running" /\ inflight[t] = 0

\* recv.recv() wins the select: a message is taken from clt ...
RelayTakes(t) ==
    /\ Idle(t)
    /\ CanReceive(clt[sess[t]])
    /\ inflight' = [inflight EXCEPT ![t] = Head(clt[sess[t]].q)]
    /\ clt' = [clt EXCEPT ![sess[t]] = Received(@)]
    /\ UNCHANGED <<manager, conn, nsent, delivered, lost, down, slot, guard,
                   pc, sess>>

\* ... or the gap is reported and skipped.
RelayLagged(t) ==
    /\ Idle(t)
    /\ clt[sess[t]].lagged
    /\ clt' = [clt EXCEPT ![sess[t]] = LagReported(@)]
    /\ UNCHANGED <<manager, conn, nsent, delivered, lost, inflight, down, slot,
                   guard, pc, sess>>

\* transport_sink.send(msg).await inside the select arm ends well ...
RelayDelivers(t) ==
    /\ inflight[t] # 0
    /\ delivered' = [delivered EXCEPT ![sess[t]] = Append(@, inflight[t])]
    /\ inflight' = [inflight EXCEPT ![t] = 0]
    /\ UNCHANGED <<manager, conn, clt, nsent, lost, down, slot, guard, pc,
                   sess>>

\* ... or with an error that is only logged.
RelaySinkFails(t) ==
    /\ inflight[t] # 0
    /\ lost' = [lost EXCEPT ![sess[t]] = @ \cup {inflight[t]}]
    /\ inflight' = [inflight EXCEPT ![t] = 0]
    /\ UNCHANGED <<manager, conn, clt, nsent, delivered, down, slot, guard,
                   pc, sess>>

\* A message is broadcast into svr.
Emit(s) ==
    /\ nemit' = [nemit EXCEPT ![s] = @ + 1]
    /\ svr' = [svr EXCEPT ![s] = SendTo(@, nemit[s] + 1)]

\* transport_stream.next() yields a message of the upstream server.
RelayFromServer(t) ==
    /\ Idle(t)
    /\ Emit(sess[t])
    /\ UNCHANGED <<manager, conn, up, seen, slot, guard, pc, sess>>

\* transport_stream.next() yields None: the upstream server hung up.
UpstreamCloses(t) ==
    /\ Idle(t)
    /\ relay' = [relay EXCEPT ![t] = "exiting"]
    /\ UNCHANGED <<manager, connection, receiver, stop_ct, up, down, slot,
                   guard, pc, sess>>

\* Mutant: the stop is heard during the send of a message too.
RelayStops_WhileSending(t) ==
    /\ relay[t] = "running"
    /\ StopCancelled(t)
    /\ relay' = [relay EXCEPT ![t] = "exiting"]
    /\ UNCHANGED <<manager, connection, receiver, stop_ct, up, down, slot,
                   guard, pc, sess>>

\* stop_ct.cancelled() wins the select.  recv.recv() ends with Closed only after
\* the map and every caller let go of the session, which is after this token
\* was cancelled: the same step.
RelayStops(t) ==
    /\ Idle(t)
    /\ StopCancelled(t)
    /\ relay' = [relay EXCEPT ![t] = "exiting"]
    /\ UNCHANGED <<manager, connection, receiver, stop_ct, up, down, slot,
                   guard, pc, sess>>

\* Mutant: the relay ends without giving the ends back.
Restore_Forgets(t) ==
    /\ relay[t] = "exiting"
    /\ relay' = [relay EXCEPT ![t] = "exited"]
    /\ UNCHANGED <<manager, connection, receiver, stop_ct, up, down, slot,
                   guard, pc, sess>>

\* StandaloneSessionConnection::restore: put the ends back and cancel the stop
\* token found there; return early from a connection that is already Stopped.
Restore(t) ==
    LET s == sess[t] IN
    /\ relay[t] = "exiting"
    /\ relay' = [relay EXCEPT ![t] = "exited"]
    /\ connection' = [connection EXCEPT ![s] = Stopped]
    /\ stop_ct' = stop_ct \cup ({connection[s]} \ {Stopped})
    /\ UNCHANGED <<manager, receiver, up, down, slot, guard, pc, sess>>

(***************************************************************************)
(* Guards.                                                                 *)
(***************************************************************************)

\* guard_upstream, guard_downstream, guard_bypass_downstream: the token check.
GuardStream(t, k) ==
    /\ Calling(t)
    /\ slot[k][sess[t]] # t
    /\ CheckToken(t, k, "AlreadyClosed")
    /\ UNCHANGED <<manager, conn, up, down, slot, guard, sess>>

\* Mutant: the value is cloned out of the slot, whoever else has it.
TakeStream_Clones(t, k) ==
    /\ pc[t] = k
    /\ slot' = [slot EXCEPT ![k][sess[t]] = t]
    /\ Goto(t, "Ok")
    /\ UNCHANGED <<manager, conn, up, down, guard, sess>>

\* Mutant: the Downstream is subscribed anew for each of its holders.
TakeStream_Resubscribes(t, k) ==
    /\ pc[t] = k
    /\ slot[k][sess[t]] = InSlot
    /\ slot' = [slot EXCEPT ![k][sess[t]] = t]
    /\ svr' = IF k = "downstream" THEN [svr EXCEPT ![sess[t]] = NewChannel] ELSE svr
    /\ Goto(t, "Ok")
    /\ UNCHANGED <<manager, conn, up, nemit, seen, guard, sess>>

\* The slot's lock section that finds a value takes it.
TakeStream(t, k) ==
    /\ pc[t] = k
    /\ slot[k][sess[t]] = InSlot
    /\ slot' = [slot EXCEPT ![k][sess[t]] = t]
    /\ Goto(t, "Ok")
    /\ UNCHANGED <<manager, conn, up, down, guard, sess>>

\* guard_upstream awaits stream_notify after finding the slot empty.  No code
\* notifies it: a parked call is never resumed but by its timeout.
Park(t) ==
    /\ pc[t] = "upstream"
    /\ slot["upstream"][sess[t]] # InSlot
    /\ Goto(t, "parked")
    /\ UNCHANGED <<manager, conn, up, down, slot, guard, sess>>

\* Mutant: only the polling guards have a timeout.
GuardTimesOut_NotParked(t) ==
    /\ pc[t] \in {"downstream", "bypass_downstream"}
    /\ slot[pc[t]][sess[t]] # InSlot
    /\ Goto(t, "Timeout")
    /\ UNCHANGED <<manager, conn, up, down, slot, guard, sess>>

\* Five seconds without a value.  The other two guards poll the slot in a loop.
GuardTimesOut(t) ==
    /\ \/ pc[t] = "parked"
       \/ /\ pc[t] \in {"downstream", "bypass_downstream"}
          /\ slot[pc[t]][sess[t]] # InSlot
    /\ Goto(t, "Timeout")
    /\ UNCHANGED <<manager, conn, up, down, slot, guard, sess>>

\* StreamGuard::drop sends the value to the task the guard_* call spawned ...
DropStream(t, k) ==
    /\ Calling(t)
    /\ slot[k][sess[t]] = t
    /\ slot' = [slot EXCEPT ![k][sess[t]] = Returning]
    /\ UNCHANGED <<manager, conn, up, down, guard, pc, sess>>

\* ... which puts it back into the slot, without notifying stream_notify.
ReturnStream(k, s) ==
    /\ slot[k][s] = Returning
    /\ slot' = [slot EXCEPT ![k][s] = InSlot]
    /\ UNCHANGED <<manager, conn, up, down, guard, pc, sess>>

GuardClose(t) ==
    /\ Calling(t)
    /\ guard[t] = "none"
    /\ CheckToken(t, "Ok", "AlreadyClosed")
    /\ guard' = IF sess[t] \in cancelled THEN guard
                ELSE [guard EXCEPT ![t] = "held"]
    /\ UNCHANGED <<manager, conn, up, down, slot, sess>>

\* Mutant: the spawned task does not wait for the guard's drop.
GuardCancels_Unprompted(t) ==
    /\ guard[t] \in {"held", "dropped"}
    /\ guard' = [guard EXCEPT ![t] = "notified"]
    /\ cancelled' = cancelled \cup {sess[t]}
    /\ UNCHANGED <<shutdown, created, sessions, swept, conn, up, down, slot,
                   pc, sess>>

\* The task guard_close spawned hears the guard's drop and cancels the token.
GuardCancels(t) ==
    /\ guard[t] = "dropped"
    /\ guard' = [guard EXCEPT ![t] = "notified"]
    /\ cancelled' = cancelled \cup {sess[t]}
    /\ UNCHANGED <<shutdown, created, sessions, swept, conn, up, down, slot,
                   pc, sess>>

\* Mutant: a dropped task does not send its streams back.
Drop_KeepsStreams(t) ==
    /\ pc[t] # "dropped"
    /\ Goto(t, "dropped")
    /\ guard' = IF guard[t] = "held" THEN [guard EXCEPT ![t] = "dropped"]
                ELSE guard
    /\ receiver' = IF pc[t] = "connect" THEN receiver \ {sess[t]} ELSE receiver
    /\ UNCHANGED <<manager, connection, relay, stop_ct, up, down, slot, sess>>

\* Mutant: dropping the SessionGuard notifies nobody.
Drop_KeepsGuard(t) ==
    /\ pc[t] # "dropped"
    /\ Goto(t, "dropped")
    /\ slot' = [k \in Kinds |-> [s \in Sessions |->
                   IF slot[k][s] = t THEN Returning ELSE slot[k][s]]]
    /\ receiver' = IF pc[t] = "connect" THEN receiver \ {sess[t]} ELSE receiver
    /\ UNCHANGED <<manager, connection, relay, stop_ct, up, down, guard, sess>>

\* The task's future is dropped: it returned, or its client went away at an
\* await.  Every guard it holds is dropped, and so are the channel ends of a
\* start that is still connecting.
Drop(t) ==
    /\ pc[t] # "dropped"
    /\ Goto(t, "dropped")
    /\ slot' = [k \in Kinds |-> [s \in Sessions |->
                   IF slot[k][s] = t THEN Returning ELSE slot[k][s]]]
    /\ guard' = IF guard[t] = "held" THEN [guard EXCEPT ![t] = "dropped"]
                ELSE guard
    /\ receiver' = IF pc[t] = "connect" THEN receiver \ {sess[t]} ELSE receiver
    /\ UNCHANGED <<manager, connection, relay, stop_ct, up, down, sess>>

(***************************************************************************)
(* Stopping and closing.                                                   *)
(***************************************************************************)
Stop(t) ==
    /\ Calling(t)
    /\ CheckToken(t, "stop", "AlreadyClosed")
    /\ UNCHANGED <<manager, conn, up, down, slot, guard, sess>>

\* Under the connection's lock: cancel the stop token of the current start.
StopSignals(t) ==
    LET c == connection[sess[t]] IN
    /\ pc[t] = "stop"
    /\ Goto(t, IF c = Stopped THEN "AlreadyStopped" ELSE "stopping")
    /\ stop_ct' = stop_ct \cup ({c} \ {Stopped})
    /\ UNCHANGED <<manager, connection, receiver, relay, up, down, slot, guard,
                   sess>>

\* stop waits on stream_notify, which nothing notifies.
StopTimesOut(t) ==
    /\ pc[t] = "stopping"
    /\ Goto(t, "Timeout")
    /\ UNCHANGED <<manager, conn, up, down, slot, guard, sess>>

Close(t) ==
    /\ Calling(t)
    /\ CheckToken(t, "close", "AlreadyClosed")
    /\ UNCHANGED <<manager, conn, up, down, slot, guard, sess>>

CloseCancels(t) ==
    /\ pc[t] = "close"
    /\ cancelled' = cancelled \cup {sess[t]}
    /\ Goto(t, "Ok")
    /\ UNCHANGED <<shutdown, created, sessions, swept, conn, up, down, slot,
                   guard, sess>>

(***************************************************************************)
(* Traffic through the guarded streams.                                    *)
(***************************************************************************)

\* Upstream::send.
Send(t) ==
    LET s == sess[t] IN
    /\ Calling(t)
    /\ slot["upstream"][s] = t
    /\ \/ /\ s \in receiver
          /\ nsent' = [nsent EXCEPT ![s] = @ + 1]
          /\ clt' = [clt EXCEPT ![s] = SendTo(@, nsent[s] + 1)]
          /\ lost' = [lost EXCEPT ![s] = @ \cup Overwritten(clt[s])]
          /\ Goto(t, "Ok")
       \/ /\ s \notin receiver
          /\ Goto(t, "Broadcast")
          /\ UNCHANGED <<nsent, clt, lost>>
    /\ UNCHANGED <<manager, conn, delivered, inflight, down, slot, guard, sess>>

\* BypassDownstream::send.  The session's Downstream end is alive as long as a
\* caller holds the session, so this send has a receiver.
BypassSend(t) ==
    /\ Calling(t)
    /\ slot["bypass_downstream"][sess[t]] = t
    /\ Emit(sess[t])
    /\ Goto(t, "Ok")
    /\ UNCHANGED <<manager, conn, up, seen, slot, guard, sess>>

\* Downstream::recv: a gap is an error to its caller.
Recv(t) ==
    LET s == sess[t] IN
    /\ Calling(t)
    /\ slot["downstream"][s] = t
    /\ \/ /\ CanReceive(svr[s])
          /\ svr' = [svr EXCEPT ![s] = Received(@)]
          /\ seen' = [seen EXCEPT ![s] = Append(@, Head(svr[s].q))]
          /\ Goto(t, "Ok")
       \/ /\ svr[s].lagged
          /\ svr' = [svr EXCEPT ![s] = LagReported(@)]
          /\ Goto(t, "Broadcast")
          /\ UNCHANGED seen
    /\ UNCHANGED <<manager, conn, up, nemit, slot, guard, sess>>

-----------------------------------------------------------------------------
Calls(t) ==
    \/ \E s \in Sessions : New(t, s) \/ Find(t, s)
    \/ EnsureStarted(t)
    \/ "guard_close" \in Ops /\ GuardClose(t)
    \/ \E k \in Kinds \cap Ops : GuardStream(t, k) \/ DropStream(t, k)
    \/ "stop" \in Ops /\ Stop(t)
    \/ "close" \in Ops /\ Close(t)
    \/ Send(t) /\ nsent[sess[t]] < MaxUp
    \/ BypassSend(t) /\ nemit[sess[t]] < MaxDown
    \/ Recv(t)
    \/ Drop(t)

\* The rest of a call once it is made.
Continues(t) ==
    \/ Insert(t)
    \/ IsStarted(t) \/ Start(t) \/ Take(t)
    \/ \E k \in Kinds : TakeStream(t, k)
    \/ Park(t) \/ GuardTimesOut(t)
    \/ StopSignals(t) \/ StopTimesOut(t)
    \/ CloseCancels(t)

Connects(t) == Connect(t) \/ ConnectFails(t)

Relay(t) ==
    \/ RelayTakes(t) \/ RelayLagged(t)
    \/ RelayDelivers(t) \/ RelaySinkFails(t)
    \/ RelayStops(t) \/ Restore(t)

\* What the upstream server does.
Peer(t) ==
    \/ RelayFromServer(t) /\ nemit[sess[t]] < MaxDown
    \/ UpstreamCloses(t)

Spawned ==
    \/ \E s \in Sessions : Cleanup(s)
    \/ \E k \in Kinds, s \in Sessions : ReturnStream(k, s)
    \/ \E t \in Tasks : GuardCancels(t)

Next ==
    \/ \E t \in Tasks :
         Calls(t) \/ Continues(t) \/ Connects(t) \/ Relay(t) \/ Peer(t)
    \/ Spawned
    \/ Shutdown

Spec == Init /\ [][Next]_vars

(***************************************************************************)
(* The runtime polls every woken task again: the tasks the program spawns  *)
(* make progress, and an upstream POST ends one way or the other.  Nothing *)
(* is assumed of callers, of the upstream connection or of its messages.   *)
(***************************************************************************)
FairSpec ==
    /\ Spec
    /\ \A s \in Sessions : WF_vars(Cleanup(s))
    /\ \A k \in Kinds, s \in Sessions : WF_vars(ReturnStream(k, s))
    /\ \A t \in Tasks :
         /\ WF_vars(GuardCancels(t))
         /\ WF_vars(RelayDelivers(t) \/ RelaySinkFails(t))
         /\ WF_vars(RelayStops(t))
         /\ WF_vars(Restore(t))

-----------------------------------------------------------------------------
(***************************************************************************)
(* Properties.                                                             *)
(***************************************************************************)

\* Task t has the channel ends of its session: its start is connecting, or the
\* relay it spawned has not given them back.
HasEnds(t) == pc[t] = "connect" \/ relay[t] \in {"running", "exiting"}

\* At most one start of a session is connecting or relaying, and it is the one
\* whose stop token `connection` holds: `take` under the lock decides the race
\* of two ensure_started calls that both saw the session stopped, so that a
\* later `stop` reaches the relay that runs.
OneRelay ==
    \A t \in Tasks : HasEnds(t) => connection[sess[t]] = t

\* The receiving end of a session's client channel exists exactly while the
\* session is stopped or its current start holds it: a relay that ends always
\* brings it back, and only a start that fails or is dropped loses it, leaving
\* a session that says Started for good.
EndsKept ==
    \A s \in Sessions :
        s \in receiver <=> connection[s] = Stopped \/ HasEnds(connection[s])

\* A session's connection names a task of that session.
OwnerIsOfSession ==
    \A s \in Sessions : connection[s] # Stopped => sess[connection[s]] = s

Increasing(q) == \A i, j \in DOMAIN q : i < j => q[i] < q[j]

\* The upstream server gets a session's client messages in the order they were
\* sent and at most once each, although relays come and go, a send may be under
\* way when the stop comes, and the channel may lag.
DeliveredInOrder == \A s \in Sessions : Increasing(delivered[s])

\* A client message accepted by Upstream::send is delivered, queued or in a
\* relay's hands unless a full channel overwrote it or the sink failed on it,
\* as long as the receiving end exists: stopping and restarting loses nothing.
NothingElseLost ==
    \A s \in receiver :
        1..nsent[s] =
            UNION {{delivered[s][i] : i \in DOMAIN delivered[s]},
                   {clt[s].q[i] : i \in DOMAIN clt[s].q},
                   {inflight[t] : t \in {u \in Tasks : sess[u] = s}} \ {0},
                   lost[s]}

\* Control points of a task that has its session from create or find.
InUse == {"Ok"} \cup (Waiting \ {"insert"})

\* A session some task uses and nobody has cancelled can be found in the map.
LiveSessionIsRegistered ==
    \A t \in Tasks :
        sess[t] \notin cancelled /\ pc[t] \in InUse => sess[t] \in sessions

\* Once its cleanup task has run a session is not in the map, and nothing puts
\* it back, while the manager is not shutting down.
CleanupIsFinal ==
    ~shutdown => swept \cap sessions = {}

\* Between New and Insert only the creating task knows the session, so that only
\* shutdown can cancel it.
FreshUntilInserted ==
    \A t \in Tasks :
        pc[t] = "insert" =>
            /\ sess[t] \notin sessions
            /\ sess[t] \in cancelled => shutdown
            /\ guard[t] = "none"
            /\ \A u \in Tasks \ {t} : sess[u] # sess[t]

\* A stream value out of its slot is held by a task that can still drop it: no
\* task ends, or is dropped at an await, with a stream in its hands.
HolderIsAlive ==
    \A k \in Kinds, s \in Sessions :
        slot[k][s] \in Tasks =>
            sess[slot[k][s]] = s /\ pc[slot[k][s]] # "dropped"

\* A session whose token is cancelled, or whose SessionGuard was dropped, leaves
\* the map for good.
ClosedSessionGoes ==
    \A s \in Sessions :
        s \in cancelled \/ (\E t \in Tasks : sess[t] = s /\ guard[t] = "dropped")
            ~> [](s \notin sessions)

\* A relay whose stop token, or whose session's token, is cancelled ends and
\* gives the channel ends back.
StoppedRelayEnds ==
    \A t \in Tasks :
        relay[t] = "running" /\ (t \in stop_ct \/ sess[t] \in cancelled)
            ~> relay[t] = "exited"
=============================================================================
