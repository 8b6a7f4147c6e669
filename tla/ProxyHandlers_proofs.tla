------------------------ MODULE ProxyHandlers_proofs ------------------------
(***************************************************************************)
(* Machine-checked proofs about ProxyHandlers: what was proved of sessions *)
(* under any caller holds under the handlers; no two SSE responses share a *)
(* session; an open response has a registered session that once had an     *)
(* upstream connection; and nothing but the end of a response closes one.  *)
(***************************************************************************)
EXTENDS ProxyHandlers, StandaloneSession_proofs

\* A step of the handlers is a step of the session manager, or does not touch it.
LEMMA HandlerIsStep == HNext => Step \/ UNCHANGED vars
  <1>. SUFFICES ASSUME HNext PROVE Step \/ UNCHANGED vars
    OBVIOUS
  <1>1. ASSUME NEW t \in Tasks, Handler(t) PROVE Step \/ UNCHANGED vars
    BY <1>1
    DEF Handler, Step, Kinds, Respond, RequestFails, SseStart, SseGuard,
        SseDownstream, SseRespond, SseRecv, SseStreamEnds, MessageStart,
        MessageUnauthorized, MessageBypass, MessageDenied,
        MessageFallsThrough, MessageUpstream, MessageSend, MessageAccepted
  <1>2. ASSUME NEW t \in Tasks, Client(t) PROVE Step
    BY <1>2
    DEF Client, Step, Respond, RequestRejected, SseRefused, SseUnresolved,
        SseSession, MessageFind, ClientDisconnects
  <1>3. ASSUME Runtime PROVE Step
    BY <1>3 DEF Runtime, Continues, Connects, Relay, Peer, Spawned, Step
  <1>. QED
    BY <1>1, <1>2, <1>3 DEF HNext
-----------------------------------------------------------------------------
(***************************************************************************)
(* The invariants of sessions, under the handlers.                         *)
(***************************************************************************)

\* Steps of the composed system keep the session invariants.
LEMMA HandlerKeepsSessions ==
    TypeInv /\ ConnInv /\ RegInv /\ [HNext]_allvars
        => (TypeInv /\ ConnInv /\ RegInv)'
  <1>. SUFFICES ASSUME TypeInv, ConnInv, RegInv, [HNext]_allvars
                PROVE  (TypeInv /\ ConnInv /\ RegInv)'
    OBVIOUS
  <1>1. [Step]_vars
    BY HandlerIsStep DEF allvars
  <1>. QED
    BY <1>1, StepType, StepConn, StepReg

\* Under the handlers too, a session has one relay at most.
THEOREM ProxyRelayExclusion == HSpec => []OneRelay
  <1>1. HInit => TypeInv /\ ConnInv /\ RegInv
    BY InitType, InitConn, InitReg DEF HInit
  <1>2. TypeInv /\ ConnInv /\ RegInv => OneRelay
    BY DEF ConnInv
  <1>. QED
    BY <1>1, <1>2, HandlerKeepsSessions, PTL DEF HSpec

-----------------------------------------------------------------------------
(***************************************************************************)
(* One SSE response per session.                                           *)
(***************************************************************************)

\* A step that moves no task to or from the stages that hold the Downstream keeps
\* StreamHoldsDownstream, provided that Downstream stays where it is held.
LEMMA HoldFrame ==
    ASSUME StreamHoldsDownstream,
           \A t \in Tasks :
               at'[t] \in {"stream", "sse_downstream"} =>
                   /\ at'[t] = at[t] /\ pc'[t] = pc[t] /\ sess'[t] = sess[t],
           \A t \in Tasks, s \in Sessions :
               at'[t] \in {"stream", "sse_downstream"}
                   /\ slot["downstream"][s] = t
                   => slot'["downstream"][s] = t
    PROVE  StreamHoldsDownstream'
  BY DEF StreamHoldsDownstream

HoldInv == at \in [Tasks -> Stages] /\ StreamHoldsDownstream

\* No step below the handlers takes the Downstream from a response.
LEMMA RuntimeHolds ==
    ASSUME TypeInv, HoldInv, Runtime, UNCHANGED hvars
    PROVE  StreamHoldsDownstream'
  <1>. USE TaskAssumption
       DEF HoldInv, TypeInv, TypeOK, Goto, Kinds, manager, conn, up, down, hvars
  <1>1. ASSUME NEW t \in Tasks, NEW k \in Kinds, TakeStream(t, k)
        PROVE  StreamHoldsDownstream'
    <2>1. /\ pc[t] = k /\ sess[t] \in Sessions
          /\ slot[k][sess[t]] = InSlot
          /\ slot' = [slot EXCEPT ![k][sess[t]] = t]
          /\ pc' = [pc EXCEPT ![t] = "Ok"]
          /\ UNCHANGED <<at, sess>>
      BY <1>1 DEF TakeStream, Waiting
    <2>2. ASSUME NEW u \in Tasks, NEW s \in Sessions,
                 slot["downstream"][s] = u
          PROVE  slot'["downstream"][s] = u
      BY <2>1, <2>2
    <2>3. ASSUME at[t] = "sse_downstream"
          PROVE  k = "downstream" /\ slot'["downstream"][sess[t]] = t
      <3>1. pc[t] \in {"downstream", "Ok", "AlreadyClosed", "Timeout"}
        BY <2>3 DEF StreamHoldsDownstream
      <3>2. k = "downstream"
        BY <2>1, <3>1
      <3>3. slot'[k][sess[t]] = t
        BY <2>1
      <3>. QED
        BY <3>2, <3>3
    <2>4. at[t] # "stream"
      BY <2>1 DEF StreamHoldsDownstream
    <2>5. ASSUME NEW u \in Tasks \ {t}
          PROVE  pc'[u] = pc[u]
      BY <2>1
    <2>. QED
      BY <2>1, <2>2, <2>3, <2>4, <2>5 DEF StreamHoldsDownstream
  <1>2. ASSUME NEW t \in Tasks, GuardTimesOut(t) PROVE StreamHoldsDownstream'
    BY <1>2
    DEF GuardTimesOut, StreamHoldsDownstream
  <1>3. ASSUME NEW t \in Tasks, Insert(t) PROVE StreamHoldsDownstream'
    BY <1>3, HoldFrame
    DEF Insert, StreamHoldsDownstream
  <1>4. ASSUME NEW t \in Tasks, IsStarted(t) PROVE StreamHoldsDownstream'
    BY <1>4, HoldFrame
    DEF IsStarted, StreamHoldsDownstream
  <1>5. ASSUME NEW t \in Tasks, Start(t) PROVE StreamHoldsDownstream'
    BY <1>5, HoldFrame
    DEF Start, CheckToken, StreamHoldsDownstream
  <1>6. ASSUME NEW t \in Tasks, Take(t) PROVE StreamHoldsDownstream'
    <2>1. at[t] \notin {"stream", "sse_downstream"}
      BY <1>6 DEF Take, StreamHoldsDownstream
    <2>2. \A u \in Tasks \ {t} : pc'[u] = pc[u]
      BY <1>6 DEF Take
    <2>3. UNCHANGED <<at, sess, slot>>
      BY <1>6 DEF Take
    <2>. QED
      BY <2>1, <2>2, <2>3, HoldFrame
  <1>7. ASSUME NEW t \in Tasks, Park(t) PROVE StreamHoldsDownstream'
    BY <1>7, HoldFrame
    DEF Park, StreamHoldsDownstream
  <1>8. ASSUME NEW t \in Tasks, StopSignals(t) PROVE StreamHoldsDownstream'
    BY <1>8, HoldFrame
    DEF StopSignals, StreamHoldsDownstream
  <1>9. ASSUME NEW t \in Tasks, StopTimesOut(t) PROVE StreamHoldsDownstream'
    BY <1>9, HoldFrame
    DEF StopTimesOut, StreamHoldsDownstream
  <1>10. ASSUME NEW t \in Tasks, CloseCancels(t) PROVE StreamHoldsDownstream'
    BY <1>10, HoldFrame
    DEF CloseCancels, StreamHoldsDownstream
  <1>11. ASSUME NEW t \in Tasks, Connect(t) PROVE StreamHoldsDownstream'
    BY <1>11, HoldFrame
    DEF Connect, StreamHoldsDownstream
  <1>12. ASSUME NEW t \in Tasks, ConnectFails(t) PROVE StreamHoldsDownstream'
    BY <1>12, HoldFrame
    DEF ConnectFails, StreamHoldsDownstream
  <1>13. ASSUME NEW t \in Tasks, RelayTakes(t) PROVE StreamHoldsDownstream'
    BY <1>13, HoldFrame
    DEF RelayTakes, Idle, StreamHoldsDownstream
  <1>14. ASSUME NEW t \in Tasks, RelayLagged(t) PROVE StreamHoldsDownstream'
    BY <1>14, HoldFrame
    DEF RelayLagged, Idle, StreamHoldsDownstream
  <1>15. ASSUME NEW t \in Tasks, RelayDelivers(t) PROVE StreamHoldsDownstream'
    BY <1>15, HoldFrame
    DEF RelayDelivers, StreamHoldsDownstream
  <1>16. ASSUME NEW t \in Tasks, RelaySinkFails(t) PROVE StreamHoldsDownstream'
    BY <1>16, HoldFrame
    DEF RelaySinkFails, StreamHoldsDownstream
  <1>17. ASSUME NEW t \in Tasks, RelayStops(t) PROVE StreamHoldsDownstream'
    BY <1>17, HoldFrame
    DEF RelayStops, Idle, StreamHoldsDownstream
  <1>18. ASSUME NEW t \in Tasks, Restore(t) PROVE StreamHoldsDownstream'
    BY <1>18, HoldFrame
    DEF Restore, StreamHoldsDownstream
  <1>19. ASSUME NEW t \in Tasks, RelayFromServer(t) PROVE StreamHoldsDownstream'
    BY <1>19, HoldFrame
    DEF RelayFromServer, Idle, Emit, StreamHoldsDownstream
  <1>20. ASSUME NEW t \in Tasks, UpstreamCloses(t) PROVE StreamHoldsDownstream'
    BY <1>20, HoldFrame
    DEF UpstreamCloses, Idle, StreamHoldsDownstream
  <1>21. ASSUME NEW t \in Tasks, GuardCancels(t) PROVE StreamHoldsDownstream'
    BY <1>21, HoldFrame
    DEF GuardCancels, StreamHoldsDownstream
  <1>22. ASSUME NEW s \in Sessions, Cleanup(s) PROVE StreamHoldsDownstream'
    BY <1>22, HoldFrame
    DEF Cleanup
  <1>23. ASSUME NEW k \in Kinds, NEW s \in Sessions, ReturnStream(k, s) PROVE StreamHoldsDownstream'
    BY <1>23, HoldFrame
    DEF ReturnStream
  <1>24. ASSUME Shutdown PROVE StreamHoldsDownstream'
    BY <1>24, HoldFrame
    DEF Shutdown
  <1>. QED
    BY <1>1, <1>2, <1>3, <1>4, <1>5, <1>6, <1>7, <1>8, <1>9, <1>10, <1>11, <1>12, <1>13, <1>14, <1>15, <1>16, <1>17, <1>18, <1>19, <1>20, <1>21, <1>22, <1>23, <1>24
    DEF Runtime, Continues, Connects, Relay, Peer, Spawned

\* No step of a handler or a client does, but the end of the response itself.
LEMMA HandlersHold ==
    ASSUME TypeInv, HoldInv, NEW t \in Tasks, Handler(t) \/ Client(t)
    PROVE  HoldInv'
  <1>. USE TaskAssumption
       DEF HoldInv, TypeInv, TypeOK, Goto, Kinds, Enter, Stages, SseStages,
           MessageStages
  <1>1. ASSUME Drop(t), Enter(t, "done") \/ Enter(t, "gone") PROVE HoldInv'
    <2>1. ASSUME NEW u \in Tasks \ {t}, NEW s \in Sessions,
                 slot["downstream"][s] = u
          PROVE  slot'["downstream"][s] = u
      BY <1>1, <2>1 DEF Drop
    <2>2. StreamHoldsDownstream'
      BY <1>1, <2>1, HoldFrame DEF Drop
    <2>3. at' \in [Tasks -> Stages]
      BY <1>1
    <2>. QED
      BY <2>2, <2>3
  <1>2. CASE RequestFails(t)
    BY <1>2, <1>1
    DEF RequestFails, Respond
  <1>3. CASE SseStreamEnds(t)
    BY <1>3, <1>1
    DEF SseStreamEnds, Respond
  <1>4. CASE MessageUnauthorized(t)
    BY <1>4, <1>1
    DEF MessageUnauthorized, Respond
  <1>5. CASE MessageAccepted(t)
    BY <1>5, <1>1
    DEF MessageAccepted, Respond
  <1>6. CASE RequestRejected(t)
    BY <1>6, <1>1
    DEF RequestRejected, Respond
  <1>7. CASE SseRefused(t)
    BY <1>7, <1>1
    DEF SseRefused, Respond
  <1>8. CASE SseUnresolved(t)
    BY <1>8, <1>1
    DEF SseUnresolved, Respond
  <1>9. CASE ClientDisconnects(t)
    BY <1>9, <1>1
    DEF ClientDisconnects, Respond
  <1>10. CASE SseSession(t)
    BY <1>10, HoldFrame
    DEF SseSession, New, Find
  <1>11. CASE SseStart(t)
    BY <1>11, HoldFrame
    DEF SseStart, EnsureStarted, CheckToken
  <1>12. CASE SseGuard(t)
    BY <1>12, HoldFrame
    DEF SseGuard, GuardClose, CheckToken
  <1>13. CASE MessageFind(t)
    BY <1>13, HoldFrame
    DEF MessageFind, Find
  <1>14. CASE MessageStart(t)
    BY <1>14, HoldFrame
    DEF MessageStart, EnsureStarted, CheckToken
  <1>15. CASE MessageBypass(t)
    BY <1>15, HoldFrame
    DEF MessageBypass, GuardStream, CheckToken
  <1>16. CASE MessageDenied(t)
    BY <1>16, HoldFrame
    DEF MessageDenied, BypassSend, Emit
  <1>17. CASE MessageFallsThrough(t)
    BY <1>17, HoldFrame
    DEF MessageFallsThrough, DropStream
  <1>18. CASE MessageUpstream(t)
    BY <1>18, HoldFrame
    DEF MessageUpstream, GuardStream, CheckToken
  <1>19. CASE MessageSend(t)
    BY <1>19, HoldFrame
    DEF MessageSend, Send
  <1>20. CASE SseDownstream(t)
    BY <1>20
    DEF SseDownstream, GuardStream, CheckToken, Calling, StreamHoldsDownstream
  <1>21. CASE SseRespond(t)
    BY <1>21
    DEF SseRespond, StreamHoldsDownstream, vars
  <1>22. CASE SseRecv(t)
    <2>1. /\ at[t] = "stream"
          /\ UNCHANGED <<at, sess, slot>>
      BY <1>22 DEF SseRecv, Recv, hvars
    <2>2. pc' = [pc EXCEPT ![t] = "Ok"] \/ pc' = [pc EXCEPT ![t] = "Broadcast"]
      BY <1>22 DEF SseRecv, Recv
    <2>3. pc'[t] \in {"Ok", "Broadcast"} /\ \A u \in Tasks \ {t} : pc'[u] = pc[u]
      BY <2>2
    <2>. QED
      BY <2>1, <2>3 DEF StreamHoldsDownstream
  <1>. QED
    BY <1>2, <1>3, <1>4, <1>5, <1>6, <1>7, <1>8, <1>9, <1>10, <1>11, <1>12, <1>13, <1>14, <1>15, <1>16, <1>17, <1>18, <1>19, <1>20, <1>21, <1>22
    DEF Handler, Client

\* The responses of two /sse requests never hold one session's Downstream at the
\* same time, whichever requests race for it: what sse.rs streams to one client
\* no other client gets.
THEOREM OneStream == HSpec => []OneStreamPerSession
  <1>1. HInit => TypeInv /\ HoldInv
    BY InitType DEF HInit, HoldInv, Stages, StreamHoldsDownstream
  <1>2. TypeInv /\ HoldInv /\ [HNext]_allvars => (TypeInv /\ HoldInv)'
    <2>. SUFFICES ASSUME TypeInv, HoldInv, [HNext]_allvars
                  PROVE  (TypeInv /\ HoldInv)'
      OBVIOUS
    <2>1. TypeInv'
      BY HandlerIsStep, StepType DEF allvars
    <2>2. ASSUME NEW t \in Tasks, Handler(t) \/ Client(t) PROVE HoldInv'
      BY <2>2, HandlersHold
    <2>3. ASSUME Runtime, UNCHANGED hvars PROVE HoldInv'
      BY <2>3, RuntimeHolds DEF HoldInv, hvars
    <2>4. ASSUME UNCHANGED allvars PROVE HoldInv'
      BY <2>4 DEF HoldInv, StreamHoldsDownstream, allvars, hvars, vars
    <2>. QED
      BY <2>1, <2>2, <2>3, <2>4 DEF HNext
  <1>3. HoldInv => OneStreamPerSession
    BY DEF HoldInv, StreamHoldsDownstream, OneStreamPerSession
  <1>. QED
    BY <1>1, <1>2, <1>3, PTL DEF HSpec

-----------------------------------------------------------------------------
(***************************************************************************)
(* Control: where a request stands in its session call, by the stage of    *)
(* its handler.                                                            *)
(***************************************************************************)

\* Where a task may stand while its handler is at a stage.
Control(stage) ==
    CASE stage = "none" -> {"idle"}
      [] stage \in {"done", "gone"} -> {"dropped"}
      [] stage = "sse_session" -> {"insert", "Ok", "NotFound"}
      [] stage = "msg_find" -> {"Ok", "NotFound"}
      [] stage \in {"sse_start", "msg_start"} ->
           {"is_started", "start", "take", "connect", "Ok", "AlreadyClosed",
            "AlreadyStarted", "SseTransport"}
      [] stage = "sse_guard" -> {"Ok", "AlreadyClosed"}
      [] stage = "sse_downstream" ->
           {"downstream", "Ok", "AlreadyClosed", "Timeout"}
      [] stage = "msg_bypass" ->
           {"bypass_downstream", "Ok", "AlreadyClosed", "Timeout"}
      [] stage = "msg_upstream" ->
           {"upstream", "parked", "Ok", "AlreadyClosed", "Timeout"}
      [] stage \in {"msg_denied", "msg_forward"} -> {"Ok"}
      [] OTHER -> {"Ok", "Broadcast"}

InControl == \A t \in Tasks : pc[t] \in Control(at[t])

\* Where a session call goes from control point p without its caller.
After(p) ==
    CASE p \in {"insert", "close"} -> {"Ok"}
      [] p = "is_started" -> {"start", "Ok"}
      [] p = "start" -> {"take", "AlreadyClosed"}
      [] p = "take" -> {"connect", "AlreadyStarted"}
      [] p = "connect" -> {"Ok", "SseTransport"}
      [] p = "upstream" -> {"parked", "Ok"}
      [] p \in {"downstream", "bypass_downstream"} -> {"Ok", "Timeout"}
      [] p = "stop" -> {"stopping", "AlreadyStopped"}
      [] p \in {"parked", "stopping"} -> {"Timeout"}
      [] OTHER -> {}

\* No call leaves the control points of its stage by itself.
LEMMA ControlClosed ==
    ASSUME NEW stage \in Stages, NEW p \in Control(stage)
    PROVE  After(p) \subseteq Control(stage)
  <1>1. CASE stage \in {"none", "done", "gone", "sse_session", "msg_find"}
    BY <1>1 DEF Control, After
  <1>2. CASE stage \in {"sse_start", "msg_start"}
    BY <1>2 DEF Control, After
  <1>3. CASE stage \in {"sse_downstream", "msg_bypass", "msg_upstream"}
    BY <1>3 DEF Control, After
  <1>4. CASE stage \in {"sse_guard", "msg_denied", "msg_forward", "msg_sent",
                        "stream"}
    BY <1>4 DEF Control, After
  <1>. QED
    BY <1>1, <1>2, <1>3, <1>4 DEF Stages, SseStages, MessageStages

\* A step below the handlers moves at most one call along After; a call that finds
\* its session started moves to Ok for that reason, one that connects has its
\* relay running then.
LEMMA RuntimeMoves ==
    ASSUME TypeInv, Runtime
    PROVE  /\ sess' = sess
           /\ \/ pc' = pc
              \/ \E t \in Tasks : \E p \in After(pc[t]) :
                   /\ pc' = [pc EXCEPT ![t] = p]
                   /\ pc[t] = "is_started" /\ p = "Ok"
                        => connection[sess[t]] # Stopped
                   /\ pc[t] = "connect" /\ p = "Ok" => relay'[t] = "running"
  <1>. DEFINE Moves(t) ==
         \E p \in After(pc[t]) :
           /\ pc' = [pc EXCEPT ![t] = p]
           /\ pc[t] = "is_started" /\ p = "Ok" => connection[sess[t]] # Stopped
           /\ pc[t] = "connect" /\ p = "Ok" => relay'[t] = "running"
  <1>. USE DEF Goto, CheckToken
  <1>1. ASSUME NEW t \in Tasks, Continues(t)
        PROVE  sess' = sess /\ Moves(t)
    <2>1. CASE Insert(t)
      BY <2>1 DEF Insert, After
    <2>2. CASE IsStarted(t)
      BY <2>2 DEF IsStarted, After
    <2>3. CASE Start(t)
      BY <2>3 DEF Start, After
    <2>4. CASE Take(t)
      BY <2>4 DEF Take, After
    <2>5. ASSUME NEW k \in Kinds, TakeStream(t, k)
          PROVE  sess' = sess /\ Moves(t)
      BY <2>5 DEF TakeStream, After, Kinds
    <2>6. CASE Park(t)
      BY <2>6 DEF Park, After
    <2>7. CASE GuardTimesOut(t)
      BY <2>7 DEF GuardTimesOut, After
    <2>8. CASE StopSignals(t)
      BY <2>8 DEF StopSignals, After
    <2>9. CASE StopTimesOut(t)
      BY <2>9 DEF StopTimesOut, After
    <2>10. CASE CloseCancels(t)
      BY <2>10 DEF CloseCancels, After
    <2>. QED
      BY <1>1, <2>1, <2>2, <2>3, <2>4, <2>5, <2>6, <2>7, <2>8, <2>9, <2>10
      DEF Continues
  <1>2. ASSUME NEW t \in Tasks, Connects(t)
        PROVE  sess' = sess /\ Moves(t)
    <2>1. CASE Connect(t)
      <3>1. relay'[t] = "running"
        BY <2>1 DEF Connect, TypeInv, TypeOK
      <3>. QED
        BY <2>1, <3>1 DEF Connect, After
    <2>2. CASE ConnectFails(t)
      BY <2>2 DEF ConnectFails, After
    <2>. QED
      BY <1>2, <2>1, <2>2 DEF Connects
  <1>3. ASSUME NEW t \in Tasks, Relay(t) \/ Peer(t)
        PROVE  sess' = sess /\ pc' = pc
    BY <1>3 DEF Relay, Peer, RelayTakes, RelayLagged, RelayDelivers,
                RelaySinkFails, RelayStops, Restore, RelayFromServer,
                UpstreamCloses
  <1>4. ASSUME Spawned \/ Shutdown
        PROVE  sess' = sess /\ pc' = pc
    BY <1>4 DEF Spawned, Shutdown, Cleanup, ReturnStream, GuardCancels
  <1>. QED
    BY <1>1, <1>2, <1>3, <1>4 DEF Runtime

\* A handler step moves its own task, to a control point of the stage it enters.
LEMMA HandlerMoves ==
    ASSUME TypeInv, at \in [Tasks -> Stages], InControl,
           NEW t \in Tasks, Handler(t) \/ Client(t)
    PROVE  \E stage \in Stages : \E p \in Control(stage) :
             /\ at' = [at EXCEPT ![t] = stage]
             /\ pc' = [pc EXCEPT ![t] = p]
  <1>. DEFINE Moves == \E stage \in Stages : \E p \in Control(stage) :
                         /\ at' = [at EXCEPT ![t] = stage]
                         /\ pc' = [pc EXCEPT ![t] = p]
  <1>. USE DEF Goto, CheckToken, Enter, Stages, SseStages, MessageStages
  <1>0. at[t] \in Stages /\ pc[t] \in Control(at[t])
        /\ at = [at EXCEPT ![t] = at[t]] /\ pc = [pc EXCEPT ![t] = pc[t]]
    BY DEF InControl, TypeInv, TypeOK
  <1>1. ASSUME Drop(t), Enter(t, "done") \/ Enter(t, "gone") PROVE Moves
    BY <1>1 DEF Drop, Control
  <1>2. CASE RequestFails(t) \/ SseStreamEnds(t) \/ MessageUnauthorized(t)
             \/ MessageAccepted(t)
    BY <1>2, <1>1
    DEF RequestFails, SseStreamEnds, MessageUnauthorized, MessageAccepted, Respond
  <1>3. CASE RequestRejected(t) \/ SseRefused(t) \/ SseUnresolved(t)
             \/ ClientDisconnects(t)
    BY <1>3, <1>1
    DEF RequestRejected, SseRefused, SseUnresolved, ClientDisconnects, Respond
  <1>4. CASE SseSession(t)
    BY <1>4 DEF SseSession, New, Find, Control
  <1>5. CASE SseStart(t)
    BY <1>5 DEF SseStart, EnsureStarted, Control
  <1>6. CASE SseGuard(t)
    BY <1>6 DEF SseGuard, GuardClose, Control
  <1>7. CASE SseDownstream(t)
    BY <1>7 DEF SseDownstream, GuardStream, Control
  <1>8. CASE SseRespond(t)
    BY <1>8, <1>0 DEF SseRespond, vars, Control
  <1>9. CASE SseRecv(t)
    <2>1. at' = [at EXCEPT ![t] = "stream"]
      BY <1>9, <1>0 DEF SseRecv, hvars
    <2>2. pc' = [pc EXCEPT ![t] = "Ok"] \/ pc' = [pc EXCEPT ![t] = "Broadcast"]
      BY <1>9 DEF SseRecv, Recv
    <2>. QED
      BY <2>1, <2>2 DEF Control
  <1>10. CASE MessageFind(t)
    BY <1>10 DEF MessageFind, Find, Control
  <1>11. CASE MessageStart(t)
    BY <1>11 DEF MessageStart, EnsureStarted, Control
  <1>12. CASE MessageBypass(t)
    BY <1>12 DEF MessageBypass, GuardStream, Control
  <1>13. CASE MessageDenied(t)
    BY <1>13 DEF MessageDenied, BypassSend, Control
  <1>14. CASE MessageFallsThrough(t)
    BY <1>14, <1>0 DEF MessageFallsThrough, DropStream, Calling, Control
  <1>15. CASE MessageUpstream(t)
    BY <1>15 DEF MessageUpstream, GuardStream, Control
  <1>16. CASE MessageSend(t)
    BY <1>16 DEF MessageSend, Send, Control
  <1>. QED
    BY <1>2, <1>3, <1>4, <1>5, <1>6, <1>7, <1>8, <1>9, <1>10, <1>11, <1>12, <1>13,
       <1>14, <1>15, <1>16 DEF Handler, Client

\* Every step leaves every task at a control point of its stage.
LEMMA StepControl ==
    ASSUME TypeInv, at \in [Tasks -> Stages], InControl, [HNext]_allvars
    PROVE  at' \in [Tasks -> Stages] /\ InControl'
  <1>0. DOMAIN pc = Tasks
    BY DEF TypeInv, TypeOK
  <1>1. ASSUME NEW t \in Tasks, Handler(t) \/ Client(t)
        PROVE  at' \in [Tasks -> Stages] /\ InControl'
    <2>1. PICK stage \in Stages : \E p \in Control(stage) :
             at' = [at EXCEPT ![t] = stage] /\ pc' = [pc EXCEPT ![t] = p]
      BY <1>1, HandlerMoves
    <2>. QED
      BY <1>0, <2>1 DEF InControl
  <1>2. ASSUME Runtime, UNCHANGED hvars
        PROVE  at' \in [Tasks -> Stages] /\ InControl'
    <2>1. at' = at
      BY <1>2 DEF hvars
    <2>2. ASSUME NEW t \in Tasks, NEW p \in After(pc[t]),
                 pc' = [pc EXCEPT ![t] = p]
          PROVE  InControl'
      <3>1. p \in Control(at[t])
        BY <2>2, ControlClosed DEF InControl
      <3>. QED
        BY <1>0, <2>1, <2>2, <3>1 DEF InControl
    <2>. QED
      BY <1>2, <2>1, <2>2, RuntimeMoves DEF InControl
  <1>3. CASE UNCHANGED allvars
    BY <1>3 DEF allvars, hvars, vars, InControl
  <1>. QED
    BY <1>1, <1>2, <1>3 DEF HNext

\* Types of the handlers' own state.
HandlerTypes ==
    /\ announced \subseteq created
    /\ at \in [Tasks -> Stages]
    /\ verdict \in [Tasks -> Verdicts]
    /\ ticket \in [Tasks -> Nat]
    /\ reply \in [Tasks -> {0, 200, 202, 400, 401, 403, 500}]

HandlerInv == TypeInv /\ HandlerTypes /\ InControl

\* The initial state: no request has arrived.
LEMMA InitHandlers == HInit => HandlerInv
  <1>. SUFFICES ASSUME HInit PROVE HandlerInv
    OBVIOUS
  <1>1. TypeInv
    BY InitType DEF HInit
  <1>2. HandlerTypes
    BY DEF HInit, HandlerTypes, Stages, Verdicts
  <1>3. InControl
    BY DEF HInit, Init, InControl, Control
  <1>. QED
    BY <1>1, <1>2, <1>3 DEF HandlerInv

\* Every step keeps the handlers' types.
LEMMA StepHandlers == HandlerInv /\ [HNext]_allvars => HandlerInv'
  <1>. SUFFICES ASSUME HandlerInv, [HNext]_allvars PROVE HandlerInv'
    OBVIOUS
  <1>1. TypeInv' /\ created \subseteq created'
    BY HandlerIsStep, StepType, StepLasting DEF allvars, HandlerInv, Lasting
  <1>2. at' \in [Tasks -> Stages] /\ InControl'
    BY StepControl DEF HandlerInv, HandlerTypes
  <1>3. ASSUME NEW t \in Tasks, Handler(t) \/ Client(t) PROVE HandlerTypes'
    <2>1. ASSUME UNCHANGED <<announced, verdict, ticket>>,
                 reply' = reply
                   \/ \E code \in {200, 202, 400, 401, 403, 500} :
                        reply' = [reply EXCEPT ![t] = code]
          PROVE  HandlerTypes'
      BY <1>1, <1>2, <2>1 DEF HandlerInv, HandlerTypes
    <2>2. \A e : Status(e) \in {200, 202, 400, 401, 403, 500}
      BY DEF Status
    <2>3. CASE RequestFails(t) \/ SseStreamEnds(t) \/ MessageUnauthorized(t)
               \/ MessageAccepted(t) \/ SseStart(t) \/ SseGuard(t)
               \/ SseDownstream(t) \/ SseRecv(t)
      BY <2>1, <2>2, <2>3
      DEF RequestFails, SseStreamEnds, MessageUnauthorized, MessageAccepted,
          SseStart, SseGuard, SseDownstream, SseRecv, Respond, ToErrResponse, hvars
    <2>4. CASE RequestRejected(t) \/ SseRefused(t) \/ SseUnresolved(t)
               \/ ClientDisconnects(t) \/ SseSession(t)
      BY <2>1, <2>2, <2>4
      DEF RequestRejected, SseRefused, SseUnresolved, ClientDisconnects,
          SseSession, Respond, ToErrResponse, RejectionStatus
    <2>5. CASE MessageStart(t) \/ MessageBypass(t) \/ MessageDenied(t)
               \/ MessageFallsThrough(t) \/ MessageUpstream(t)
      BY <2>1, <2>5
      DEF MessageStart, MessageBypass, MessageDenied, MessageFallsThrough,
          MessageUpstream
    <2>6. CASE SseRespond(t)
      <3>1. sess[t] \in created
        BY <2>6 DEF SseRespond, HandlerInv, TypeInv, TypeOK
      <3>. QED
        BY <1>1, <1>2, <2>6, <3>1 DEF SseRespond, HandlerInv, HandlerTypes
    <2>7. CASE MessageFind(t)
      BY <1>1, <1>2, <2>7, RequestAssumption
      DEF MessageFind, HandlerInv, HandlerTypes
    <2>8. CASE MessageSend(t)
      <3>1. nsent[sess[t]] \in Nat
        BY <2>8 DEF MessageSend, Send, Calling, HandlerInv, TypeInv, TypeOK
      <3>. QED
        BY <1>1, <1>2, <2>8, <3>1 DEF MessageSend, HandlerInv, HandlerTypes
    <2>. QED
      BY <1>3, <2>3, <2>4, <2>5, <2>6, <2>7, <2>8 DEF Handler, Client
  <1>4. UNCHANGED hvars => HandlerTypes'
    BY <1>1 DEF hvars, HandlerInv, HandlerTypes
  <1>5. HandlerTypes'
    BY <1>3, <1>4 DEF HNext, allvars
  <1>. QED
    BY <1>1, <1>2, <1>5 DEF HandlerInv

\* Type correctness under the handlers: every stage has its own control points,
\* so that a handler whose stage waits for one call is never found inside
\* another, and a task has ended exactly when its request has.
THEOREM HandlerTypeCorrect == HSpec => []HTypeOK
  <1>1. HandlerInv => HTypeOK
    <2>. SUFFICES ASSUME HandlerInv PROVE HTypeOK
      OBVIOUS
    <2>1. ASSUME NEW t \in Tasks
          PROVE  /\ at[t] = "none" <=> pc[t] = "idle"
                 /\ at[t] \in {"done", "gone"} <=> pc[t] = "dropped"
      <3>1. pc[t] \in Control(at[t]) /\ at[t] \in Stages
        BY DEF HandlerInv, HandlerTypes, InControl
      <3>2. CASE at[t] \in {"none", "done", "gone"}
        BY <3>1, <3>2 DEF Control
      <3>3. CASE at[t] \notin {"none", "done", "gone"}
        <4>1. pc[t] # "idle" /\ pc[t] # "dropped"
          BY <3>1, <3>3 DEF Control
        <4>. QED
          BY <3>3, <4>1
      <3>. QED
        BY <3>2, <3>3
    <2>. QED
      BY <2>1 DEF HandlerInv, HandlerTypes, HTypeOK, TypeInv
  <1>. QED
    BY <1>1, InitHandlers, StepHandlers, PTL DEF HSpec

-----------------------------------------------------------------------------
(***************************************************************************)
(* Guards: who holds one, who lost one, and whose session is cancelled.    *)
(***************************************************************************)

\* A response holds its SessionGuard from guard_close on, and only a request that
\* has come to its end has dropped one.
GuardInv ==
    \A t \in Tasks :
        /\ at[t] \in {"sse_downstream", "stream"}
             \/ (at[t] = "sse_guard" /\ pc[t] = "Ok")
             => guard[t] = "held"
        /\ guard[t] \in {"dropped", "notified"} => at[t] \in {"done", "gone"}

\* Below the handlers a guard only goes from dropped to notified.
LEMMA RuntimeGuards ==
    ASSUME Runtime
    PROVE  \/ guard' = guard
           \/ \E t \in Tasks : /\ guard[t] = "dropped"
                               /\ guard' = [guard EXCEPT ![t] = "notified"]
  <1>1. ASSUME NEW t \in Tasks, Continues(t) PROVE guard' = guard
    BY <1>1 DEF Continues, Insert, IsStarted, Start, Take, TakeStream, Park,
                GuardTimesOut, StopSignals, StopTimesOut, CloseCancels
  <1>2. ASSUME NEW t \in Tasks, Connects(t) \/ Relay(t) \/ Peer(t)
        PROVE  guard' = guard
    BY <1>2 DEF Connects, Connect, ConnectFails, Relay, Peer, RelayTakes,
                RelayLagged, RelayDelivers, RelaySinkFails, RelayStops, Restore,
                RelayFromServer, UpstreamCloses
  <1>3. ASSUME Spawned \/ Shutdown
        PROVE  \/ guard' = guard
               \/ \E t \in Tasks : /\ guard[t] = "dropped"
                                   /\ guard' = [guard EXCEPT ![t] = "notified"]
    BY <1>3 DEF Spawned, Shutdown, Cleanup, ReturnStream, GuardCancels
  <1>. QED
    BY <1>1, <1>2, <1>3 DEF Runtime

\* Every step keeps GuardInv.
LEMMA StepGuards ==
    ASSUME HandlerInv, GuardInv, [HNext]_allvars
    PROVE  GuardInv'
  <1>0. /\ at \in [Tasks -> Stages] /\ InControl
        /\ DOMAIN pc = Tasks /\ DOMAIN guard = Tasks
    BY DEF HandlerInv, HandlerTypes, TypeInv, TypeOK
  <1>1. ASSUME NEW t \in Tasks, Handler(t) \/ Client(t) PROVE GuardInv'
    <2>. DEFINE Others == \A u \in Tasks \ {t} :
                            UNCHANGED <<at[u], pc[u], guard[u]>>
    <2>. USE <1>0 DEF Goto, Enter, CheckToken
    <2>1. ASSUME Drop(t), Enter(t, "done") \/ Enter(t, "gone") PROVE GuardInv'
      <3>1. Others /\ at'[t] \in {"done", "gone"}
        BY <2>1 DEF Drop
      <3>. QED
        BY <3>1 DEF GuardInv
    <2>2. CASE RequestFails(t) \/ SseStreamEnds(t) \/ MessageUnauthorized(t)
               \/ MessageAccepted(t)
      BY <2>1, <2>2
      DEF RequestFails, SseStreamEnds, MessageUnauthorized, MessageAccepted,
          Respond
    <2>3. CASE RequestRejected(t) \/ SseRefused(t) \/ SseUnresolved(t)
               \/ ClientDisconnects(t)
      BY <2>1, <2>3
      DEF RequestRejected, SseRefused, SseUnresolved, ClientDisconnects, Respond
    <2>4. ASSUME Others, guard'[t] = guard[t], at[t] \notin {"done", "gone"},
                 at'[t] \in Stages
                   \ {"sse_guard", "sse_downstream", "stream", "done", "gone"}
          PROVE  GuardInv'
      BY <2>4 DEF GuardInv
    <2>5. CASE SseSession(t) \/ SseStart(t) \/ MessageFind(t) \/ MessageStart(t)
      BY <2>4, <2>5
      DEF SseSession, SseStart, MessageFind, MessageStart, New, Find,
          EnsureStarted, Stages, SseStages, MessageStages
    <2>6. CASE MessageBypass(t) \/ MessageDenied(t) \/ MessageFallsThrough(t)
      BY <2>4, <2>6
      DEF MessageBypass, MessageDenied, MessageFallsThrough, GuardStream,
          BypassSend, DropStream, Stages, SseStages, MessageStages
    <2>7. CASE MessageUpstream(t) \/ MessageSend(t)
      BY <2>4, <2>7
      DEF MessageUpstream, MessageSend, GuardStream, Send, Stages, SseStages,
          MessageStages
    <2>8. CASE SseGuard(t)
      <3>1. /\ Others /\ at'[t] = "sse_guard" /\ guard[t] = "none"
            /\ \/ pc'[t] = "Ok" /\ guard'[t] = "held"
               \/ pc'[t] = "AlreadyClosed" /\ guard'[t] = "none"
        BY <2>8 DEF SseGuard, GuardClose
      <3>. QED
        BY <3>1 DEF GuardInv
    <2>9. CASE SseDownstream(t)
      <3>1. /\ Others /\ at[t] = "sse_guard" /\ pc[t] = "Ok"
            /\ at'[t] = "sse_downstream" /\ guard' = guard
        BY <2>9 DEF SseDownstream, GuardStream, Calling
      <3>. QED
        BY <3>1 DEF GuardInv
    <2>10. CASE SseRespond(t)
      <3>1. /\ at[t] = "sse_downstream" /\ at'[t] = "stream" /\ Others
            /\ guard' = guard
        BY <2>10 DEF SseRespond, vars
      <3>. QED
        BY <3>1 DEF GuardInv
    <2>11. CASE SseRecv(t)
      <3>1. at[t] = "stream" /\ at' = at /\ Others /\ guard' = guard
        BY <2>11 DEF SseRecv, Recv, hvars
      <3>. QED
        BY <3>1 DEF GuardInv
    <2>. QED
      BY <1>1, <2>2, <2>3, <2>5, <2>6, <2>7, <2>8, <2>9, <2>10, <2>11
      DEF Handler, Client
  <1>2. ASSUME Runtime, UNCHANGED hvars PROVE GuardInv'
    <2>1. at' = at
      BY <1>2 DEF hvars
    <2>2. ASSUME NEW t \in Tasks, at[t] = "sse_guard", pc'[t] = "Ok"
          PROVE  pc[t] = "Ok"
      <3>1. pc[t] \in {"Ok", "AlreadyClosed"}
        BY <1>0, <2>2 DEF InControl, Control
      <3>2. After(pc[t]) = {}
        BY <3>1 DEF After
      <3>. QED
        BY <1>0, <1>2, <2>2, <3>2, RuntimeMoves DEF HandlerInv
    <2>3. ASSUME NEW t \in Tasks, guard'[t] # guard[t]
          PROVE  guard[t] = "dropped" /\ guard'[t] = "notified"
      BY <1>0, <1>2, <2>3, RuntimeGuards
    <2>. QED
      BY <2>1, <2>2, <2>3 DEF GuardInv
  <1>3. CASE UNCHANGED allvars
    BY <1>3 DEF allvars, hvars, vars, GuardInv
  <1>. QED
    BY <1>1, <1>2, <1>3 DEF HNext

\* What is cancelled was cancelled by shutdown or by a dropped guard.
CancelInv ==
    \A s \in cancelled :
        shutdown \/ \E t \in Tasks : sess[t] = s /\ guard[t] = "notified"

\* Every step keeps CancelInv: no handler calls close.
LEMMA StepCancelInv ==
    ASSUME HandlerInv, CancelInv, [HNext]_allvars
    PROVE  CancelInv'
  <1>1. TypeInv /\ [Step]_vars
    BY HandlerIsStep DEF HandlerInv, allvars
  <1>2. Lasting
    BY <1>1, StepLasting
  <1>3. ASSUME NEW t \in Tasks PROVE pc[t] # "close"
    <2>1. pc[t] \in Control(at[t])
      BY DEF HandlerInv, InControl
    <2>. QED
      BY <2>1 DEF Control
  <1>4. ASSUME NEW t \in Tasks, guard[t] = "notified"
        PROVE  sess'[t] = sess[t] /\ guard'[t] = "notified"
    BY <1>1, <1>2, <1>4 DEF Lasting, TypeInv, Attached
  <1>5. ASSUME NEW s \in cancelled
        PROVE  shutdown' \/ \E t \in Tasks : sess'[t] = s /\ guard'[t] = "notified"
    BY <1>2, <1>4 DEF CancelInv, Lasting
  <1>6. ASSUME NEW s \in cancelled' \ cancelled
        PROVE  shutdown' \/ \E t \in Tasks : sess'[t] = s /\ guard'[t] = "notified"
    BY <1>1, <1>3, StepCancels
  <1>. QED
    BY <1>5, <1>6 DEF CancelInv

GuardsInv == HandlerInv /\ GuardInv /\ CancelInv

\* The guards' invariant, from the initial state on.
LEMMA GuardsAlways == HSpec => []GuardsInv
  <1>1. HInit => GuardsInv
    <2>. SUFFICES ASSUME HInit PROVE GuardsInv
      OBVIOUS
    <2>1. GuardInv /\ CancelInv
      BY DEF HInit, Init, GuardInv, CancelInv
    <2>. QED
      BY <2>1, InitHandlers DEF GuardsInv
  <1>2. GuardsInv /\ [HNext]_allvars => GuardsInv'
    BY StepHandlers, StepGuards, StepCancelInv DEF GuardsInv
  <1>. QED
    BY <1>1, <1>2, PTL DEF HSpec

\* Only the end of a GET /sse that got past guard_close, or shutdown, cancels a
\* session: a POST /message, whatever becomes of it, closes no session.
THEOREM OnlySseCancels == HSpec => []OnlySseEndsCancel
  <1>1. GuardsInv => OnlySseEndsCancel
    BY DEF GuardsInv, GuardInv, CancelInv, OnlySseEndsCancel
  <1>. QED
    BY <1>1, GuardsAlways, PTL

\* The session of an open response is in the map until its token is cancelled.
StreamMapped ==
    \A t \in Tasks :
        at[t] = "stream" /\ sess[t] \notin cancelled => sess[t] \in sessions

\* Every step keeps StreamMapped: a response opens on a session in use, and only
\* cancelled sessions leave the map.
LEMMA StepStreamMapped ==
    ASSUME GuardsInv, RegInv, StreamMapped, [HNext]_allvars
    PROVE  StreamMapped'
  <1>. SUFFICES ASSUME NEW t \in Tasks, at'[t] = "stream", sess'[t] \notin cancelled'
                PROVE  sess'[t] \in sessions'
    BY DEF StreamMapped
  <1>1. TypeInv /\ at \in [Tasks -> Stages] /\ InControl
    BY DEF GuardsInv, HandlerInv, HandlerTypes
  <1>2. Lasting
    BY <1>1, HandlerIsStep, StepLasting DEF allvars
  <1>3. CASE at[t] = "stream"
    <2>1. sess[t] # NoSession
      <3>1. guard[t] = "held"
        BY <1>3 DEF GuardsInv, GuardInv
      <3>. QED
        BY <1>1, <3>1 DEF TypeInv, Attached
    <2>. QED
      BY <1>2, <1>3, <2>1 DEF Lasting, StreamMapped
  <1>4. CASE at[t] # "stream"
    <2>1. SseRespond(t)
      <3>1. ASSUME UNCHANGED hvars \/ UNCHANGED allvars PROVE FALSE
        BY <1>4, <3>1 DEF hvars, allvars
      <3>2. ASSUME NEW u \in Tasks, Handler(u) \/ Client(u), ~SseRespond(u)
            PROVE  FALSE
        <4>1. at' = [at EXCEPT ![u] = at'[u]] /\ u = t
          BY <1>1, <1>4, <3>2, HandlerMoves
        <4>. QED
          BY <1>1, <1>4, <3>2, <4>1
          DEF Handler, Client, Enter, Respond, RequestFails, SseStart, SseGuard,
              SseDownstream, SseRecv, SseStreamEnds, MessageStart,
              MessageUnauthorized, MessageBypass, MessageDenied,
              MessageFallsThrough, MessageUpstream, MessageSend, MessageAccepted,
              RequestRejected, SseRefused, SseUnresolved, SseSession, MessageFind,
              ClientDisconnects, hvars
      <3>3. ASSUME NEW u \in Tasks, SseRespond(u) PROVE u = t
        BY <1>1, <1>4, <3>3 DEF SseRespond, Enter
      <3>. QED
        BY <3>1, <3>2, <3>3 DEF HNext
    <2>2. pc[t] \in InUse /\ UNCHANGED vars
      BY <2>1 DEF SseRespond, InUse
    <2>. QED
      BY <2>2 DEF RegInv, LiveSessionIsRegistered, vars, manager
  <1>. QED
    BY <1>3, <1>4

\* While an SSE response is open and nobody cancelled its session, a POST
\* /message on the id it announced finds the session, and the response's own
\* guard is what ends it.
THEOREM EndpointUsable == HSpec => []EndpointIsUsable
  <1>. DEFINE Inv == GuardsInv /\ RegInv /\ StreamMapped
  <1>1. HInit => RegInv /\ StreamMapped
    BY InitReg DEF HInit, StreamMapped
  <1>2. GuardsInv /\ RegInv /\ StreamMapped /\ [HNext]_allvars
          => (RegInv /\ StreamMapped)'
    BY HandlerIsStep, StepReg, StepStreamMapped DEF allvars, GuardsInv, HandlerInv
  <1>3. GuardsInv /\ StreamMapped => EndpointIsUsable
    BY DEF GuardsInv, GuardInv, StreamMapped, EndpointIsUsable
  <1>. QED
    BY <1>1, <1>2, <1>3, GuardsAlways, PTL DEF HSpec

-----------------------------------------------------------------------------
(***************************************************************************)
(* Backends: ensure_started trusts is_started, which says yes during a     *)
(* start and even after one failed.  It misleads no response, since until  *)
(* a first response announces a session only its creator knows it.         *)
(***************************************************************************)

\* A session that says Started without a relay has its start under way, or its
\* start's task has failed.
StartsFail ==
    \A s \in Sessions :
        connection[s] # Stopped /\ relay[connection[s]] = "none"
            => pc[connection[s]] \in {"connect", "SseTransport", "dropped"}

\* The session had a connection to the upstream server.
Backed(s) == \E u \in Tasks : sess[u] = s /\ relay[u] # "none"

BackendInv ==
    /\ \A s \in announced : Backed(s)
    /\ \A t, u \in Tasks :
         t # u /\ sess[t] = sess[u] /\ sess[t] # NoSession => sess[t] \in announced
    /\ \A t \in Tasks :
         /\ at[t] = "stream" => sess[t] \in announced
         /\ at[t] \in {"sse_guard", "sse_downstream"}
              \/ (at[t] = "sse_start" /\ pc[t] = "Ok")
              => sess[t] \in announced \/ relay[t] # "none"

\* A step keeps StartsFail when it gives no session a new owner, unless one that
\* connects, and moves no failed start anywhere but to its end.
LEMMA StartsFailFrame ==
    ASSUME TypeInv, StartsFail,
           \A t \in Tasks : relay[t] # "none" => relay'[t] # "none",
           \A s \in Sessions :
               \/ connection'[s] = connection[s]
               \/ connection'[s] = Stopped
               \/ pc'[connection'[s]] = "connect",
           \A t \in Tasks :
               pc[t] \in {"connect", "SseTransport", "dropped"} =>
                   \/ pc'[t] \in {"connect", "SseTransport", "dropped"}
                   \/ relay'[t] # "none"
    PROVE  StartsFail'
  BY DEF StartsFail, TypeInv, TypeOK

\* Every step keeps StartsFail.
LEMMA StepStartsFail ==
    ASSUME TypeInv, StartsFail, [Step]_vars
    PROVE  StartsFail'
  <1>. USE TaskAssumption DEF Goto, CheckToken, Calling, conn
  <1>0. /\ DOMAIN pc = Tasks /\ DOMAIN connection = Sessions
        /\ DOMAIN relay = Tasks
        /\ \A t \in Tasks : pc[t] \in Waiting => sess[t] \in Sessions
    BY DEF TypeInv, TypeOK
  <1>1. \A t \in Tasks : relay[t] # "none" => relay'[t] # "none"
    BY StepLasting DEF Lasting
  <1>2. ASSUME NEW t \in Tasks, Take(t) PROVE StartsFail'
    <2>1. /\ pc[t] = "take" /\ sess[t] \in Sessions
          /\ \A u \in Tasks \ {t} : pc'[u] = pc[u]
      BY <1>0, <1>2 DEF Take, Waiting
    <2>2. \/ /\ connection' = [connection EXCEPT ![sess[t]] = t]
             /\ pc'[t] = "connect"
          \/ connection' = connection
      BY <1>0, <1>2 DEF Take
    <2>. QED
      BY <1>0, <1>1, <2>1, <2>2, StartsFailFrame
  <1>3. ASSUME NEW t \in Tasks, Restore(t) PROVE StartsFail'
    BY <1>0, <1>1, <1>3, StartsFailFrame DEF Restore
  <1>4. ASSUME NEW t \in Tasks, Connect(t) PROVE StartsFail'
    BY <1>0, <1>1, <1>4, StartsFailFrame DEF Connect
  <1>5. ASSUME NEW t \in Tasks, ConnectFails(t) \/ Drop(t) PROVE StartsFail'
    BY <1>0, <1>1, <1>5, StartsFailFrame DEF ConnectFails, Drop
  <1>6. ASSUME connection' = connection,
               \A t \in Tasks : pc[t] \in {"connect", "SseTransport", "dropped"}
                                  => pc'[t] = pc[t]
        PROVE  StartsFail'
    BY <1>1, <1>6, StartsFailFrame
  <1>7. ASSUME NEW t \in Tasks,
               \/ \E s \in Sessions : New(t, s) \/ Find(t, s)
               \/ Insert(t) \/ EnsureStarted(t) \/ IsStarted(t) \/ Start(t)
        PROVE  StartsFail'
    BY <1>0, <1>6, <1>7 DEF New, Find, Insert, EnsureStarted, IsStarted, Start
  <1>8. ASSUME NEW t \in Tasks,
               \/ \E k \in Kinds : GuardStream(t, k) \/ TakeStream(t, k)
               \/ Park(t) \/ GuardTimesOut(t) \/ GuardClose(t)
        PROVE  StartsFail'
    BY <1>0, <1>6, <1>8
    DEF GuardStream, TakeStream, Park, GuardTimesOut, GuardClose, Kinds
  <1>9. ASSUME NEW t \in Tasks,
               \/ Stop(t) \/ StopSignals(t) \/ StopTimesOut(t)
               \/ Close(t) \/ CloseCancels(t)
        PROVE  StartsFail'
    BY <1>0, <1>6, <1>9 DEF Stop, StopSignals, StopTimesOut, Close, CloseCancels
  <1>10. ASSUME NEW t \in Tasks, Send(t) \/ BypassSend(t) \/ Recv(t)
         PROVE  StartsFail'
    BY <1>0, <1>6, <1>10 DEF Send, BypassSend, Recv
  <1>11. ASSUME NEW t \in Tasks,
                \/ RelayTakes(t) \/ RelayLagged(t) \/ RelayDelivers(t)
                \/ RelaySinkFails(t) \/ RelayFromServer(t) \/ UpstreamCloses(t)
                \/ RelayStops(t) \/ GuardCancels(t)
                \/ \E k \in Kinds : DropStream(t, k)
         PROVE  UNCHANGED <<connection, pc>>
    BY <1>11 DEF RelayTakes, RelayLagged, RelayDelivers, RelaySinkFails,
                 RelayFromServer, UpstreamCloses, RelayStops, GuardCancels,
                 DropStream
  <1>12. ASSUME \/ \E s \in Sessions : Cleanup(s)
                \/ \E k \in Kinds, s \in Sessions : ReturnStream(k, s)
                \/ Shutdown \/ UNCHANGED vars
         PROVE  UNCHANGED <<connection, pc>>
    BY <1>12 DEF Cleanup, ReturnStream, Shutdown, vars
  <1>. QED
    BY <1>2, <1>3, <1>4, <1>5, <1>6, <1>7, <1>8, <1>9, <1>10, <1>11, <1>12 DEF Step

\* A step of a request gives at most its own task a session, a new one or one the
\* client may name, and announces at most the session of a response it opens.
LEMMA HandlerChanges ==
    ASSUME NEW t \in Tasks, Handler(t) \/ Client(t)
    PROVE  /\ \/ sess' = sess
              \/ \E s \in Sessions : New(t, s) \/ (MayName(s) /\ Find(t, s))
           /\ announced' = announced \/ SseRespond(t)
  <1>1. CASE SseSession(t) \/ MessageFind(t)
    BY <1>1 DEF SseSession, MessageFind
  <1>2. CASE RequestFails(t) \/ RequestRejected(t) \/ SseRefused(t)
             \/ SseUnresolved(t) \/ ClientDisconnects(t) \/ SseStreamEnds(t)
             \/ MessageUnauthorized(t) \/ MessageAccepted(t)
    BY <1>2 DEF RequestFails, RequestRejected, SseRefused, SseUnresolved,
                ClientDisconnects, SseStreamEnds, MessageUnauthorized,
                MessageAccepted, Respond, Drop
  <1>3. CASE SseStart(t) \/ SseGuard(t) \/ SseDownstream(t) \/ SseRecv(t)
             \/ SseRespond(t)
    BY <1>3 DEF SseStart, SseGuard, SseDownstream, SseRecv, SseRespond,
                EnsureStarted, GuardClose, GuardStream, Recv, vars, hvars
  <1>4. CASE MessageStart(t) \/ MessageBypass(t) \/ MessageDenied(t)
             \/ MessageFallsThrough(t) \/ MessageUpstream(t) \/ MessageSend(t)
    BY <1>4 DEF MessageStart, MessageBypass, MessageDenied, MessageFallsThrough,
                MessageUpstream, MessageSend, EnsureStarted, GuardStream,
                BypassSend, DropStream, Send
  <1>. QED
    BY <1>1, <1>2, <1>3, <1>4 DEF Handler, Client

\* No request comes to a session that it did not create before a response has
\* announced it.
LEMMA StepStrangers ==
    ASSUME HandlerInv, BackendInv, NEW t \in Tasks, Handler(t) \/ Client(t)
    PROVE  \A u, v \in Tasks :
             u # v /\ sess'[u] = sess'[v] /\ sess'[u] # NoSession
               => sess'[u] \in announced'
  <1>0. /\ created \subseteq Sessions /\ sessions \subseteq created
        /\ sess \in [Tasks -> created \cup {NoSession}]
        /\ announced \subseteq announced'
    BY HandlerChanges
    DEF HandlerInv, TypeInv, TypeOK, SseRespond
  <1>1. CASE sess' = sess
    BY <1>0, <1>1 DEF BackendInv
  <1>2. ASSUME NEW s \in Sessions, New(t, s)
        PROVE  \A u, v \in Tasks :
                 u # v /\ sess'[u] = sess'[v] /\ sess'[u] # NoSession
                   => sess'[u] \in announced'
    BY <1>0, <1>2, TaskAssumption DEF New, BackendInv
  <1>3. ASSUME NEW s \in Sessions, MayName(s), Find(t, s), sess' # sess
        PROVE  \A u, v \in Tasks :
                 u # v /\ sess'[u] = sess'[v] /\ sess'[u] # NoSession
                   => sess'[u] \in announced'
    <2>1. sess' = [sess EXCEPT ![t] = s] /\ s \in announced'
      BY <1>0, <1>3 DEF Find, MayName
    <2>. QED
      BY <1>0, <2>1 DEF BackendInv
  <1>. QED
    BY <1>1, <1>2, <1>3, HandlerChanges

\* Handler steps keep BackendInv.
LEMMA HandlerBackend ==
    ASSUME HandlerInv, BackendInv, NEW t \in Tasks, Handler(t) \/ Client(t)
    PROVE  BackendInv'
  <1>0. /\ TypeInv /\ at \in [Tasks -> Stages] /\ InControl
        /\ announced \subseteq Sessions
        /\ DOMAIN pc = Tasks /\ DOMAIN sess = Tasks
    BY DEF HandlerInv, HandlerTypes, TypeInv, TypeOK
  <1>1. /\ Lasting
        /\ announced \subseteq announced'
        /\ \A u \in Tasks \ {t} : UNCHANGED <<at[u], pc[u], sess[u]>>
    <2>1. Lasting
      BY <1>0, HandlerIsStep, StepLasting DEF HNext
    <2>2. \A u \in Tasks \ {t} : UNCHANGED <<at[u], pc[u]>>
      BY <1>0, HandlerMoves
    <2>3. \A u \in Tasks \ {t} : sess'[u] = sess[u]
      BY <1>0, HandlerChanges DEF New, Find
    <2>4. announced \subseteq announced'
      BY HandlerChanges DEF SseRespond
    <2>. QED
      BY <2>1, <2>2, <2>3, <2>4
  <1>2. ASSUME NEW s \in Sessions, Backed(s) PROVE Backed(s)'
    BY <1>1, <1>2, TaskAssumption DEF Backed, Lasting
  <1>3. ASSUME SseRespond(t)
        PROVE  Backed(sess[t]) /\ sess[t] \in Sessions /\ sess'[t] \in announced'
    <2>1. /\ sess[t] \in Sessions
          /\ sess[t] \in announced \/ relay[t] # "none"
      BY <1>0, <1>3 DEF SseRespond, BackendInv, TypeInv, TypeOK
    <2>2. Backed(sess[t])
      BY <2>1 DEF Backed, BackendInv
    <2>. QED
      BY <1>3, <2>1, <2>2 DEF SseRespond, vars
  <1>4. \A s \in announced' : Backed(s)'
    BY <1>0, <1>2, <1>3, HandlerChanges DEF BackendInv, SseRespond
  <1>5. ASSUME SseStart(t) \/ SseGuard(t) \/ SseDownstream(t) \/ SseRespond(t)
               \/ SseRecv(t)
        PROVE  /\ at'[t] = "stream" => sess'[t] \in announced'
               /\ at'[t] \in {"sse_guard", "sse_downstream"}
                    \/ (at'[t] = "sse_start" /\ pc'[t] = "Ok")
                    => sess'[t] \in announced' \/ relay'[t] # "none"
    <2>0. sess'[t] = sess[t] /\ (relay[t] # "none" => relay'[t] # "none")
      BY <1>1, <1>5
      DEF Lasting, SseStart, SseGuard, SseDownstream, SseRespond, SseRecv,
          EnsureStarted, GuardClose, GuardStream, Recv, vars
    <2>1. CASE SseStart(t)
      BY <1>0, <2>1 DEF SseStart, EnsureStarted, Goto, CheckToken, Enter
    <2>2. CASE SseGuard(t)
      <3>1. /\ at[t] = "sse_start" /\ pc[t] = "Ok" /\ at'[t] = "sse_guard"
        BY <1>0, <2>2 DEF SseGuard, GuardClose, Calling, Enter
      <3>. QED
        BY <1>1, <2>0, <3>1 DEF BackendInv
    <2>3. CASE SseDownstream(t)
      <3>1. at[t] = "sse_guard" /\ at'[t] = "sse_downstream"
        BY <1>0, <2>3 DEF SseDownstream, Enter
      <3>. QED
        BY <1>1, <2>0, <3>1 DEF BackendInv
    <2>4. CASE SseRespond(t)
      BY <1>0, <1>3, <2>4 DEF SseRespond, Enter
    <2>5. CASE SseRecv(t)
      BY <1>1, <2>0, <2>5 DEF SseRecv, hvars, BackendInv
    <2>. QED
      BY <1>5, <2>1, <2>2, <2>3, <2>4, <2>5
  <1>6. ASSUME ~(SseStart(t) \/ SseGuard(t) \/ SseDownstream(t) \/ SseRespond(t)
                 \/ SseRecv(t))
        PROVE  at'[t] \notin {"stream", "sse_guard", "sse_downstream", "sse_start"}
    BY <1>0, <1>6
    DEF Handler, Client, RequestFails, SseStreamEnds, MessageStart,
        MessageUnauthorized, MessageBypass, MessageDenied, MessageFallsThrough,
        MessageUpstream, MessageSend, MessageAccepted, RequestRejected,
        SseRefused, SseUnresolved, SseSession, MessageFind, ClientDisconnects,
        Respond, Enter
  <1>7. ASSUME NEW u \in Tasks
        PROVE  /\ at'[u] = "stream" => sess'[u] \in announced'
               /\ at'[u] \in {"sse_guard", "sse_downstream"}
                    \/ (at'[u] = "sse_start" /\ pc'[u] = "Ok")
                    => sess'[u] \in announced' \/ relay'[u] # "none"
    <2>1. CASE u = t
      BY <1>5, <1>6, <2>1
    <2>2. CASE u # t
      BY <1>1, <2>2 DEF BackendInv, Lasting
    <2>. QED
      BY <2>1, <2>2
  <1>. QED
    BY <1>4, <1>7, StepStrangers DEF BackendInv

\* Steps below the handlers keep BackendInv: a session that is_started reports
\* started is owned by another task, which makes it announced, or by the caller,
\* which has a relay then.
LEMMA RuntimeBackend ==
    ASSUME HandlerInv, ConnInv, StartsFail, BackendInv, Runtime, UNCHANGED hvars
    PROVE  BackendInv'
  <1>0. /\ TypeInv /\ InControl /\ announced \subseteq Sessions
        /\ DOMAIN pc = Tasks
        /\ sess' = sess /\ announced' = announced /\ at' = at
    BY RuntimeMoves DEF HandlerInv, HandlerTypes, TypeInv, TypeOK, hvars
  <1>1. \A u \in Tasks : relay[u] # "none" => relay'[u] # "none"
    BY <1>0, HandlerIsStep, StepLasting DEF HNext, Lasting
  <1>2. ASSUME NEW u \in Tasks, at[u] = "sse_start", pc'[u] = "Ok", pc[u] # "Ok",
               sess[u] \notin announced
        PROVE  relay'[u] # "none"
    <2>1. /\ "Ok" \in After(pc[u])
          /\ pc[u] = "is_started" => connection[sess[u]] # Stopped
          /\ pc[u] = "connect" => relay'[u] = "running"
      BY <1>0, <1>2, RuntimeMoves
    <2>2. pc[u] \in Control("sse_start")
      BY <1>0, <1>2 DEF InControl
    <2>3. pc[u] \in {"is_started", "connect"}
      BY <2>1, <2>2 DEF Control, After
    <2>4. CASE pc[u] = "is_started"
      <3>1. /\ sess[u] \in Sessions /\ relay[u] = "none"
            /\ connection[sess[u]] \in Tasks
        BY <1>0, <2>1, <2>4 DEF TypeInv, TypeOK, Attached, Waiting
      <3>2. sess[connection[sess[u]]] = sess[u]
        BY <2>1, <2>4, <3>1 DEF ConnInv, OwnerIsOfSession
      <3>3. connection[sess[u]] = u
        BY <1>2, <3>1, <3>2, TaskAssumption DEF BackendInv
      <3>. QED
        BY <2>1, <2>4, <3>1, <3>3 DEF StartsFail
    <2>. QED
      BY <2>1, <2>3, <2>4
  <1>3. \A s \in announced' : Backed(s)'
    BY <1>0, <1>1 DEF BackendInv, Backed
  <1>4. \A t, u \in Tasks :
          t # u /\ sess'[t] = sess'[u] /\ sess'[t] # NoSession
            => sess'[t] \in announced'
    BY <1>0 DEF BackendInv
  <1>5. ASSUME NEW u \in Tasks
        PROVE  /\ at'[u] = "stream" => sess'[u] \in announced'
               /\ at'[u] \in {"sse_guard", "sse_downstream"}
                    \/ (at'[u] = "sse_start" /\ pc'[u] = "Ok")
                    => sess'[u] \in announced' \/ relay'[u] # "none"
    BY <1>0, <1>1, <1>2 DEF BackendInv
  <1>. QED
    BY <1>3, <1>4, <1>5 DEF BackendInv

\* An open SSE response belongs to a session that was connected to the upstream
\* server at least once, although ensure_started may return Ok while the start
\* it relies on is another request's and still under way.
THEOREM StreamBacked == HSpec => []StreamHadBackend
  <1>1. HInit => HandlerInv /\ ConnInv /\ StartsFail /\ BackendInv
    <2>. SUFFICES ASSUME HInit
                  PROVE  HandlerInv /\ ConnInv /\ StartsFail /\ BackendInv
      OBVIOUS
    <2>1. StartsFail /\ BackendInv
      BY DEF HInit, Init, StartsFail, BackendInv
    <2>. QED
      BY <2>1, InitHandlers, InitConn DEF HInit
  <1>2. HandlerInv /\ ConnInv /\ StartsFail /\ BackendInv /\ [HNext]_allvars
          => (HandlerInv /\ ConnInv /\ StartsFail /\ BackendInv)'
    <2>. SUFFICES ASSUME HandlerInv, ConnInv, StartsFail, BackendInv,
                         [HNext]_allvars
                  PROVE  (HandlerInv /\ ConnInv /\ StartsFail /\ BackendInv)'
      OBVIOUS
    <2>1. HandlerInv' /\ ConnInv' /\ StartsFail'
      BY HandlerIsStep, StepHandlers, StepConn, StepStartsFail
      DEF allvars, HandlerInv
    <2>2. UNCHANGED allvars => BackendInv'
      BY DEF allvars, hvars, vars, conn, BackendInv, Backed
    <2>3. BackendInv'
      BY <2>2, HandlerBackend, RuntimeBackend DEF HNext
    <2>. QED
      BY <2>1, <2>3
  <1>3. BackendInv => StreamHadBackend
    BY DEF BackendInv, Backed, StreamHadBackend
  <1>. QED
    BY <1>1, <1>2, <1>3, PTL DEF HSpec
=============================================================================
