------------------------- MODULE RaftCluster_proofs -------------------------
(***************************************************************************)
(* Machine-checked proof that a session's recorded main session is stable, *)
(* for any cluster, any set of objects and any callers, with crashes and   *)
(* failing calls.  The argument: a task that is about to write an entry in *)
(* start or stop holds the lock of its id, so that nobody but close wrote  *)
(* the entry since it was read; a task about to write an entry in create   *)
(* has an id that nobody else uses.                                        *)
(***************************************************************************)
EXTENDS RaftCluster, TLAPS

CoreType ==
    /\ created \subseteq Sessions /\ sessions \subseteq created
    /\ pc \in [Tasks -> Phases] /\ rpc \in [Tasks -> Rpcs]
    /\ sess \in [Tasks -> created \cup {NoSession}]
    /\ goal \in [Tasks -> Ids \cup {NoId}]
    /\ read \in [Tasks -> Sessions \cup {Unset}]
    /\ store \in [Ids -> Sessions \cup {Absent, Unset}]
    /\ lock \in [Ids -> Tasks \cup {Free}]
    /\ known \subseteq {Id[s] : s \in created}

\* Where a task stands in its call while it awaits hiqlite or the map.
AwaitsWithin(t) ==
    /\ rpc[t] \in {"lock", "get"} => pc[t] \in {"take", "stop"}
    /\ rpc[t] = "put" => pc[t] \in {"insert", "take", "stop"}
    /\ rpc[t] = "token" => pc[t] = "take"
    /\ rpc[t] \in {"delete", "notify"} => pc[t] = "close"
    /\ rpc[t] \in {"map", "insert"} => pc[t] = "idle" /\ goal[t] \in known

\* A task that has its session from create or find knows its id; the id of a
\* create under way is not known.
KnowsId(t) ==
    /\ pc[t] \in InUse => sess[t] \in created /\ MyId(t) \in known
    /\ pc[t] = "insert" => sess[t] \in created /\ MyId(t) \notin known

\* A task between its read and its write in start or stop holds the lock.
WriterHasLock(t) ==
    rpc[t] \in {"get", "put"} /\ pc[t] # "insert" => lock[MyId(t)] = t

\* What start is about to write over a main session is that session; what stop
\* is about to clear is itself; create writes no main session.
WriterIsCurrent(t) ==
    /\ rpc[t] = "put" /\ pc[t] = "take" =>
          /\ read[t] \in Sessions
          /\ store[MyId(t)] \in Sessions => store[MyId(t)] = read[t]
    /\ rpc[t] = "put" /\ pc[t] = "stop" /\ store[MyId(t)] \in Sessions =>
          store[MyId(t)] = sess[t]
    /\ read[t] # Unset => rpc[t] = "put" /\ pc[t] = "take"

TaskInv(t) ==
    AwaitsWithin(t) /\ KnowsId(t) /\ WriterHasLock(t) /\ WriterIsCurrent(t)

\* Two creates under way have two ids.
CreatesDiffer ==
    \A t, u \in Tasks :
        pc[t] = "insert" /\ pc[u] = "insert" /\ t # u => MyId(t) # MyId(u)

\* Nothing but a known id has a main session.
MainsKnown == \A i \in Ids : store[i] \in Sessions => i \in known

ElectInv ==
    /\ CoreType /\ CreatesDiffer /\ MainsKnown
    /\ \A t \in Tasks : TaskInv(t)

-----------------------------------------------------------------------------
\* No task waits, uses a session or knows an id in the beginning.
LEMMA InitElect == RInit => ElectInv
  <1>. SUFFICES ASSUME RInit PROVE ElectInv
    OBVIOUS
  <1>1. CoreType
    BY DEF RInit, Init, CoreType, Phases, Rpcs
  <1>2. CreatesDiffer /\ MainsKnown
    BY ClusterAssumption DEF RInit, Init, CreatesDiffer, MainsKnown
  <1>3. ASSUME NEW t \in Tasks PROVE TaskInv(t)
    <2>1. rpc[t] = "none" /\ pc[t] = "idle" /\ read[t] = Unset
      BY DEF RInit, Init
    <2>2. "idle" \notin InUse
      BY DEF InUse, Waiting, Kinds
    <2>. QED
      BY <2>1, <2>2 DEF TaskInv, AwaitsWithin, KnowsId, WriterHasLock,
                        WriterIsCurrent
  <1>. QED
    BY <1>1, <1>2, <1>3 DEF ElectInv

\* A task that stands still keeps its part of the invariant while ids become
\* known, others release or take locks, and the store loses main sessions.
LEMMA Bystander ==
    ASSUME CoreType, NEW u \in Tasks, TaskInv(u),
           /\ pc'[u] = pc[u] /\ rpc'[u] = rpc[u] /\ sess'[u] = sess[u]
           /\ goal'[u] = goal[u] /\ read'[u] = read[u],
           created \subseteq created', known \subseteq known',
           pc[u] = "insert" => MyId(u) \notin known',
           \A i \in Ids : lock[i] = u => lock'[i] = u,
           rpc[u] = "put" /\ pc[u] # "insert" =>
              store'[MyId(u)] = store[MyId(u)] \/ store'[MyId(u)] \notin Sessions
    PROVE  TaskInv(u)'
  <1>1. MyId(u)' = MyId(u)
    BY DEF MyId
  <1>2. pc[u] \in InUse => MyId(u) \in Ids
    BY ClusterAssumption DEF TaskInv, KnowsId, MyId, CoreType
  <1>3. AwaitsWithin(u)'
    BY DEF TaskInv, AwaitsWithin
  <1>4. KnowsId(u)'
    BY <1>1 DEF TaskInv, KnowsId
  <1>5. WriterHasLock(u)'
    BY <1>1, <1>2 DEF TaskInv, WriterHasLock, AwaitsWithin, InUse, Waiting, Kinds
  <1>6. WriterIsCurrent(u)'
    BY <1>1 DEF TaskInv, WriterIsCurrent
  <1>. QED
    BY <1>3, <1>4, <1>5, <1>6 DEF TaskInv

\* A step that leaves the store, the locks and every await alone and lets tasks
\* that await nothing go on inside their calls.
LEMMA Quiet ==
    ASSUME ElectInv,
           UNCHANGED <<created, sess, store, lock, known, rpc, goal, read>>,
           sessions' \subseteq sessions, pc' \in [Tasks -> Phases],
           \A t \in Tasks :
              pc'[t] = pc[t] \/ /\ rpc[t] = "none"
                                /\ pc[t] # "insert" /\ pc'[t] # "insert"
                                /\ pc'[t] \in InUse => pc[t] \in InUse
    PROVE  ElectInv'
  <1>1. CoreType'
    BY DEF ElectInv, CoreType
  <1>2. CreatesDiffer' /\ MainsKnown'
    BY DEF ElectInv, CreatesDiffer, MainsKnown, MyId
  <1>3. ASSUME NEW t \in Tasks PROVE TaskInv(t)'
    <2>1. CASE pc'[t] = pc[t]
      BY <2>1, Bystander DEF ElectInv, TaskInv, KnowsId
    <2>2. CASE /\ rpc[t] = "none" /\ pc[t] # "insert" /\ pc'[t] # "insert"
               /\ pc'[t] \in InUse => pc[t] \in InUse
      BY <2>2 DEF ElectInv, TaskInv, AwaitsWithin, KnowsId, WriterHasLock,
                  WriterIsCurrent, MyId
    <2>. QED
      BY <2>1, <2>2
  <1>. QED
    BY <1>1, <1>2, <1>3 DEF ElectInv

\* A step of one task t inside its calls, which keeps its session.
LEMMA Alone ==
    ASSUME ElectInv, NEW t \in Tasks,
           UNCHANGED <<created, sess, store, known>>,
           sessions' \subseteq sessions, pc' \in [Tasks -> Phases],
           rpc' \in [Tasks -> Rpcs], goal' \in [Tasks -> Ids \cup {NoId}],
           read' \in [Tasks -> Sessions \cup {Unset}],
           lock' \in [Ids -> Tasks \cup {Free}],
           \A u \in Tasks \ {t} :
              /\ pc'[u] = pc[u] /\ rpc'[u] = rpc[u]
              /\ goal'[u] = goal[u] /\ read'[u] = read[u]
              /\ \A i \in Ids : lock[i] = u => lock'[i] = u,
           pc'[t] = "insert" => pc[t] = "insert",
           TaskInv(t)'
    PROVE  ElectInv'
  <1>1. CoreType'
    BY DEF ElectInv, CoreType
  <1>2. CreatesDiffer'
    BY DEF ElectInv, CreatesDiffer, MyId
  <1>3. MainsKnown'
    BY DEF ElectInv, MainsKnown
  <1>4. ASSUME NEW u \in Tasks \ {t} PROVE TaskInv(u)'
    BY <1>4, Bystander DEF ElectInv, TaskInv, KnowsId
  <1>. QED
    BY <1>1, <1>2, <1>3, <1>4 DEF ElectInv

-----------------------------------------------------------------------------
\* What the quiet steps leave alone.
calm == <<created, sess, store, lock, known, rpc, goal, read>>

\* The relays, the guards, the streams and the nodes take quiet steps, and so do
\* the callers between their calls and behind start's and stop's lock section.
QuietStep ==
    \/ \E t \in Tasks :
         \/ IsStartedAndAfter(t) \/ Takes(t) \/ MainConnectFails(t)
         \/ StopsRelay(t) \/ GuardsClose(t) \/ GuardCloses(t)
         \/ Streams(t) \/ Traffic(t) \/ RRelay(t)
    \/ \E k \in Kinds, s \in Sessions : StreamReturns(k, s)
    \/ \E n \in Nodes : EventLoop(n) \/ EventLoopCancels(n) \/ Halt(n)
    \/ UNCHANGED rvars

\* A task that stands at none of these points awaits neither hiqlite nor the map.
LEMMA AwaitsNothing ==
    ASSUME ElectInv, NEW t \in Tasks,
           pc[t] \notin {"insert", "take", "stop", "close", "idle"}
    PROVE  rpc[t] = "none"
  BY DEF ElectInv, CoreType, TaskInv, AwaitsWithin, Rpcs

\* Quiet steps keep the invariant.
LEMMA QuietKeeps == ElectInv /\ QuietStep => ElectInv'
  <1>. SUFFICES ASSUME ElectInv, QuietStep PROVE ElectInv'
    OBVIOUS
  <1>. DEFINE Still == UNCHANGED calm /\ sessions' \subseteq sessions /\ pc' = pc
              Goes(t, p) == UNCHANGED calm /\ sessions' = sessions
                            /\ pc' = [pc EXCEPT ![t] = p]
  <1>0. pc \in [Tasks -> Phases]
    BY DEF ElectInv, CoreType
  <1>1. ASSUME Still PROVE ElectInv'
    BY <1>0, <1>1, Quiet DEF calm
  <1>2. ASSUME NEW t \in Tasks, NEW p \in Phases, Goes(t, p),
               rpc[t] = "none", pc[t] # "insert", p # "insert",
               p \in InUse => pc[t] \in InUse
        PROVE  ElectInv'
    BY <1>0, <1>2, Quiet DEF calm
  <1>3. ASSUME NEW t \in Tasks, NEW p \in Phases, Goes(t, p),
               pc[t] \in {"Ok", "is_started", "connect", "stopping", "parked"} \cup Kinds,
               p # "insert"
        PROVE  ElectInv'
    BY <1>2, <1>3, AwaitsNothing DEF InUse, Waiting, Kinds
  <1>. USE DEF calm, cluster, raft, vars, local, manager, Calling, Goto, CheckToken
  <1>4. ASSUME NEW t \in Tasks, IsStartedAndAfter(t) PROVE ElectInv'
    <2>1. \E p \in {"is_started", "start", "Ok"} :
             Goes(t, p) /\ pc[t] \in {"Ok", "is_started"}
      BY <1>4 DEF IsStartedAndAfter, EnsureStarted, IsStarted
    <2>. QED
      BY <2>1, <1>3 DEF Phases, Waiting
  <1>5. ASSUME NEW t \in Tasks, Takes(t) PROVE ElectInv'
    <2>1. \E p \in {"connect", "AlreadyStarted", "Ok"} :
             Goes(t, p) /\ pc[t] \in {"take", "connect"} /\ rpc[t] = "none"
      BY <1>5 DEF Takes, Take, Connect
    <2>. QED
      BY <2>1, <1>2 DEF Phases, Waiting, Errors, InUse
  <1>6. ASSUME NEW t \in Tasks, MainConnectFails(t) PROVE ElectInv'
    <2>1. Goes(t, "SseTransport") /\ pc[t] = "connect"
      BY <1>6 DEF MainConnectFails, ConnectFails
    <2>. QED
      BY <2>1, <1>3 DEF Phases, Errors
  <1>7. ASSUME NEW t \in Tasks, StopsRelay(t) PROVE ElectInv'
    <2>1. \E p \in {"AlreadyStopped", "stopping", "Timeout"} :
             Goes(t, p) /\ pc[t] \in {"stop", "stopping"} /\ rpc[t] = "none"
      BY <1>7 DEF StopsRelay, StopSignals, StopTimesOut
    <2>. QED
      BY <2>1, <1>2 DEF Phases, Waiting, Errors, InUse
  <1>8. ASSUME NEW t \in Tasks, GuardsClose(t) PROVE ElectInv'
    BY <1>8, <1>1 DEF GuardsClose
  <1>9. ASSUME NEW t \in Tasks, GuardCloses(t) PROVE ElectInv'
    BY <1>9, <1>1 DEF GuardCloses, GuardCancels
  <1>10. ASSUME NEW t \in Tasks, Streams(t) PROVE ElectInv'
    <2>1. ASSUME NEW k \in Kinds, GuardStream(t, k), UNCHANGED <<cluster, raft>>
          PROVE  ElectInv'
      <3>1. \E p \in {k, "AlreadyClosed"} : Goes(t, p) /\ pc[t] = "Ok"
        BY <2>1 DEF GuardStream
      <3>. QED
        BY <3>1, <1>3 DEF Phases, Waiting, Errors, Kinds
    <2>2. ASSUME NEW k \in Kinds, TakeStream(t, k), UNCHANGED <<cluster, raft>>
          PROVE  ElectInv'
      <3>1. Goes(t, "Ok") /\ pc[t] \in Kinds
        BY <2>2 DEF TakeStream
      <3>. QED
        BY <3>1, <1>3 DEF Phases
    <2>3. ASSUME NEW k \in Kinds, DropStream(t, k), UNCHANGED <<cluster, raft>>
          PROVE  ElectInv'
      BY <2>3, <1>1 DEF DropStream
    <2>4. ASSUME Park(t) \/ GuardTimesOut(t), UNCHANGED <<cluster, raft>>
          PROVE  ElectInv'
      <3>1. \E p \in {"parked", "Timeout"} :
               Goes(t, p) /\ pc[t] \in {"parked"} \cup Kinds
        BY <2>4 DEF Park, GuardTimesOut, Kinds
      <3>. QED
        BY <3>1, <1>3 DEF Phases, Waiting, Errors
    <2>. HIDE DEF calm, cluster, raft, Goto, CheckToken
    <2>. QED
      BY <1>10, <2>1, <2>2, <2>3, <2>4 DEF Streams
  <1>11. ASSUME NEW t \in Tasks, Traffic(t) PROVE ElectInv'
    <2>1. \/ Still
          \/ \E p \in {"Ok", "Broadcast"} : Goes(t, p) /\ pc[t] = "Ok"
      BY <1>11 DEF Traffic, Send, BypassSend, Recv
    <2>. QED
      BY <2>1, <1>1, <1>3 DEF Phases, Errors
  <1>12. ASSUME NEW t \in Tasks, RRelay(t) PROVE ElectInv'
    <2>1. CASE RelayReceives(t) \/ HandsOn(t) \/ HandOnFails(t)
      BY <2>1, <1>1 DEF RelayReceives, RelayTakes, RelayLagged, HandsOn,
                        RelayDelivers, HandOnFails, RelaySinkFails
    <2>2. CASE MainHears(t) \/ MainPosts(t) \/ ServerSends(t) \/ HearsLagged(t)
      BY <2>2, <1>1 DEF MainHears, MainPosts, ServerSends, HearsLagged
    <2>3. CASE MainNotifies(t) \/ SubHears(t)
      BY <2>3, <1>1 DEF MainNotifies, SubHears
    <2>4. CASE RelayLeaves(t) \/ RelayRestores(t)
      BY <2>4, <1>1 DEF RelayLeaves,
                        RelayHearsStop, ServerHangsUp, RelayStops, UpstreamCloses, RelayRestores,
                        Restore
    <2>. QED
      BY <1>12, <2>1, <2>2, <2>3, <2>4 DEF RRelay
  <1>13. ASSUME NEW k \in Kinds, NEW s \in Sessions, StreamReturns(k, s)
         PROVE  ElectInv'
    BY <1>13, <1>1 DEF StreamReturns, ReturnStream
  <1>14. ASSUME NEW n \in Nodes, EventLoop(n) \/ EventLoopCancels(n) \/ Halt(n)
         PROVE  ElectInv'
    BY <1>14, <1>1 DEF EventLoop, EventLoopCancels, Halt
  <1>15. CASE UNCHANGED rvars
    BY <1>15, <1>1 DEF rvars
  <1>. HIDE DEF Still, Goes, calm, cluster, raft, vars, local, manager, Calling,
               Goto, CheckToken
  <1>. QED
    BY <1>4, <1>5, <1>6, <1>7, <1>8, <1>9, <1>10, <1>11, <1>12, <1>13, <1>14,
       <1>15 DEF QuietStep

-----------------------------------------------------------------------------
\* A call that fails releases its lock and forgets what it read.
LEMMA FailsKeeps ==
    ASSUME ElectInv, NEW t \in Tasks, NEW e \in Errors, Fails(t, e),
           UNCHANGED <<store, known, goal>>
    PROVE  ElectInv'
  <1>1. /\ UNCHANGED <<created, sessions, sess, store, known, goal>>
        /\ pc' = [pc EXCEPT ![t] = e] /\ rpc' = [rpc EXCEPT ![t] = "none"]
        /\ read' = [read EXCEPT ![t] = Unset]
        /\ lock' = [i \in Ids |-> IF lock[i] = t THEN Free ELSE lock[i]]
    BY DEF Fails, Goto, Awaits, Unlock, local, manager
  <1>2. CoreType /\ TaskInv(t)
    BY DEF ElectInv
  <1>3. e \in Phases /\ e \notin InUse /\ e # "insert"
    BY DEF Phases, Errors, InUse, Waiting, Kinds
  <1>4. TaskInv(t)'
    BY <1>1, <1>2, <1>3
    DEF CoreType, TaskInv, AwaitsWithin, KnowsId, WriterHasLock, WriterIsCurrent
  <1>5. /\ pc' \in [Tasks -> Phases] /\ rpc' \in [Tasks -> Rpcs]
        /\ goal' \in [Tasks -> Ids \cup {NoId}]
        /\ read' \in [Tasks -> Sessions \cup {Unset}]
        /\ lock' \in [Ids -> Tasks \cup {Free}]
    BY <1>1, <1>2, <1>3 DEF CoreType, Rpcs
  <1>6. \A u \in Tasks \ {t} :
           /\ pc'[u] = pc[u] /\ rpc'[u] = rpc[u]
           /\ goal'[u] = goal[u] /\ read'[u] = read[u]
           /\ \A i \in Ids : lock[i] = u => lock'[i] = u
    BY <1>1, <1>2 DEF CoreType
  <1>. QED
    BY <1>1, <1>3, <1>4, <1>5, <1>6, Alone DEF CoreType

\* A step of task t's call that changes its control state only.
LEMMA CallMoves ==
    ASSUME ElectInv, NEW t \in Tasks, NEW p \in Phases, NEW r \in Rpcs,
           NEW g \in Ids \cup {NoId}, NEW m \in Sessions \cup {Unset},
           pc' = [pc EXCEPT ![t] = p], rpc' = [rpc EXCEPT ![t] = r],
           goal' = [goal EXCEPT ![t] = g], read' = [read EXCEPT ![t] = m],
           UNCHANGED <<created, sessions, sess, store, known>>,
           lock' \in [Ids -> Tasks \cup {Free}],
           \A u \in Tasks \ {t}, i \in Ids : lock[i] = u => lock'[i] = u,
           p = "insert" => pc[t] = "insert",
           TaskInv(t)'
    PROVE  ElectInv'
  <1>1. CoreType
    BY DEF ElectInv
  <1>. QED
    BY <1>1, Alone DEF CoreType

\* The steps of a call that leave the store alone.
LEMMA CallKeeps ==
    ASSUME ElectInv, NEW t \in Tasks,
           \/ Begins(t) \/ Locks(t) \/ Gets(t) \/ ChecksAgain(t) \/ Closes(t)
           \/ NotifiesDelete(t) \/ \E i \in Ids : FindGets(t, i)
    PROVE  ElectInv'
  <1>0. CoreType /\ AwaitsWithin(t) /\ KnowsId(t) /\ WriterHasLock(t)
          /\ WriterIsCurrent(t)
    BY DEF ElectInv, TaskInv
  <1>. DEFINE Same == UNCHANGED <<created, sessions, sess, store, known>>
              Moves(p, r) == /\ pc' = [pc EXCEPT ![t] = p]
                             /\ rpc' = [rpc EXCEPT ![t] = r]
  <1>1. ASSUME NEW p \in Phases, NEW r \in Rpcs, Same, Moves(p, r),
               UNCHANGED <<goal, read, lock>>, p = "insert" => pc[t] = "insert",
               TaskInv(t)'
        PROVE  ElectInv'
    <2>1. goal[t] \in Ids \cup {NoId} /\ read[t] \in Sessions \cup {Unset}
      BY <1>0 DEF CoreType
    <2>2. /\ goal' = [goal EXCEPT ![t] = goal[t]]
          /\ read' = [read EXCEPT ![t] = read[t]]
      BY <1>0, <1>1 DEF CoreType
    <2>. QED
      BY <1>0, <1>1, <2>1, <2>2, CallMoves DEF CoreType
  <1>. USE DEF local, manager, cluster, Goto, Awaits, CheckToken, Calling
  <1>2. CASE Begins(t)
    <2>1. \E p \in {"take", "stop", "AlreadyClosed"}, r \in {"none", "lock"} :
             /\ Same /\ Moves(p, r) /\ UNCHANGED <<goal, read, lock>>
             /\ pc[t] \in {"start", "Ok"} /\ rpc[t] = "none"
             /\ r = "lock" => p # "AlreadyClosed"
      BY <1>2 DEF Begins, Start, Stop
    <2>2. PICK p \in {"take", "stop", "AlreadyClosed"}, r \in {"none", "lock"} :
             /\ Same /\ Moves(p, r) /\ UNCHANGED <<goal, read, lock>>
             /\ pc[t] \in {"start", "Ok"} /\ rpc[t] = "none"
             /\ r = "lock" => p # "AlreadyClosed"
      BY <2>1
    <2>3. pc'[t] = p /\ rpc'[t] = r /\ MyId(t)' = MyId(t)
      BY <1>0, <2>2 DEF CoreType, MyId
    <2>4. TaskInv(t)'
      BY <1>0, <2>2, <2>3 DEF TaskInv, AwaitsWithin, KnowsId, WriterHasLock,
                              WriterIsCurrent, InUse, Waiting, Kinds
    <2>. QED
      BY <1>1, <2>2, <2>4 DEF Phases, Waiting, Errors, Rpcs
  <1>3. CASE Locks(t)
    <2>1. /\ Same /\ UNCHANGED <<pc, goal, read>>
          /\ rpc[t] = "lock" /\ rpc' = [rpc EXCEPT ![t] = "get"]
          /\ lock[MyId(t)] = Free /\ lock' = [lock EXCEPT ![MyId(t)] = t]
      BY <1>3 DEF Locks
    <2>2. MyId(t) \in Ids /\ pc[t] # "insert" /\ MyId(t)' = MyId(t)
      BY <1>0, <2>1, ClusterAssumption
      DEF AwaitsWithin, KnowsId, CoreType, InUse, Waiting, Kinds, MyId
    <2>3. rpc'[t] = "get" /\ lock'[MyId(t)] = t
      BY <1>0, <2>1, <2>2 DEF CoreType
    <2>4. TaskInv(t)'
      BY <1>0, <2>1, <2>2, <2>3
      DEF TaskInv, AwaitsWithin, KnowsId, WriterHasLock, WriterIsCurrent
    <2>5. \A u \in Tasks \ {t}, i \in Ids : lock[i] = u => lock'[i] = u
      BY <1>0, <2>1, <2>2, ClusterAssumption DEF CoreType
    <2>6. \A u \in Tasks \ {t} : rpc'[u] = rpc[u]
      BY <1>0, <2>1 DEF CoreType
    <2>7. /\ pc' \in [Tasks -> Phases] /\ rpc' \in [Tasks -> Rpcs]
          /\ lock' \in [Ids -> Tasks \cup {Free}]
      BY <1>0, <2>1 DEF CoreType, Rpcs
    <2>. QED
      BY <1>0, <2>1, <2>4, <2>5, <2>6, <2>7, Alone DEF CoreType
  <1>4. CASE Gets(t)
    <2>. DEFINE main == store[MyId(t)]
    <2>0. /\ pc[t] \in {"take", "stop"} /\ MyId(t) \in Ids /\ sess[t] \in Sessions
          /\ main \in Sessions \cup {Absent, Unset} /\ rpc[t] = "get"
          /\ lock[MyId(t)] = t /\ MyId(t) \in known /\ sess[t] \in created
      BY <1>0, <1>4, ClusterAssumption
      DEF Gets, AwaitsWithin, KnowsId, WriterHasLock, CoreType, InUse, Waiting,
          Kinds, MyId
    <2>1. CASE Fails(t, "AlreadyClosed")
      BY <1>4, <2>1, FailsKeeps DEF Gets, Errors
    <2>2. CASE /\ main # Absent /\ pc[t] = "take"
               /\ read' = [read EXCEPT ![t] = IF main = Unset THEN sess[t] ELSE main]
               /\ Awaits(t, "put") /\ UNCHANGED <<local, pc, sess, lock>>
      <3>. DEFINE m == IF main = Unset THEN sess[t] ELSE main
      <3>1. m \in Sessions /\ (main \in Sessions => main = m)
        BY <2>0, <2>2, ClusterAssumption
      <3>2. /\ Same /\ UNCHANGED <<pc, goal, lock>>
            /\ rpc' = [rpc EXCEPT ![t] = "put"] /\ read' = [read EXCEPT ![t] = m]
        BY <1>4, <2>2 DEF Gets
      <3>. HIDE DEF m
      <3>3. rpc'[t] = "put" /\ read'[t] = m /\ MyId(t)' = MyId(t)
        BY <1>0, <3>2 DEF CoreType, MyId
      <3>4. TaskInv(t)'
        BY <1>0, <2>0, <2>2, <3>1, <3>2, <3>3
        DEF TaskInv, AwaitsWithin, KnowsId, WriterHasLock, WriterIsCurrent
      <3>5. /\ pc' = [pc EXCEPT ![t] = pc[t]] /\ pc[t] \in Phases
            /\ goal' = [goal EXCEPT ![t] = goal[t]] /\ goal[t] \in Ids \cup {NoId}
            /\ lock' \in [Ids -> Tasks \cup {Free}]
        BY <1>0, <3>2 DEF CoreType
      <3>. QED
        BY <3>1, <3>2, <3>4, <3>5, CallMoves DEF Rpcs
    <2>3. CASE /\ main = sess[t] /\ pc[t] = "stop"
               /\ read' = [read EXCEPT ![t] = Unset]
               /\ Awaits(t, "put") /\ UNCHANGED <<local, pc, sess, lock>>
      <3>1. /\ Same /\ UNCHANGED <<pc, goal, lock>>
            /\ rpc' = [rpc EXCEPT ![t] = "put"] /\ read' = [read EXCEPT ![t] = Unset]
        BY <1>4, <2>3 DEF Gets
      <3>2. rpc'[t] = "put" /\ read'[t] = Unset /\ MyId(t)' = MyId(t)
        BY <1>0, <3>1 DEF CoreType, MyId
      <3>3. TaskInv(t)'
        BY <1>0, <2>0, <2>3, <3>1, <3>2
        DEF TaskInv, AwaitsWithin, KnowsId, WriterHasLock, WriterIsCurrent
      <3>4. /\ pc' = [pc EXCEPT ![t] = pc[t]] /\ pc[t] \in Phases
            /\ goal' = [goal EXCEPT ![t] = goal[t]] /\ goal[t] \in Ids \cup {NoId}
            /\ lock' \in [Ids -> Tasks \cup {Free}]
            /\ \A u \in Tasks \ {t}, i \in Ids : lock[i] = u => lock'[i] = u
            /\ "put" \in Rpcs /\ Unset \in Sessions \cup {Unset}
            /\ pc[t] = "insert" => pc[t] = "insert"
        BY <1>0, <3>1 DEF CoreType, Rpcs
      <3>. QED
        BY <3>1, <3>3, <3>4, CallMoves
    <2>4. CASE Awaits(t, "none") /\ Unlock(t) /\ UNCHANGED <<local, pc, sess, read>>
      <3>1. /\ Same /\ UNCHANGED <<pc, goal, read>>
            /\ rpc' = [rpc EXCEPT ![t] = "none"]
            /\ lock' = [i \in Ids |-> IF lock[i] = t THEN Free ELSE lock[i]]
        BY <1>4, <2>4 DEF Gets, Unlock
      <3>2. rpc'[t] = "none" /\ MyId(t)' = MyId(t)
        BY <1>0, <3>1 DEF CoreType, MyId
      <3>3. TaskInv(t)'
        BY <1>0, <2>0, <3>1, <3>2
        DEF TaskInv, AwaitsWithin, KnowsId, WriterHasLock, WriterIsCurrent
      <3>4. /\ pc' \in [Tasks -> Phases] /\ rpc' \in [Tasks -> Rpcs]
            /\ goal' \in [Tasks -> Ids \cup {NoId}]
            /\ read' \in [Tasks -> Sessions \cup {Unset}]
            /\ lock' \in [Ids -> Tasks \cup {Free}]
            /\ pc'[t] # "insert"
        BY <1>0, <2>0, <3>1 DEF CoreType, Rpcs
      <3>5. \A u \in Tasks \ {t} :
               /\ pc'[u] = pc[u] /\ rpc'[u] = rpc[u]
               /\ goal'[u] = goal[u] /\ read'[u] = read[u]
               /\ \A i \in Ids : lock[i] = u => lock'[i] = u
        BY <1>0, <3>1 DEF CoreType
      <3>. QED
        BY <3>1, <3>3, <3>4, <3>5, Alone
    <2>. HIDE DEF local, manager, cluster, Goto, Awaits
    <2>. QED
      BY <1>4, <2>1, <2>2, <2>3, <2>4 DEF Gets
  <1>5. CASE ChecksAgain(t)
    <2>1. PICK p \in {"take", "AlreadyClosed"} :
             /\ Same /\ Moves(p, "none") /\ UNCHANGED <<goal, read, lock>>
             /\ rpc[t] = "token"
      BY <1>5 DEF ChecksAgain
    <2>2. pc'[t] = p /\ rpc'[t] = "none" /\ MyId(t)' = MyId(t) /\ pc[t] = "take"
      BY <1>0, <2>1 DEF CoreType, MyId, AwaitsWithin
    <2>3. TaskInv(t)'
      BY <1>0, <2>1, <2>2 DEF TaskInv, AwaitsWithin, KnowsId, WriterHasLock,
                              WriterIsCurrent, InUse, Waiting, Kinds
    <2>. QED
      BY <1>1, <2>1, <2>3 DEF Phases, Waiting, Errors, Rpcs
  <1>6. CASE Closes(t)
    <2>1. /\ Same /\ Moves("close", "delete") /\ UNCHANGED <<goal, read, lock>>
          /\ pc[t] = "Ok"
      BY <1>6 DEF Closes
    <2>2. /\ pc'[t] = "close" /\ rpc'[t] = "delete" /\ MyId(t)' = MyId(t)
          /\ rpc[t] = "none"
      BY <1>0, <2>1, AwaitsNothing DEF CoreType, MyId
    <2>3. TaskInv(t)'
      BY <1>0, <2>1, <2>2 DEF TaskInv, AwaitsWithin, KnowsId, WriterHasLock,
                              WriterIsCurrent, InUse
    <2>. QED
      BY <1>1, <2>1, <2>3 DEF Phases, Waiting, Rpcs
  <1>7. CASE NotifiesDelete(t)
    <2>1. /\ Same /\ Moves("Ok", "none") /\ UNCHANGED <<goal, read, lock>>
          /\ rpc[t] = "notify"
      BY <1>7 DEF NotifiesDelete
    <2>2. /\ pc'[t] = "Ok" /\ rpc'[t] = "none" /\ MyId(t)' = MyId(t)
          /\ pc[t] = "close"
      BY <1>0, <2>1 DEF CoreType, MyId, AwaitsWithin
    <2>3. TaskInv(t)'
      BY <1>0, <2>1, <2>2 DEF TaskInv, AwaitsWithin, KnowsId, WriterHasLock,
                              WriterIsCurrent, InUse, Waiting
    <2>. QED
      BY <1>1, <2>1, <2>3 DEF Phases, Rpcs
  <1>8. ASSUME NEW i \in Ids, FindGets(t, i) PROVE ElectInv'
    <2>0. /\ Same /\ UNCHANGED <<read, lock>> /\ MyId(t)' = MyId(t)
          /\ pc[t] = "idle" /\ rpc[t] = "none"
      BY <1>8 DEF FindGets, MyId
    <2>1. ASSUME NEW p \in {"NotFound", "Hiqlite"},
                 pc' = [pc EXCEPT ![t] = p], UNCHANGED <<rpc, goal>>
          PROVE  ElectInv'
      <3>1. Moves(p, rpc[t]) /\ pc'[t] = p /\ rpc'[t] = "none"
        BY <1>0, <2>0, <2>1 DEF CoreType
      <3>2. TaskInv(t)'
        BY <1>0, <2>0, <2>1, <3>1
        DEF TaskInv, AwaitsWithin, KnowsId, WriterHasLock, WriterIsCurrent,
            InUse, Waiting, Kinds
      <3>. QED
        BY <1>1, <2>0, <2>1, <3>1, <3>2 DEF Phases, Errors, Rpcs
    <2>2. CASE /\ store[i] # Absent /\ goal' = [goal EXCEPT ![t] = i]
               /\ rpc' = [rpc EXCEPT ![t] = "map"] /\ pc' = pc
      <3>1. i \in known
        BY <1>8, <2>2 DEF FindGets
      <3>2. /\ rpc'[t] = "map" /\ goal'[t] = i /\ pc'[t] = "idle"
            /\ pc' = [pc EXCEPT ![t] = "idle"]
            /\ read' = [read EXCEPT ![t] = read[t]] /\ read[t] \in Sessions \cup {Unset}
            /\ lock' \in [Ids -> Tasks \cup {Free}]
        BY <1>0, <2>0, <2>2 DEF CoreType
      <3>3. TaskInv(t)'
        BY <1>0, <2>0, <3>1, <3>2
        DEF TaskInv, AwaitsWithin, KnowsId, WriterHasLock, WriterIsCurrent,
            InUse, Waiting, Kinds
      <3>. QED
        BY <2>0, <2>2, <3>2, <3>3, CallMoves DEF Phases, Rpcs
    <2>. QED
      BY <1>8, <2>1, <2>2 DEF FindGets
  <1>. QED
    BY <1>2, <1>3, <1>4, <1>5, <1>6, <1>7, <1>8

\* create's id is new to everybody.
LEMMA CreateKeeps ==
    ASSUME ElectInv, NEW t \in Tasks, NEW s \in Sessions, Create(t, s)
    PROVE  ElectInv'
  <1>0. CoreType /\ CreatesDiffer /\ MainsKnown /\ \A u \in Tasks : TaskInv(u)
    BY DEF ElectInv
  <1>1. /\ UNCHANGED <<sessions, store, lock, known, goal, read>>
        /\ created' = created \cup {s} /\ \A r \in created : Id[r] # Id[s]
        /\ sess' = [sess EXCEPT ![t] = s]
        /\ pc' = [pc EXCEPT ![t] = "insert"] /\ rpc' = [rpc EXCEPT ![t] = "put"]
        /\ rpc[t] = "none"
    BY DEF Create, BuildObject, Goto, Awaits, cluster
  <1>2. Id[s] \notin known
    BY <1>0, <1>1 DEF CoreType
  <1>3. CoreType'
    BY <1>0, <1>1 DEF CoreType, Phases, Waiting, Rpcs
  <1>4. \A u \in Tasks : pc[u] = "insert" => MyId(u) # Id[s]
    BY <1>0, <1>1 DEF TaskInv, KnowsId, MyId
  <1>5. pc'[t] = "insert" /\ rpc'[t] = "put" /\ sess'[t] = s /\ MyId(t)' = Id[s]
    BY <1>0, <1>1 DEF CoreType, MyId
  <1>6. \A u \in Tasks \ {t} :
           /\ pc'[u] = pc[u] /\ rpc'[u] = rpc[u] /\ sess'[u] = sess[u]
           /\ MyId(u)' = MyId(u)
    BY <1>0, <1>1 DEF CoreType, MyId
  <1>7. CreatesDiffer' /\ MainsKnown'
    BY <1>0, <1>1, <1>4, <1>5, <1>6 DEF CreatesDiffer, MainsKnown
  <1>8. TaskInv(t)'
    BY <1>0, <1>1, <1>2, <1>5
    DEF TaskInv, AwaitsWithin, KnowsId, WriterHasLock, WriterIsCurrent, InUse
  <1>9. ASSUME NEW u \in Tasks \ {t} PROVE TaskInv(u)'
    BY <1>0, <1>1, <1>6, Bystander DEF TaskInv, KnowsId
  <1>. QED
    BY <1>3, <1>7, <1>8, <1>9 DEF ElectInv

\* The id of a create becomes known with the session that has it.
LEMMA CreateInsertsKeeps ==
    ASSUME ElectInv, NEW t \in Tasks, CreateInserts(t)
    PROVE  ElectInv'
  <1>0. CoreType /\ CreatesDiffer /\ MainsKnown /\ \A u \in Tasks : TaskInv(u)
    BY DEF ElectInv
  <1>1. /\ UNCHANGED <<created, sess, store, lock, rpc, goal, read>>
        /\ sessions' = sessions \cup {sess[t]} /\ known' = known \cup {MyId(t)}
        /\ pc[t] = "insert" /\ pc' = [pc EXCEPT ![t] = "Ok"] /\ rpc[t] = "none"
    BY DEF CreateInserts, Insert, Goto, raft
  <1>2. sess[t] \in created /\ MyId(t) \in {Id[s] : s \in created}
    BY <1>0, <1>1 DEF TaskInv, KnowsId, MyId
  <1>3. CoreType'
    BY <1>0, <1>1, <1>2 DEF CoreType, Phases
  <1>4. pc'[t] = "Ok" /\ \A u \in Tasks \ {t} : pc'[u] = pc[u]
    BY <1>0, <1>1 DEF CoreType
  <1>5. CreatesDiffer' /\ MainsKnown'
    BY <1>0, <1>1, <1>4 DEF CreatesDiffer, MainsKnown, MyId
  <1>6. TaskInv(t)'
    BY <1>0, <1>1, <1>2, <1>4
    DEF TaskInv, AwaitsWithin, KnowsId, WriterHasLock, WriterIsCurrent, MyId
  <1>7. ASSUME NEW u \in Tasks \ {t} PROVE TaskInv(u)'
    <2>1. pc[u] = "insert" => MyId(u) \notin known'
      BY <1>0, <1>1 DEF CreatesDiffer, TaskInv, KnowsId
    <2>2. MyId(u)' = MyId(u)
      BY <1>1 DEF MyId
    <2>. QED
      BY <1>0, <1>1, <1>4, <2>1, <2>2
      DEF TaskInv, AwaitsWithin, KnowsId, WriterHasLock, WriterIsCurrent
  <1>. QED
    BY <1>3, <1>5, <1>6, <1>7 DEF ElectInv

\* find ends with an object of the id it asked for.
LEMMA FoundKeeps ==
    ASSUME ElectInv, NEW t \in Tasks, NEW s \in Sessions, Found(t, s),
           rpc[t] \in {"map", "insert"}, Id[s] = goal[t],
           s \in created', created \subseteq created', created' \subseteq Sessions,
           sessions' \subseteq created', UNCHANGED <<store, lock, known, read>>
    PROVE  ElectInv'
  <1>0. CoreType /\ CreatesDiffer /\ MainsKnown /\ \A u \in Tasks : TaskInv(u)
    BY DEF ElectInv
  <1>1. /\ sess' = [sess EXCEPT ![t] = s] /\ pc' = [pc EXCEPT ![t] = "Ok"]
        /\ rpc' = [rpc EXCEPT ![t] = "none"] /\ goal' = [goal EXCEPT ![t] = NoId]
    BY DEF Found, Goto, Awaits
  <1>2. Id[s] \in known /\ read[t] = Unset
    BY <1>0 DEF TaskInv, AwaitsWithin, WriterIsCurrent
  <1>3. CoreType'
    BY <1>0, <1>1 DEF CoreType, Phases, Rpcs
  <1>4. /\ pc'[t] = "Ok" /\ rpc'[t] = "none" /\ sess'[t] = s /\ MyId(t)' = Id[s]
        /\ \A u \in Tasks \ {t} :
              /\ pc'[u] = pc[u] /\ rpc'[u] = rpc[u] /\ sess'[u] = sess[u]
              /\ goal'[u] = goal[u] /\ MyId(u)' = MyId(u)
    BY <1>0, <1>1 DEF CoreType, MyId
  <1>5. CreatesDiffer' /\ MainsKnown'
    BY <1>0, <1>4 DEF CreatesDiffer, MainsKnown
  <1>6. TaskInv(t)'
    BY <1>2, <1>4
    DEF TaskInv, AwaitsWithin, KnowsId, WriterHasLock, WriterIsCurrent
  <1>7. ASSUME NEW u \in Tasks \ {t} PROVE TaskInv(u)'
    BY <1>0, <1>4, Bystander DEF TaskInv, KnowsId
  <1>. QED
    BY <1>3, <1>5, <1>6, <1>7 DEF ElectInv

\* find ends so, or looks on.
LEMMA FindKeeps ==
    ASSUME ElectInv, NEW t \in Tasks,
           FindLooks(t) \/ \E s \in Sessions : FindInserts(t, s)
    PROVE  ElectInv'
  <1>0. CoreType /\ TaskInv(t)
    BY DEF ElectInv
  <1>1. ASSUME NEW s \in InMap(NodeOf[t], goal[t]), FindLooks(t), Found(t, s)
        PROVE  ElectInv'
    <2>1. s \in created /\ Id[s] = goal[t] /\ s \in Sessions
      BY <1>0 DEF CoreType, InMap
    <2>2. /\ UNCHANGED <<created, sessions, store, lock, known, read>>
          /\ rpc[t] = "map"
      BY <1>1 DEF FindLooks, local, manager, cluster
    <2>. QED
      BY <1>0, <1>1, <2>1, <2>2, FoundKeeps DEF CoreType
  <1>2. ASSUME FindLooks(t), Awaits(t, "insert"), UNCHANGED <<pc, sess, goal>>
        PROVE  ElectInv'
    <2>1. /\ UNCHANGED <<created, sessions, store, lock, known, read>>
          /\ rpc[t] = "map" /\ rpc' = [rpc EXCEPT ![t] = "insert"]
      BY <1>2 DEF FindLooks, Awaits, local, manager, cluster
    <2>2. rpc'[t] = "insert" /\ MyId(t)' = MyId(t)
      BY <1>0, <1>2, <2>1 DEF CoreType, MyId
    <2>3. TaskInv(t)'
      BY <1>0, <1>2, <2>1, <2>2
      DEF TaskInv, AwaitsWithin, KnowsId, WriterHasLock, WriterIsCurrent
    <2>4. /\ rpc' \in [Tasks -> Rpcs]
          /\ \A u \in Tasks \ {t} : rpc'[u] = rpc[u]
      BY <1>0, <2>1 DEF CoreType, Rpcs
    <2>. QED
      BY <1>0, <1>2, <2>1, <2>3, <2>4, Alone DEF CoreType
  <1>3. ASSUME NEW s \in Sessions, FindInserts(t, s) PROVE ElectInv'
    <2>1. /\ Found(t, s) /\ rpc[t] = "insert" /\ Id[s] = goal[t]
          /\ UNCHANGED <<store, lock, known, read>>
      BY <1>3 DEF FindInserts, cluster
    <2>2. \/ s \in sessions /\ UNCHANGED <<created, sessions>>
          \/ created' = created \cup {s} /\ sessions' = sessions \cup {s}
      BY <1>3 DEF FindInserts, InMap, BuildObject
    <2>. QED
      BY <1>0, <2>1, <2>2, FoundKeeps DEF CoreType
  <1>. QED
    BY <1>1, <1>2, <1>3 DEF FindLooks

\* A write that task t awaited, committed in the step that ends or continues its
\* call, leaves the other tasks' reads current: they have other ids, or wait
\* for the lock, or the write records no main session.
LEMMA WriteKeeps ==
    ASSUME ElectInv, NEW t \in Tasks, NEW p \in Phases, NEW r \in Rpcs,
           rpc[t] \in {"put", "delete"}, store' = Written(t),
           pc' = [pc EXCEPT ![t] = p], rpc' = [rpc EXCEPT ![t] = r],
           read' = [read EXCEPT ![t] = Unset],
           UNCHANGED <<created, sessions, sess, known, goal>>,
           lock' \in [Ids -> Tasks \cup {Free}],
           \A u \in Tasks \ {t}, i \in Ids : lock[i] = u => lock'[i] = u,
           r \in {"none", "token", "notify"},
           r = "token" => p = "take", r = "notify" => p = "close",
           p = "insert" => pc[t] = "insert", p \in InUse => pc[t] \in InUse
    PROVE  ElectInv'
  <1>0. CoreType /\ CreatesDiffer /\ MainsKnown /\ \A u \in Tasks : TaskInv(u)
    BY DEF ElectInv
  <1>. DEFINE i == MyId(t)
              v == IF rpc[t] = "delete" THEN Absent ELSE read[t]
  <1>1. /\ sess[t] \in created /\ sess[t] \in Sessions /\ i \in Ids
        /\ pc[t] \in {"insert", "take", "stop", "close"}
        /\ pc[t] # "insert" => i \in known
    BY <1>0, ClusterAssumption
    DEF CoreType, TaskInv, AwaitsWithin, KnowsId, InUse, Waiting, MyId
  <1>2. /\ v \in Sessions \cup {Absent, Unset}
        /\ v \in Sessions => rpc[t] = "put" /\ pc[t] = "take"
    BY <1>0, ClusterAssumption
    DEF CoreType, TaskInv, AwaitsWithin, WriterIsCurrent
  <1>3. store' = [store EXCEPT ![i] = v]
    BY DEF Written
  <1>. HIDE DEF v
  <1>4. CoreType'
    BY <1>0, <1>1, <1>2, <1>3 DEF CoreType
  <1>5. /\ pc'[t] = p /\ rpc'[t] = r /\ read'[t] = Unset /\ MyId(t)' = MyId(t)
        /\ \A u \in Tasks \ {t} :
              /\ pc'[u] = pc[u] /\ rpc'[u] = rpc[u] /\ read'[u] = read[u]
              /\ MyId(u)' = MyId(u)
    BY <1>0 DEF CoreType, MyId
  <1>6. CreatesDiffer'
    BY <1>0, <1>5 DEF CreatesDiffer
  <1>7. MainsKnown'
    BY <1>0, <1>1, <1>2, <1>3 DEF MainsKnown, CoreType
  <1>8. TaskInv(t)'
    <2>1. KnowsId(t)'
      BY <1>0, <1>5 DEF TaskInv, KnowsId
    <2>. QED
      BY <1>5, <2>1 DEF TaskInv, AwaitsWithin, WriterHasLock, WriterIsCurrent
  <1>9. ASSUME NEW u \in Tasks \ {t} PROVE TaskInv(u)'
    <2>1. ASSUME rpc[u] = "put", pc[u] # "insert", MyId(u) = i
          PROVE  v \notin Sessions
      <3>1. lock[i] = u
        BY <1>0, <2>1 DEF TaskInv, WriterHasLock
      <3>2. v \in Sessions => lock[i] = t
        BY <1>0, <1>2 DEF TaskInv, WriterHasLock
      <3>. QED
        BY <3>1, <3>2
    <2>2. rpc[u] = "put" /\ pc[u] # "insert" =>
             store'[MyId(u)] = store[MyId(u)] \/ store'[MyId(u)] \notin Sessions
      BY <1>0, <1>1, <1>3, <2>1 DEF CoreType
    <2>. QED
      BY <1>0, <1>5, <2>2, Bystander DEF TaskInv, KnowsId
  <1>. QED
    BY <1>4, <1>6, <1>7, <1>8, <1>9 DEF ElectInv

\* The steps that may write the store keep the invariant.
LEMMA StoreStepKeeps ==
    ASSUME ElectInv, NEW t \in Tasks, Puts(t) \/ Deletes(t) \/ RpcFails(t)
    PROVE  ElectInv'
  <1>0. CoreType /\ TaskInv(t)
    BY DEF ElectInv
  <1>. USE DEF local, manager, Goto, Awaits
  <1>1. ASSUME Unlock(t)
        PROVE  /\ lock' \in [Ids -> Tasks \cup {Free}]
               /\ \A u \in Tasks \ {t}, i \in Ids : lock[i] = u => lock'[i] = u
    BY <1>0, <1>1 DEF Unlock, CoreType
  <1>2. CASE Puts(t)
    <2>1. PICK r \in {"token", "none"} :
             /\ rpc' = [rpc EXCEPT ![t] = r]
             /\ r = "token" => pc[t] = "take"
      BY <1>2 DEF Puts
    <2>2. /\ rpc[t] = "put" /\ store' = Written(t) /\ Unlock(t) /\ pc' = pc
          /\ read' = [read EXCEPT ![t] = Unset]
          /\ UNCHANGED <<created, sessions, sess, known, goal>>
      BY <1>2 DEF Puts
    <2>3. PICK p \in Phases : p = pc[t]
      BY <1>0 DEF CoreType
    <2>4. pc' = [pc EXCEPT ![t] = p] /\ r \in Rpcs
      BY <1>0, <2>2, <2>3 DEF CoreType, Rpcs
    <2>5. /\ lock' \in [Ids -> Tasks \cup {Free}]
          /\ \A u \in Tasks \ {t}, i \in Ids : lock[i] = u => lock'[i] = u
      BY <1>1, <2>2
    <2>6. /\ r \in {"none", "token", "notify"} /\ r # "notify"
          /\ r = "token" => p = "take"
          /\ p = "insert" => pc[t] = "insert"
          /\ p \in InUse => pc[t] \in InUse
      BY <2>1, <2>3
    <2>7. rpc' = [rpc EXCEPT ![t] = r] /\ rpc[t] \in {"put", "delete"}
      BY <2>1, <2>2
    <2>. QED
      BY <2>2, <2>4, <2>5, <2>6, <2>7, WriteKeeps
  <1>3. CASE Deletes(t)
    <2>1. /\ rpc[t] = "delete" /\ store' = Written(t)
          /\ rpc' = [rpc EXCEPT ![t] = "notify"]
          /\ UNCHANGED <<created, sessions, pc, sess, known, goal, read, lock>>
      BY <1>3 DEF Deletes
    <2>2. pc[t] = "close" /\ read[t] = Unset
      BY <1>0, <2>1 DEF TaskInv, AwaitsWithin, WriterIsCurrent
    <2>3. /\ pc' = [pc EXCEPT ![t] = "close"] /\ "close" \in Phases
          /\ read' = [read EXCEPT ![t] = Unset] /\ "notify" \in Rpcs
          /\ lock' \in [Ids -> Tasks \cup {Free}]
      BY <1>0, <2>1, <2>2 DEF CoreType, Phases, Waiting, Rpcs
    <2>. QED
      BY <2>1, <2>2, <2>3, WriteKeeps
  <1>4. CASE RpcFails(t)
    <2>1. PICK e \in {"Hiqlite", "Timeout"} : Fails(t, e)
      BY <1>4 DEF RpcFails
    <2>2. UNCHANGED <<known, goal>> /\ rpc[t] # "none"
      BY <1>4 DEF RpcFails
    <2>3. CASE UNCHANGED store
      BY <2>1, <2>2, <2>3, FailsKeeps DEF Errors
    <2>4. CASE rpc[t] \in {"put", "delete"} /\ store' = Written(t)
      <3>1. /\ pc' = [pc EXCEPT ![t] = e] /\ rpc' = [rpc EXCEPT ![t] = "none"]
            /\ read' = [read EXCEPT ![t] = Unset] /\ Unlock(t)
            /\ UNCHANGED <<created, sessions, sess>>
        BY <2>1 DEF Fails
      <3>2. e \in Phases /\ "none" \in Rpcs /\ e # "insert" /\ e \notin InUse
        BY DEF Phases, Errors, Rpcs, InUse, Waiting, Kinds
      <3>. QED
        BY <1>1, <2>2, <2>4, <3>1, <3>2, WriteKeeps
    <2>. QED
      BY <1>4, <2>3, <2>4 DEF RpcFails
  <1>. QED
    BY <1>2, <1>3, <1>4

\* A dropped task and a crashed node take their locks and calls with them.
LEMMA DeathKeeps ==
    ASSUME ElectInv,
           (\E t \in Tasks : Drops(t)) \/ \E n \in Nodes : Crash(n)
    PROVE  ElectInv'
  <1>0. CoreType /\ CreatesDiffer /\ MainsKnown /\ \A u \in Tasks : TaskInv(u)
    BY DEF ElectInv
  <1>1. ASSUME NEW mine \in SUBSET Tasks,
               UNCHANGED <<created, sess, store, known>>,
               sessions' \subseteq sessions,
               pc' = [t \in Tasks |-> IF t \in mine THEN "dropped" ELSE pc[t]],
               rpc' = [t \in Tasks |-> IF t \in mine THEN "none" ELSE rpc[t]],
               goal' = [t \in Tasks |-> IF t \in mine THEN NoId ELSE goal[t]],
               read' = [t \in Tasks |-> IF t \in mine THEN Unset ELSE read[t]],
               lock' = [i \in Ids |-> IF lock[i] \in mine THEN Free ELSE lock[i]]
        PROVE  ElectInv'
    <2>1. CoreType'
      BY <1>0, <1>1 DEF CoreType, Phases, Rpcs
    <2>2. CreatesDiffer' /\ MainsKnown'
      BY <1>0, <1>1 DEF CreatesDiffer, MainsKnown, MyId
    <2>3. ASSUME NEW t \in mine PROVE TaskInv(t)'
      BY <1>1, <2>3
      DEF TaskInv, AwaitsWithin, KnowsId, WriterHasLock, WriterIsCurrent,
          InUse, Waiting, Kinds
    <2>4. ASSUME NEW u \in Tasks \ mine PROVE TaskInv(u)'
      <3>1. /\ pc'[u] = pc[u] /\ rpc'[u] = rpc[u] /\ sess'[u] = sess[u]
            /\ goal'[u] = goal[u] /\ read'[u] = read[u]
            /\ \A i \in Ids : lock[i] = u => lock'[i] = u
        BY <1>1, <2>4
      <3>. QED
        BY <1>0, <1>1, <3>1, Bystander DEF TaskInv, KnowsId
    <2>. QED
      BY <2>1, <2>2, <2>3, <2>4 DEF ElectInv
  <1>2. ASSUME NEW t \in Tasks, Drops(t) PROVE ElectInv'
    <2>1. /\ UNCHANGED <<created, sessions, sess, store, known>>
          /\ pc' = [pc EXCEPT ![t] = "dropped"] /\ rpc' = [rpc EXCEPT ![t] = "none"]
          /\ goal' = [goal EXCEPT ![t] = NoId] /\ read' = [read EXCEPT ![t] = Unset]
          /\ lock' = [i \in Ids |-> IF lock[i] = t THEN Free ELSE lock[i]]
      BY <1>2 DEF Drops, Drop, Goto, Awaits, Unlock, manager
    <2>2. PICK mine \in SUBSET Tasks : mine = {t}
      OBVIOUS
    <2>3. /\ pc' = [u \in Tasks |-> IF u \in mine THEN "dropped" ELSE pc[u]]
          /\ rpc' = [u \in Tasks |-> IF u \in mine THEN "none" ELSE rpc[u]]
          /\ goal' = [u \in Tasks |-> IF u \in mine THEN NoId ELSE goal[u]]
          /\ read' = [u \in Tasks |-> IF u \in mine THEN Unset ELSE read[u]]
          /\ lock' = [i \in Ids |-> IF lock[i] \in mine THEN Free ELSE lock[i]]
      BY <1>0, <2>1, <2>2 DEF CoreType
    <2>. QED
      BY <1>1, <2>1, <2>3
  <1>3. ASSUME NEW n \in Nodes, Crash(n) PROVE ElectInv'
    <2>. DEFINE mine == {t \in Tasks : NodeOf[t] = n
                                       /\ (pc[t] # "idle" \/ rpc[t] # "none")}
    <2>1. /\ UNCHANGED <<created, sess, store, known>>
          /\ sessions' \subseteq sessions
          /\ pc' = [t \in Tasks |-> IF t \in mine THEN "dropped" ELSE pc[t]]
          /\ rpc' = [t \in Tasks |-> IF t \in mine THEN "none" ELSE rpc[t]]
          /\ goal' = [t \in Tasks |-> IF t \in mine THEN NoId ELSE goal[t]]
          /\ read' = [t \in Tasks |-> IF t \in mine THEN Unset ELSE read[t]]
          /\ lock' = [i \in Ids |-> IF lock[i] \in mine THEN Free ELSE lock[i]]
      BY <1>3 DEF Crash
    <2>2. mine \in SUBSET Tasks
      OBVIOUS
    <2>. HIDE DEF mine
    <2>. QED
      BY <1>1, <2>1, <2>2
  <1>. QED
    BY <1>2, <1>3

\* Every step keeps the invariant.
LEMMA StepElect == ElectInv /\ [RNext]_rvars => ElectInv'
  BY QuietKeeps, CallKeeps, CreateKeeps, CreateInsertsKeeps, FindKeeps,
     StoreStepKeeps, DeathKeeps DEF RNext, RCalls, QuietStep

\* Only three steps write the store.
LEMMA StoreFrame ==
    [RNext]_rvars =>
        \/ store' = store
        \/ \E t \in Tasks :
              /\ rpc[t] \in {"put", "delete"} /\ store' = Written(t)
              /\ Puts(t) \/ Deletes(t) \/ RpcFails(t)
  <1>. SUFFICES ASSUME [RNext]_rvars
                PROVE  \/ store' = store
                       \/ \E t \in Tasks :
                             /\ rpc[t] \in {"put", "delete"}
                             /\ store' = Written(t)
                             /\ Puts(t) \/ Deletes(t) \/ RpcFails(t)
    OBVIOUS
  <1>. USE DEF cluster
  <1>1. ASSUME NEW t \in Tasks, RCalls(t)
        PROVE  \/ store' = store
               \/ /\ rpc[t] \in {"put", "delete"} /\ store' = Written(t)
                  /\ Puts(t) \/ Deletes(t) \/ RpcFails(t)
    <2>1. CASE Puts(t) \/ Deletes(t) \/ RpcFails(t)
      BY <2>1 DEF Puts, Deletes, RpcFails
    <2>2. CASE \/ \E s \in Sessions : Create(t, s) \/ FindInserts(t, s)
               \/ \E i \in Ids : FindGets(t, i)
               \/ CreateInserts(t) \/ FindLooks(t)
      BY <2>2 DEF Create, FindInserts, FindGets, CreateInserts, FindLooks
    <2>3. CASE \/ IsStartedAndAfter(t) \/ Begins(t) \/ Locks(t) \/ Gets(t)
               \/ ChecksAgain(t) \/ Takes(t) \/ MainConnectFails(t)
               \/ StopsRelay(t)
      BY <2>3 DEF IsStartedAndAfter, Begins, Locks, Gets, ChecksAgain, Takes,
                  MainConnectFails, StopsRelay
    <2>4. CASE \/ Closes(t) \/ NotifiesDelete(t) \/ GuardsClose(t) \/ Streams(t)
               \/ Traffic(t) \/ Drops(t)
      BY <2>4 DEF Closes, NotifiesDelete, GuardsClose, Streams, Traffic, Drops
    <2>. QED
      BY <1>1, <2>1, <2>2, <2>3, <2>4 DEF RCalls
  <1>2. ASSUME NEW t \in Tasks, RRelay(t) \/ GuardCloses(t) PROVE store' = store
    BY <1>2
    DEF RRelay, RelayReceives, HandsOn, HandOnFails, MainHears, MainPosts,
        ServerSends, MainNotifies, SubHears, HearsLagged, RelayLeaves,
        RelayHearsStop, ServerHangsUp,
        RelayRestores, GuardCloses
  <1>3. ASSUME NEW k \in Kinds, NEW s \in Sessions, StreamReturns(k, s)
        PROVE  store' = store
    BY <1>3 DEF StreamReturns
  <1>4. ASSUME NEW n \in Nodes,
               EventLoop(n) \/ EventLoopCancels(n) \/ Halt(n) \/ Crash(n)
        PROVE  store' = store
    BY <1>4 DEF EventLoop, EventLoopCancels, Halt, Crash
  <1>5. CASE UNCHANGED rvars
    BY <1>5 DEF rvars
  <1>. HIDE DEF cluster
  <1>. QED
    BY <1>1, <1>2, <1>3, <1>4, <1>5 DEF RNext

\* Every step leaves a recorded main session recorded, or clears it in its own
\* stop, or deletes it.
LEMMA StepMain ==
    ElectInv /\ [RNext]_rvars =>
        \A i \in Ids :
            store[i] \in Sessions /\ store'[i] # store[i] =>
                \/ store'[i] = Absent
                \/ /\ store'[i] = Unset
                   /\ \E t \in Tasks : sess[t] = store[i] /\ pc[t] = "stop"
  <1>. SUFFICES ASSUME ElectInv, [RNext]_rvars, NEW i \in Ids,
                       store[i] \in Sessions, store'[i] # store[i]
                PROVE  \/ store'[i] = Absent
                       \/ /\ store'[i] = Unset
                          /\ \E t \in Tasks : sess[t] = store[i] /\ pc[t] = "stop"
    OBVIOUS
  <1>1. PICK t \in Tasks : rpc[t] \in {"put", "delete"} /\ store' = Written(t)
    BY StoreFrame
  <1>2. /\ CoreType /\ MainsKnown /\ AwaitsWithin(t) /\ KnowsId(t)
        /\ WriterIsCurrent(t)
    BY DEF ElectInv, TaskInv
  <1>3. i = MyId(t)
    BY <1>1, <1>2 DEF Written, CoreType
  <1>4. store'[i] = IF rpc[t] = "delete" THEN Absent ELSE read[t]
    BY <1>1, <1>2, <1>3 DEF Written, CoreType
  <1>5. CASE rpc[t] = "delete"
    BY <1>4, <1>5
  <1>6. CASE rpc[t] = "put"
    <2>1. pc[t] # "insert"
      BY <1>2, <1>3 DEF MainsKnown, KnowsId
    <2>2. CASE pc[t] = "take"
      BY <1>2, <1>3, <1>4, <1>6, <2>2 DEF WriterIsCurrent
    <2>3. CASE pc[t] = "stop"
      BY <1>2, <1>3, <1>4, <1>6, <2>3 DEF WriterIsCurrent
    <2>. QED
      BY <1>2, <1>6, <2>1, <2>2, <2>3 DEF AwaitsWithin
  <1>. QED
    BY <1>1, <1>5, <1>6

\* The recorded main session of an id is only cleared by its own stop or deleted
\* with the entry, whatever crashes and fails.
THEOREM MainStable == RSpec => RecordedMainStable
  <1>1. RInit => ElectInv
    BY InitElect
  <1>2. ElectInv /\ [RNext]_rvars => ElectInv'
    BY StepElect
  <1>. QED
    BY <1>1, <1>2, StepMain, PTL DEF RSpec, RecordedMainStable
=============================================================================
