--------------------------- MODULE ProxyHandlers ----------------------------
(***************************************************************************)
(* The request handlers GET /sse (router/sse.rs) and POST /message         *)
(* (router/message.rs) over the standalone sessions of StandaloneSession.  *)
(*                                                                         *)
(* Each task serves one request.  at[t] is how far its handler has come:   *)
(* the call under way or, in "stream", the response body being produced.   *)
(* A handler step makes the next session call of the request; the rest of  *)
(* the call, and every spawned task, are the steps of StandaloneSession.   *)
(***************************************************************************)
EXTENDS StandaloneSession

CONSTANTS
    SseTasks,      \* tasks that may serve a GET /sse
    MessageTasks,  \* tasks that may serve a POST /message
    Answers        \* answers the authorizer may give for a message

VARIABLES
    announced, \* sessions whose id a client got in an endpoint event
    at,        \* stage of the handler of task t
    verdict,   \* what the authorizer answered for the message of task t
    ticket,    \* number of the message task t put into clt (0: none)
    reply      \* HTTP status of the response (0: none yet)

hvars == <<announced, at, verdict, ticket, reply>>
allvars == <<vars, hvars>>

Verdicts == {"Allow", "Deny", "Unauthorized"}

ASSUME RequestAssumption ==
    SseTasks \subseteq Tasks /\ MessageTasks \subseteq Tasks /\ Answers \subseteq Verdicts

SseStages == {"sse_session", "sse_start", "sse_guard", "sse_downstream"}

MessageStages == {"msg_find", "msg_start", "msg_bypass", "msg_denied",
                  "msg_forward", "msg_upstream", "msg_sent"}

Stages == {"none", "stream", "done", "gone"} \cup SseStages \cup MessageStages

HTypeOK ==
    /\ TypeOK
    /\ announced \subseteq created
    /\ at \in [Tasks -> Stages]
    /\ verdict \in [Tasks -> Verdicts]
    /\ ticket \in [Tasks -> Nat]
    /\ reply \in [Tasks -> {0, 200, 202, 400, 401, 403, 500}]
    /\ \A t \in Tasks :
         /\ at[t] = "none" <=> pc[t] = "idle"
         /\ at[t] \in {"done", "gone"} <=> pc[t] = "dropped"

HInit ==
    /\ Init
    /\ announced = {}
    /\ at = [t \in Tasks |-> "none"]
    /\ verdict = [t \in Tasks |-> "Allow"]
    /\ ticket = [t \in Tasks |-> 0]
    /\ reply = [t \in Tasks |-> 0]

-----------------------------------------------------------------------------
(***************************************************************************)
(* Errors and their responses.                                             *)
(***************************************************************************)

\* IntoResponse for Error: what is not listed is a 500.
Status(e) ==
    CASE e = "BadRequest" -> 400
      [] e = "Unauthorized" -> 401
      [] e = "Forbidden" -> 403
      [] OTHER -> 500

\* AuthorizationResult::to_err_response, for a result that is not Allow.
ToErrResponse(v) ==
    Status(IF v = "Deny" THEN "Forbidden" ELSE "Unauthorized")

\* Statuses of the extractors and of a failed authorizer: a failed authentication
\* is a 500 and OpenfgaAuthz answers 401 to a request without one; a missing
\* session id or an unusable message body is a 4xx, for which 400 stands.
RejectionStatus == {400, 401, 500}

\* A session id is a random UUID: a client that names a session got its id from
\* an endpoint event, or names none that exists.
MayName(s) == s \in announced \/ s \notin created

Enter(t, stage) == at' = [at EXCEPT ![t] = stage]

\* Mutant: the response is sent by a handler whose locals live on.
Respond_Leaks(t, code) ==
    /\ Enter(t, "done")
    /\ reply' = [reply EXCEPT ![t] = code]
    /\ UNCHANGED vars

\* The handler returns: its locals are dropped and the response is sent.
Respond(t, code) ==
    /\ Drop(t)
    /\ Enter(t, "done")
    /\ reply' = [reply EXCEPT ![t] = code]

(***************************************************************************)
(* What both handlers do.                                                  *)
(***************************************************************************)

\* An extractor refuses the request, or the authorizer itself fails.
RequestRejected(t) ==
    /\ at[t] = "none"
    /\ \E code \in RejectionStatus : Respond(t, code)
    /\ UNCHANGED <<announced, verdict, ticket>>

\* The `?` after each session call.
RequestFails(t) ==
    /\ at[t] \in SseStages \cup MessageStages
    /\ pc[t] \in Errors
    /\ Respond(t, Status(pc[t]))
    /\ UNCHANGED <<announced, verdict, ticket>>

\* The client goes away: the server drops the handler, or its response body.
ClientDisconnects(t) ==
    /\ at[t] \notin {"none", "done", "gone"}
    /\ Drop(t)
    /\ Enter(t, "gone")
    /\ UNCHANGED <<announced, verdict, ticket, reply>>

(***************************************************************************)
(* GET /sse.                                                               *)
(***************************************************************************)

\* authorize_enter refuses.
SseRefused(t) ==
    /\ t \in SseTasks
    /\ at[t] = "none"
    /\ \E v \in Verdicts \ {"Allow"} : Respond(t, ToErrResponse(v))
    /\ UNCHANGED <<announced, verdict, ticket>>

\* No session id, and the resolver knows no upstream server.
SseUnresolved(t) ==
    /\ t \in SseTasks
    /\ at[t] = "none"
    /\ Respond(t, Status("ServiceUnavailable"))
    /\ UNCHANGED <<announced, verdict, ticket>>

\* No session id: create a session.  A session id: find it.
SseSession(t) ==
    /\ t \in SseTasks
    /\ at[t] = "none"
    /\ \E s \in Sessions : New(t, s) \/ (MayName(s) /\ Find(t, s))
    /\ Enter(t, "sse_session")
    /\ UNCHANGED <<announced, verdict, ticket, reply>>

SseStart(t) ==
    /\ at[t] = "sse_session"
    /\ EnsureStarted(t)
    /\ Enter(t, "sse_start")
    /\ UNCHANGED <<announced, verdict, ticket, reply>>

SseGuard(t) ==
    /\ at[t] = "sse_start"
    /\ GuardClose(t)
    /\ Enter(t, "sse_guard")
    /\ UNCHANGED <<announced, verdict, ticket, reply>>

\* Mutant: guard_close is not called.
SseDownstream_Unguarded(t) ==
    /\ at[t] = "sse_start"
    /\ GuardStream(t, "downstream")
    /\ Enter(t, "sse_downstream")
    /\ UNCHANGED <<announced, verdict, ticket, reply>>

SseDownstream(t) ==
    /\ at[t] = "sse_guard"
    /\ GuardStream(t, "downstream")
    /\ Enter(t, "sse_downstream")
    /\ UNCHANGED <<announced, verdict, ticket, reply>>

\* The response starts with the endpoint event; its body owns both guards.
SseRespond(t) ==
    /\ at[t] = "sse_downstream"
    /\ pc[t] = "Ok"
    /\ Enter(t, "stream")
    /\ announced' = announced \cup {sess[t]}
    /\ reply' = [reply EXCEPT ![t] = 200]
    /\ UNCHANGED <<vars, verdict, ticket>>

SseRecv(t) ==
    /\ at[t] = "stream"
    /\ Recv(t)
    /\ UNCHANGED hvars

\* recv failed: the body's loop breaks and drops both guards.
SseStreamEnds(t) ==
    /\ at[t] = "stream"
    /\ pc[t] = "Broadcast"
    /\ Drop(t)
    /\ Enter(t, "done")
    /\ UNCHANGED <<announced, verdict, ticket, reply>>

(***************************************************************************)
(* POST /message.                                                          *)
(***************************************************************************)

\* authorize_client_message, whose answer is kept, and find.
MessageFind(t) ==
    /\ t \in MessageTasks
    /\ at[t] = "none"
    /\ \E s \in Sessions : MayName(s) /\ Find(t, s)
    /\ \E v \in Answers : verdict' = [verdict EXCEPT ![t] = v]
    /\ Enter(t, "msg_find")
    /\ UNCHANGED <<announced, ticket, reply>>

MessageStart(t) ==
    /\ at[t] = "msg_find"
    /\ EnsureStarted(t)
    /\ Enter(t, "msg_start")
    /\ UNCHANGED <<announced, verdict, ticket, reply>>

MessageUnauthorized(t) ==
    /\ at[t] = "msg_start"
    /\ pc[t] = "Ok"
    /\ verdict[t] = "Unauthorized"
    /\ Respond(t, ToErrResponse(verdict[t]))
    /\ UNCHANGED <<announced, verdict, ticket>>

\* A denied message is answered with an error through the bypass ...
MessageBypass(t) ==
    /\ at[t] = "msg_start"
    /\ verdict[t] = "Deny"
    /\ GuardStream(t, "bypass_downstream")
    /\ Enter(t, "msg_bypass")
    /\ UNCHANGED <<announced, verdict, ticket, reply>>

MessageDenied(t) ==
    /\ at[t] = "msg_bypass"
    /\ BypassSend(t)
    /\ Enter(t, "msg_denied")
    /\ UNCHANGED <<announced, verdict, ticket, reply>>

\* ... the match arm ends, its guard is dropped and the handler goes on.
MessageFallsThrough(t) ==
    /\ at[t] = "msg_denied"
    /\ DropStream(t, "bypass_downstream")
    /\ Enter(t, "msg_forward")
    /\ UNCHANGED <<announced, verdict, ticket, reply>>

MessageUpstream(t) ==
    /\ \/ at[t] = "msg_start" /\ verdict[t] = "Allow"
       \/ at[t] = "msg_forward"
    /\ GuardStream(t, "upstream")
    /\ Enter(t, "msg_upstream")
    /\ UNCHANGED <<announced, verdict, ticket, reply>>

MessageSend(t) ==
    /\ at[t] = "msg_upstream"
    /\ Send(t)
    /\ ticket' = [ticket EXCEPT ![t] = IF sess[t] \in receiver
                                      THEN nsent[sess[t]] + 1 ELSE 0]
    /\ Enter(t, "msg_sent")
    /\ UNCHANGED <<announced, verdict, reply>>

MessageAccepted(t) ==
    /\ at[t] = "msg_sent"
    /\ pc[t] = "Ok"
    /\ Respond(t, 202)
    /\ UNCHANGED <<announced, verdict, ticket>>

-----------------------------------------------------------------------------
Handler(t) ==
    \/ RequestFails(t)
    \/ SseStart(t) \/ SseGuard(t) \/ SseDownstream(t) \/ SseRespond(t)
    \/ SseRecv(t) \/ SseStreamEnds(t)
    \/ MessageStart(t) \/ MessageUnauthorized(t)
    \/ MessageBypass(t) \/ MessageDenied(t) \/ MessageFallsThrough(t)
    \/ MessageUpstream(t) \/ MessageSend(t) \/ MessageAccepted(t)

Client(t) ==
    \/ RequestRejected(t) \/ SseRefused(t) \/ SseUnresolved(t)
    \/ SseSession(t) \/ MessageFind(t)
    \/ ClientDisconnects(t)

\* Steps below the handlers.
Runtime ==
    \/ \E t \in Tasks : Continues(t) \/ Connects(t) \/ Relay(t) \/ Peer(t)
    \/ Spawned
    \/ Shutdown

HNext ==
    \/ \E t \in Tasks : Handler(t) \/ Client(t)
    \/ Runtime /\ UNCHANGED hvars

HSpec == HInit /\ [][HNext]_allvars

(***************************************************************************)
(* The server polls a handler whose await is over, and timers fire.  No    *)
(* fairness for the connection to the upstream server (the HTTP client of  *)
(* start_with_client has no timeout), for its messages or for clients.     *)
(***************************************************************************)
HFairSpec ==
    /\ HSpec
    /\ \A s \in Sessions : WF_allvars(Cleanup(s) /\ UNCHANGED hvars)
    /\ \A k \in Kinds, s \in Sessions :
         WF_allvars(ReturnStream(k, s) /\ UNCHANGED hvars)
    /\ \A t \in Tasks :
         /\ WF_allvars(Handler(t))
         /\ WF_allvars(Continues(t) /\ UNCHANGED hvars)
         /\ WF_allvars(GuardCancels(t) /\ UNCHANGED hvars)

-----------------------------------------------------------------------------
(***************************************************************************)
(* Properties.                                                             *)
(***************************************************************************)

\* The response of an /sse request holds the session's Downstream from the moment
\* guard_downstream returns it.
StreamHoldsDownstream ==
    \A t \in Tasks :
        /\ at[t] = "stream" => pc[t] \in {"Ok", "Broadcast"}
        /\ at[t] = "sse_downstream"
             => pc[t] \in {"downstream", "Ok", "AlreadyClosed", "Timeout"}
        /\ at[t] = "stream" \/ (at[t] = "sse_downstream" /\ pc[t] = "Ok")
             => sess[t] \in Sessions /\ slot["downstream"][sess[t]] = t

\* A session has at most one open SSE response, whichever requests race for
\* its Downstream: no two clients share the server's messages.
OneStreamPerSession ==
    \A t, u \in Tasks :
        at[t] = "stream" /\ at[u] = "stream" /\ sess[t] = sess[u] => t = u

\* The session named by the endpoint event of an open SSE response can be found
\* by POST /message and is held open by that response, unless its token is
\* cancelled.
EndpointIsUsable ==
    \A t \in Tasks :
        at[t] = "stream" /\ sess[t] \notin cancelled =>
            /\ sess[t] \in sessions
            /\ guard[t] = "held"

\* An open SSE response belongs to a session whose connection to the upstream
\* server was made at least once: ensure_started reports Ok to no /sse request
\* of a session that never had one, although it trusts what is_started says of
\* a start another request may still have under way.
StreamHadBackend ==
    \A t \in Tasks :
        at[t] = "stream" => \E u \in Tasks : sess[u] = sess[t] /\ relay[u] # "none"

\* The places where a sequence of message numbers skips some.
Gaps(q) == {i \in DOMAIN q : q[i] # (IF i = 1 THEN 1 ELSE q[i - 1] + 1)}

\* The server's messages reach the clients of a session one after the other,
\* whichever SSE responses they come in.  Some are missed only where the channel
\* overflowed, and then a response ends or is about to be told: messages that
\* come before the first response opens, or while the Downstream is handed over,
\* wait for the next one.
NoSilentGap ==
    \A s \in Sessions :
        LET all == seen[s] \o svr[s].q \o <<nemit[s] + 1>>
            ended == {t \in Tasks :
                        /\ sess[t] = s /\ reply[t] = 200
                        /\ at[t] # "stream" \/ pc[t] = "Broadcast"}
            untold == IF svr[s].lagged THEN 1 ELSE 0
        IN Cardinality(Gaps(all)) <= Cardinality(ended) + untold

\* A session's token is cancelled only because a GET /sse on the session came
\* to its end after guard_close, or because of shutdown; a POST /message, and
\* an /sse that fails earlier, never close a session.
OnlySseEndsCancel ==
    \A s \in cancelled :
        \/ shutdown
        \/ \E t \in Tasks : /\ sess[t] = s
                            /\ guard[t] = "notified"
                            /\ at[t] \in {"done", "gone"}

\* Every request is answered, or its client goes away, or it waits for the
\* connection to the upstream server: each other await ends by itself.
RequestAnswered ==
    \A t \in Tasks :
        at[t] # "none" /\ pc[t] # "connect"
            ~> reply[t] # 0 \/ at[t] = "gone" \/ pc[t] = "connect"

\* Once an SSE response has ended, on either side, its session leaves the map
\* for good.
StreamEndFreesSession ==
    \A t \in Tasks :
        reply[t] = 200 /\ at[t] \in {"done", "gone"} ~> [](sess[t] \notin sessions)

\* docs/fga.md:19: a request goes on to the next step or gets a 403 according to
\* the authorizer's answer.  So a denied message is not forwarded upstream.
DeniedNotForwarded ==
    \A t \in Tasks : verdict[t] = "Deny" => ticket[t] = 0
=============================================================================
