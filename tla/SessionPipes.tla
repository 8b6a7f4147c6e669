---------------------------- MODULE SessionPipes ----------------------------
(***************************************************************************)
(* StandaloneSession implements MessagePipe from Upstream::send through    *)
(* the client channel and whichever relay runs to the upstream server.     *)
(***************************************************************************)
EXTENDS StandaloneSession

\* The message that the session's current relay is sending.
InHand ==
    [s \in Sessions |->
        IF connection[s] = Stopped THEN 0 ELSE inflight[connection[s]]]

Up == INSTANCE MessagePipe WITH
        Pipes    <- Sessions,
        accepted <- nsent,
        queue    <- [s \in Sessions |-> clt[s].q],
        hand     <- InHand,
        out      <- delivered

\* The client's messages go through one pipe per session although relays start,
\* stop and fail one after the other: the message in hand is always the current
\* relay's, and a relay that ends neither keeps nor repeats one.
UpIsPipe == Up!Spec
=============================================================================
