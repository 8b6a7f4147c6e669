---------------------------- MODULE MessagePipe -----------------------------
(***************************************************************************)
(* What a session promises of its client's messages: a family of lossy     *)
(* first-in first-out pipes.  Messages are numbered as the pipe accepts    *)
(* them.  A pipe that is full forgets its oldest message, one message at a *)
(* time is taken in hand and reaches the far end or is lost, and nothing   *)
(* overtakes, repeats or invents a message.                                *)
(***************************************************************************)
EXTENDS Integers, Sequences

CONSTANT Pipes

VARIABLES
    accepted,  \* messages accepted so far
    queue,     \* messages waiting
    hand,      \* the message on its way out (0: none)
    out        \* messages the far end got

pipe == <<accepted, queue, hand, out>>

Init ==
    /\ accepted = [p \in Pipes |-> 0]
    /\ queue = [p \in Pipes |-> <<>>]
    /\ hand = [p \in Pipes |-> 0]
    /\ out = [p \in Pipes |-> <<>>]

Accept(p) ==
    /\ accepted' = [accepted EXCEPT ![p] = @ + 1]
    /\ \/ queue' = [queue EXCEPT ![p] = Append(@, accepted[p] + 1)]
       \/ /\ queue[p] # <<>>
          /\ queue' = [queue EXCEPT ![p] = Append(Tail(@), accepted[p] + 1)]
    /\ UNCHANGED <<hand, out>>

TakeInHand(p) ==
    /\ hand[p] = 0 /\ queue[p] # <<>>
    /\ hand' = [hand EXCEPT ![p] = Head(queue[p])]
    /\ queue' = [queue EXCEPT ![p] = Tail(@)]
    /\ UNCHANGED <<accepted, out>>

Deliver(p) ==
    /\ hand[p] # 0
    /\ out' = [out EXCEPT ![p] = Append(@, hand[p])]
    /\ hand' = [hand EXCEPT ![p] = 0]
    /\ UNCHANGED <<accepted, queue>>

Lose(p) ==
    /\ hand[p] # 0
    /\ hand' = [hand EXCEPT ![p] = 0]
    /\ UNCHANGED <<accepted, queue, out>>

Next ==
    \E p \in Pipes : Accept(p) \/ TakeInHand(p) \/ Deliver(p) \/ Lose(p)

Spec == Init /\ [][Next]_pipe

-----------------------------------------------------------------------------
Ascending(q) == \A i, j \in DOMAIN q : i < j => q[i] < q[j]

\* The far end gets messages in the order they were accepted, none twice.
InOrder == \A p \in Pipes : Ascending(out[p])
=============================================================================
