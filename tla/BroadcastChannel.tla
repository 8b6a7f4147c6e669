-------------------------- MODULE BroadcastChannel --------------------------
(***************************************************************************)
(* The tokio broadcast channel as this program uses it: created with a     *)
(* fixed capacity (16 at session.rs:310-311) and read by one receiver.     *)
(* External code, modelled from its use in session.rs and stream.rs.       *)
(*                                                                         *)
(* A channel is the sequence of values its receiver has not read, and      *)
(* whether a value was overwritten since the receiver's last read.  A send *)
(* never waits: into a full channel it overwrites the oldest value, and    *)
(* the next read then fails with Lagged and continues behind the gap.      *)
(***************************************************************************)
EXTENDS Integers, Sequences

CONSTANT Capacity

ASSUME CapacityAssumption == Capacity \in Nat \ {0}

Channel(Value) == [q : Seq(Value), lagged : BOOLEAN]

NewChannel == [q |-> <<>>, lagged |-> FALSE]

IsFull(ch) == Len(ch.q) = Capacity

SendTo(ch, m) ==
    IF IsFull(ch)
    THEN [q |-> Append(Tail(ch.q), m), lagged |-> TRUE]
    ELSE [q |-> Append(ch.q, m), lagged |-> ch.lagged]

\* The value a send overwrites, as a set.
Overwritten(ch) == IF IsFull(ch) THEN {Head(ch.q)} ELSE {}

\* Receiver::recv returns Err(Lagged) once per gap, then the oldest value kept.
CanReceive(ch) == ~ch.lagged /\ ch.q # <<>>

Received(ch) == [q |-> Tail(ch.q), lagged |-> FALSE]

LagReported(ch) == [q |-> ch.q, lagged |-> FALSE]
=============================================================================
