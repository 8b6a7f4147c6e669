------------------------- MODULE MessagePipe_proofs -------------------------
(***************************************************************************)
(* A pipe keeps the order of its messages: what is out, what is in hand    *)
(* and what waits are, in this order, ascending numbers up to `accepted`.  *)
(***************************************************************************)
EXTENDS MessagePipe, TLAPS

PipeType ==
    /\ accepted \in [Pipes -> Nat]
    /\ queue \in [Pipes -> Seq(Nat)]
    /\ hand \in [Pipes -> Nat]
    /\ out \in [Pipes -> Seq(Nat)]

\* All of a are before all of b.
Before(a, b) == \A i \in DOMAIN a, j \in DOMAIN b : a[i] < b[j]

AtMost(q, n) == \A i \in DOMAIN q : q[i] <= n

\* n messages accepted, q waiting, h in hand, o out.
Ordered(n, q, h, o) ==
    /\ Ascending(o) /\ Ascending(q)
    /\ Before(o, q)
    /\ h # 0 => (\A i \in DOMAIN o : o[i] < h) /\ (\A i \in DOMAIN q : h < q[i])
    /\ AtMost(o, n) /\ AtMost(q, n) /\ h <= n

PipeInv ==
    /\ PipeType
    /\ \A p \in Pipes : Ordered(accepted[p], queue[p], hand[p], out[p])

\* An ascending sequence stays ascending when a larger number is appended.
LEMMA AppendAscends ==
    ASSUME NEW q \in Seq(Nat), NEW n \in Nat, Ascending(q),
           \A i \in DOMAIN q : q[i] < n
    PROVE  Ascending(Append(q, n))
  BY DEF Ascending

\* What appending a number makes of a sequence's elements.
LEMMA AppendElements ==
    ASSUME NEW q \in Seq(Nat), NEW n \in Nat
    PROVE  /\ Append(q, n) \in Seq(Nat)
           /\ \A i \in DOMAIN Append(q, n) :
                 \/ Append(q, n)[i] = n
                 \/ i \in DOMAIN q /\ Append(q, n)[i] = q[i]
  OBVIOUS

\* The tail of an ascending sequence is ascending, behind its head, and has no
\* other elements.
LEMMA TailAscends ==
    ASSUME NEW q \in Seq(Nat), q # <<>>, Ascending(q)
    PROVE  /\ Head(q) \in Nat /\ Tail(q) \in Seq(Nat)
           /\ Ascending(Tail(q))
           /\ \A i \in DOMAIN Tail(q) :
                 Head(q) < Tail(q)[i] /\ \E j \in DOMAIN q : Tail(q)[i] = q[j]
           /\ \E j \in DOMAIN q : Head(q) = q[j]
  <1>1. /\ Head(q) = q[1] /\ 1 \in DOMAIN q /\ Head(q) \in Nat
        /\ Tail(q) \in Seq(Nat) /\ Len(Tail(q)) = Len(q) - 1
        /\ DOMAIN q = 1..Len(q) /\ Len(q) \in Nat
    OBVIOUS
  <1>2. /\ DOMAIN Tail(q) = 1..(Len(q) - 1)
        /\ \A i \in 1..(Len(q) - 1) : Tail(q)[i] = q[i + 1] /\ i + 1 \in DOMAIN q
    BY <1>1
  <1>3. Ascending(Tail(q))
    BY <1>1, <1>2 DEF Ascending
  <1>4. \A i \in DOMAIN Tail(q) : Head(q) < Tail(q)[i]
    BY <1>1, <1>2 DEF Ascending
  <1>. QED
    BY <1>1, <1>2, <1>3, <1>4

\* A pipe's order survives the append of the next message to what waits ...
LEMMA OrderedAppend ==
    ASSUME NEW n \in Nat, NEW q \in Seq(Nat), NEW h \in Nat, NEW o \in Seq(Nat),
           Ordered(n, q, h, o)
    PROVE  /\ Append(q, n + 1) \in Seq(Nat)
           /\ Ordered(n + 1, Append(q, n + 1), h, o)
  <1>. DEFINE r == Append(q, n + 1)
  <1>1. /\ r \in Seq(Nat)
        /\ \A i \in DOMAIN r : r[i] = n + 1 \/ (i \in DOMAIN q /\ r[i] = q[i])
    BY AppendElements
  <1>2. /\ \A i \in DOMAIN q : q[i] \in Nat /\ q[i] < n + 1
        /\ \A i \in DOMAIN o : o[i] \in Nat /\ o[i] < n + 1
    BY DEF Ordered, AtMost
  <1>3. Ascending(r)
    BY <1>2, AppendAscends DEF Ordered
  <1>. HIDE DEF r
  <1>4. /\ Before(o, r) /\ AtMost(r, n + 1) /\ AtMost(o, n + 1)
    <2>1. Before(o, r)
      <3>. SUFFICES ASSUME NEW i \in DOMAIN o, NEW j \in DOMAIN r
                    PROVE  o[i] < r[j]
        BY DEF Before
      <3>1. j \in DOMAIN q => o[i] < q[j]
        BY DEF Ordered, Before
      <3>. QED
        BY <1>1, <1>2, <3>1
    <2>2. AtMost(r, n + 1)
      <3>1. \A i \in DOMAIN r : r[i] <= n + 1
        BY <1>1, <1>2
      <3>. QED
        BY <3>1 DEF AtMost
    <2>3. AtMost(o, n + 1)
      BY <1>2 DEF AtMost
    <2>. QED
      BY <2>1, <2>2, <2>3
  <1>5. h # 0 => \A i \in DOMAIN r : h < r[i]
    <2>1. h # 0 => \A i \in DOMAIN q : h < q[i]
      BY DEF Ordered
    <2>2. h < n + 1
      BY DEF Ordered
    <2>. SUFFICES ASSUME h # 0, NEW i \in DOMAIN r
                  PROVE  h < r[i]
      OBVIOUS
    <2>3. r[i] = n + 1 \/ (i \in DOMAIN q /\ r[i] = q[i])
      BY <1>1
    <2>. QED
      BY <2>1, <2>2, <2>3
  <1>6. Ordered(n + 1, r, h, o)
    BY <1>3, <1>4, <1>5 DEF Ordered
  <1>. QED
    BY <1>1, <1>6 DEF r

\* ... the loss of the oldest waiting message, which is ahead of the others ...
LEMMA OrderedTail ==
    ASSUME NEW n \in Nat, NEW q \in Seq(Nat), NEW h \in Nat, NEW o \in Seq(Nat),
           Ordered(n, q, h, o), q # <<>>
    PROVE  /\ Tail(q) \in Seq(Nat) /\ Head(q) \in Nat
           /\ Ordered(n, Tail(q), h, o)
           /\ Head(q) <= n
           /\ \A i \in DOMAIN Tail(q) : Head(q) < Tail(q)[i]
           /\ \A i \in DOMAIN o : o[i] < Head(q)
  <1>1. Ascending(q)
    BY DEF Ordered
  <1>. DEFINE r == Tail(q)
              a == Head(q)
  <1>2. /\ a \in Nat /\ r \in Seq(Nat) /\ Ascending(r)
        /\ \A i \in DOMAIN r : a < r[i] /\ \E j \in DOMAIN q : r[i] = q[j]
        /\ \E j \in DOMAIN q : a = q[j]
    BY <1>1, TailAscends
  <1>. HIDE DEF r, a
  <1>3. Before(o, r) /\ AtMost(r, n)
    BY <1>2 DEF Ordered, Before, AtMost
  <1>4. a <= n /\ \A i \in DOMAIN o : o[i] < a
    BY <1>2 DEF Ordered, Before, AtMost
  <1>5. h # 0 => \A i \in DOMAIN r : h < r[i]
    BY <1>2 DEF Ordered
  <1>6. Ordered(n, r, h, o)
    BY <1>2, <1>3, <1>5 DEF Ordered
  <1>. QED
    BY <1>2, <1>4, <1>6 DEF r, a

\* ... and the delivery of a message that is behind what is out and ahead of what
\* waits.
LEMMA OrderedOut ==
    ASSUME NEW n \in Nat, NEW q \in Seq(Nat), NEW h \in Nat, NEW o \in Seq(Nat),
           Ordered(n, q, h, o), NEW m \in Nat, m <= n,
           \A i \in DOMAIN o : o[i] < m, \A i \in DOMAIN q : m < q[i]
    PROVE  Append(o, m) \in Seq(Nat) /\ Ordered(n, q, 0, Append(o, m))
  <1>. DEFINE r == Append(o, m)
  <1>1. /\ r \in Seq(Nat)
        /\ \A i \in DOMAIN r : r[i] = m \/ (i \in DOMAIN o /\ r[i] = o[i])
    BY AppendElements
  <1>2. Ascending(r)
    BY AppendAscends DEF Ordered
  <1>. HIDE DEF r
  <1>3. Before(r, q) /\ AtMost(r, n)
    BY <1>1 DEF Ordered, Before, AtMost
  <1>4. Ordered(n, q, 0, r)
    BY <1>2, <1>3 DEF Ordered
  <1>. QED
    BY <1>1, <1>4 DEF r

\* A pipe starts empty.
LEMMA InitPipe == Init => PipeInv
  <1>. SUFFICES ASSUME Init PROVE PipeInv
    OBVIOUS
  <1>1. PipeType
    BY DEF Init, PipeType
  <1>2. ASSUME NEW p \in Pipes
        PROVE  Ordered(accepted[p], queue[p], hand[p], out[p])
    <2>1. accepted[p] = 0 /\ queue[p] = <<>> /\ hand[p] = 0 /\ out[p] = <<>>
      BY DEF Init
    <2>2. Ordered(0, <<>>, 0, <<>>)
      BY DEF Ordered, Ascending, Before, AtMost
    <2>. QED
      BY <2>1, <2>2
  <1>. QED
    BY <1>1, <1>2 DEF PipeInv

\* Each step keeps the order of the pipe it concerns and leaves the others alone.
LEMMA NextPipe == PipeInv /\ [Next]_pipe => PipeInv'
  <1>. SUFFICES ASSUME PipeInv, [Next]_pipe PROVE PipeInv'
    OBVIOUS
  <1>0. /\ PipeType
        /\ \A r \in Pipes : Ordered(accepted[r], queue[r], hand[r], out[r])
        /\ \A r \in Pipes : /\ accepted[r] \in Nat /\ queue[r] \in Seq(Nat)
                            /\ hand[r] \in Nat /\ out[r] \in Seq(Nat)
    BY DEF PipeInv, PipeType
  <1>1. ASSUME NEW p \in Pipes, Accept(p) PROVE PipeInv'
    <2>. DEFINE q == queue[p]
                n == accepted[p]
    <2>1. /\ Append(q, n + 1) \in Seq(Nat)
          /\ Ordered(n + 1, Append(q, n + 1), hand[p], out[p])
      BY <1>0, OrderedAppend
    <2>2. ASSUME q # <<>>
          PROVE  /\ Append(Tail(q), n + 1) \in Seq(Nat)
                 /\ Ordered(n + 1, Append(Tail(q), n + 1), hand[p], out[p])
      <3>1. Tail(q) \in Seq(Nat) /\ Ordered(n, Tail(q), hand[p], out[p])
        BY <1>0, <2>2, OrderedTail
      <3>. QED
        BY <1>0, <3>1, OrderedAppend
    <2>3. PICK w \in Seq(Nat) : /\ queue' = [queue EXCEPT ![p] = w]
                                /\ Ordered(n + 1, w, hand[p], out[p])
      BY <1>1, <2>1, <2>2 DEF Accept
    <2>4. /\ PipeType'
          /\ accepted'[p] = n + 1 /\ hand' = hand /\ out' = out /\ queue'[p] = w
          /\ \A r \in Pipes \ {p} : accepted'[r] = accepted[r] /\ queue'[r] = queue[r]
      BY <1>0, <1>1, <2>3 DEF Accept, PipeType
    <2>. QED
      BY <1>0, <2>3, <2>4 DEF PipeInv
  <1>2. ASSUME NEW p \in Pipes, TakeInHand(p) PROVE PipeInv'
    <2>. DEFINE q == queue[p]
    <2>1. /\ Tail(q) \in Seq(Nat) /\ Head(q) \in Nat
          /\ Ordered(accepted[p], Tail(q), hand[p], out[p])
          /\ Head(q) <= accepted[p]
          /\ \A i \in DOMAIN Tail(q) : Head(q) < Tail(q)[i]
          /\ \A i \in DOMAIN out[p] : out[p][i] < Head(q)
      BY <1>0, <1>2, OrderedTail DEF TakeInHand
    <2>2. Ordered(accepted[p], Tail(q), Head(q), out[p])
      BY <2>1 DEF Ordered
    <2>3. /\ PipeType'
          /\ accepted' = accepted /\ out' = out
          /\ queue'[p] = Tail(q) /\ hand'[p] = Head(q)
          /\ \A r \in Pipes \ {p} : hand'[r] = hand[r] /\ queue'[r] = queue[r]
      BY <1>0, <1>2, <2>1 DEF TakeInHand, PipeType
    <2>. QED
      BY <1>0, <2>2, <2>3 DEF PipeInv
  <1>3. ASSUME NEW p \in Pipes, Deliver(p) PROVE PipeInv'
    <2>1. /\ hand[p] <= accepted[p]
          /\ \A i \in DOMAIN out[p] : out[p][i] < hand[p]
          /\ \A i \in DOMAIN queue[p] : hand[p] < queue[p][i]
      BY <1>0, <1>3 DEF Deliver, Ordered
    <2>2. /\ Append(out[p], hand[p]) \in Seq(Nat)
          /\ Ordered(accepted[p], queue[p], 0, Append(out[p], hand[p]))
      BY <1>0, <2>1, OrderedOut
    <2>3. /\ PipeType'
          /\ accepted' = accepted /\ queue' = queue
          /\ out'[p] = Append(out[p], hand[p]) /\ hand'[p] = 0
          /\ \A r \in Pipes \ {p} : hand'[r] = hand[r] /\ out'[r] = out[r]
      BY <1>0, <1>3, <2>2 DEF Deliver, PipeType
    <2>. QED
      BY <1>0, <2>2, <2>3 DEF PipeInv
  <1>4. ASSUME NEW p \in Pipes, Lose(p) PROVE PipeInv'
    <2>1. Ordered(accepted[p], queue[p], 0, out[p])
      BY <1>0 DEF Ordered
    <2>2. /\ PipeType'
          /\ accepted' = accepted /\ queue' = queue /\ out' = out
          /\ hand'[p] = 0 /\ \A r \in Pipes \ {p} : hand'[r] = hand[r]
      BY <1>0, <1>4 DEF Lose, PipeType
    <2>. QED
      BY <1>0, <2>1, <2>2 DEF PipeInv
  <1>5. CASE UNCHANGED pipe
    BY <1>5 DEF pipe, PipeInv, PipeType
  <1>. QED
    BY <1>1, <1>2, <1>3, <1>4, <1>5 DEF Next

\* Every pipe delivers in order and at most once.
THEOREM PipeOrder == Spec => []InOrder
  <1>1. Init => PipeInv
    BY InitPipe
  <1>2. PipeInv /\ [Next]_pipe => PipeInv'
    BY NextPipe
  <1>3. PipeInv => InOrder
    BY DEF PipeInv, Ordered, InOrder
  <1>. QED
    BY <1>1, <1>2, <1>3, PTL DEF Spec
=============================================================================
