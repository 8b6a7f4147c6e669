------------------------------ MODULE MCRaft --------------------------------
(* TLC instances of RaftCluster: two nodes, sessions used on both.         *)
EXTENDS RaftCluster, TLC

CONSTANTS n1, n2, i1, i2, a1, b1, b2, c1, t1, t2, t3

\* Objects: a1 on n1, the others on n2; c1 is of a second session.
MCHome == [s \in Sessions |-> IF s = a1 THEN n1 ELSE n2]
MCId   == [s \in Sessions |-> IF s = c1 THEN i2 ELSE i1]

\* One request on n1, the others on n2.
MCNodeOf == [t \in Tasks |-> IF t = t1 THEN n1 ELSE n2]

\* A session is created and closed on n1 and found twice on n2.
DoesFind == t1 :> {"create", "start", "close"} @@
            t2 :> {"find", "start", "stop"} @@
            t3 :> {"find"}

\* A session with a client on n1 and a second node, and another session.
DoesEvents == t1 :> {"create", "start", "upstream"} @@
              t2 :> {"find", "start", "stop"} @@
              t3 :> {"create", "start", "upstream"}

\* A session with a client on n1 that a request on n2 closes.
DoesClose == t1 :> {"create", "start", "upstream", "return"} @@
             t2 :> {"find", "start", "guard_close", "close", "drop"}

\* The client on n1 sends two messages where their order matters.
TwoSends == [t \in Tasks |-> IF t = t1 THEN 2 ELSE 1]
OneSend  == [t \in Tasks |-> 1]

Symmetry == Permutations({b1, b2})
=============================================================================
