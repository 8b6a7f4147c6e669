---------------------------- MODULE MCStandalone ----------------------------
(* TLC instances of StandaloneSession.                                     *)
EXTENDS SessionPipes, TLC

Symmetry == Permutations(Tasks)

\* Bound: a behaviour is about client messages, or about the streams of the
\* other direction and shutdown, not about both.
Sending == \/ \E s \in Sessions : nsent[s] > 0 \/ slot["upstream"][s] # InSlot
           \/ stop_ct # {} \/ \E t \in Tasks : pc[t] \in {"upstream", "stop"}

Receiving == \/ shutdown
             \/ \E s \in Sessions :
                   \/ nemit[s] > 0
                   \/ \E k \in Kinds \ {"upstream"} : slot[k][s] # InSlot
             \/ \E t \in Tasks : pc[t] \in Kinds \ {"upstream"}

OneDirection == ~(Sending /\ Receiving)
=============================================================================
