------------------------------ MODULE MCProxy -------------------------------
(* TLC instances of ProxyHandlers.                                         *)
EXTENDS ProxyHandlers, TLC

Symmetry == Permutations(Tasks)
=============================================================================
