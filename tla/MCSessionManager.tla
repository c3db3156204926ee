---------------------------- MODULE MCSessionManager ----------------------------
(* Small instances of SessionManager.                                       *)
EXTENDS SessionManager, TLC

Symmetry == Permutations(Conns)
===============================================================================
