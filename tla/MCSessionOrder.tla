--------------------------- MODULE MCSessionOrder ---------------------------
(* Two requests of one session.                                            *)
EXTENDS SessionOrder, TLC

CONSTANTS r1, r2, sesA

SameSession == (r1 :> sesA) @@ (r2 :> sesA)
=============================================================================
