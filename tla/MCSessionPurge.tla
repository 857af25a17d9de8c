--------------------------- MODULE MCSessionPurge ---------------------------
(* Small instances of SessionPurge. *)
EXTENDS SessionPurge, TLC

CONSTANTS s1, s2, r1, r2, r3

\* r1 has run and r2 is a new turn of s1; r3 has run in s2.
MCSessionOf == (r1 :> s1) @@ (r2 :> s1) @@ (r3 :> s2)

MCSessionOfOne == (r1 :> s1) @@ (r2 :> s1)
=============================================================================
