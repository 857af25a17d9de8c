---------------------------- MODULE MCAdmission ----------------------------
(***************************************************************************)
(* A small instance of Admission: old was admitted before the sequence     *)
(* file existed, again repeats it, fresh is a session turn of another key  *)
(* and other an isolated worker request that reuses fresh's key.           *)
(***************************************************************************)
EXTENDS Admission, TLC

CONSTANTS old, again, fresh, other, k0, k1, i1, i2

MCKeyOf == (old :> k0) @@ (again :> k0) @@ (fresh :> k1) @@ (other :> k1)

MCIntentOf == (old :> i1) @@ (again :> i1) @@ (fresh :> i1) @@ (other :> i2)
=============================================================================
