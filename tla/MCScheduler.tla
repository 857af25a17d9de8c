---------------------------- MODULE MCScheduler -----------------------------
(* Requests of two projects that compete for one resource.                 *)
EXTENDS Scheduler, TLC

CONSTANTS r1, r2, r3, r4, pA, pB, projX, projY, srcA, srcB, d1, d2

One == [s \in Sources |-> 1]
Scope == "global"
NoScopes == [r \in Requests |-> <<>>]

(* Four requests: r1 and r2 share a lane, r3 has the same profile in the   *)
(* other project, r4 another profile.  r3 holds itself to one lease of the *)
(* scope that the others may take two of; r2 may also run elsewhere.       *)
FourProjects == (r1 :> projX) @@ (r2 :> projX) @@ (r3 :> projY) @@ (r4 :> projY)
FourProfiles == (r1 :> pA) @@ (r2 :> pA) @@ (r3 :> pA) @@ (r4 :> pB)
FourLimits == [r \in Requests |-> Scope :> IF r = r3 THEN 1 ELSE 2]
OneSource == [r \in Requests |-> IF r = r2 THEN <<srcA, Unbounded>> ELSE <<srcA>>]

(* Three requests, one of them for another source of the resource.         *)
ThreeProjects == (r1 :> projX) @@ (r2 :> projY) @@ (r3 :> projX)
ThreeProfiles == (r1 :> pA) @@ (r2 :> pA) @@ (r3 :> pB)
ThreeLimits == [r \in Requests |-> Scope :> IF r = r3 THEN 1 ELSE 2]
TwoSources == (r1 :> <<srcA>>) @@ (r2 :> <<srcB>>) @@ (r3 :> <<srcA>>)
=============================================================================
