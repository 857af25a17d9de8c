------------------------ MODULE MCGatewayRecovery -----------------------
EXTENDS GatewayRecovery

CONSTANTS w1, s1, s2    \* a worker request; session requests with and without a checkpoint

(* Bound: a behaviour submits one request, of either kind.                 *)
OneSubmitted == \A r, q \in Requests : rec[r] # NoRecord /\ rec[q] # NoRecord => r = q
=============================================================================
