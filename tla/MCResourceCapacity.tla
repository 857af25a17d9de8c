------------------------- MODULE MCResourceCapacity -------------------------
(* Two sources (concurrency 1 and 2) on one resource, three tokens.        *)
EXTENDS ResourceCapacity, TLC

CONSTANTS sA, sB

MCSources == {sA, sB}
MCConcurrency == (sA :> 1) @@ (sB :> 2)
=============================================================================
