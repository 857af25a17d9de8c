---------------------------- MODULE NodeEffect ----------------------------
(***************************************************************************)
(* What dispatch to an execution node promises: a request's effect is      *)
(* started at most once, only after the gateway granted it, by one request *)
(* of the node at a time, and a result is published only of an effect that *)
(* finished.  A request the gateway proved effect-free is never granted.   *)
(***************************************************************************)
CONSTANT Requests

VARIABLE effect

Phases == {"none", "denied", "granted", "started", "finished", "published"}

EffectInit == effect = [r \in Requests |-> "none"]

Advance(r, from, to) == effect[r] = from /\ effect' = [effect EXCEPT ![r] = to]

Grant(r) ==
    /\ \A s \in Requests : effect[s] \notin {"granted", "started"}
    /\ Advance(r, "none", "granted")

Deny(r) == Advance(r, "none", "denied")
Start(r) == Advance(r, "granted", "started")
Finish(r) == Advance(r, "started", "finished")
Publish(r) == Advance(r, "finished", "published")

EffectNext ==
    \E r \in Requests : Grant(r) \/ Deny(r) \/ Start(r) \/ Finish(r) \/ Publish(r)

EffectSpec == EffectInit /\ [][EffectNext]_effect

=============================================================================
