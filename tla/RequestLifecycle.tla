-------------------------- MODULE RequestLifecycle --------------------------
(***************************************************************************)
(* What the gateway promises the client of a request, whatever happens to  *)
(* the processes that serve it: the request is submitted once, is owned by *)
(* ever newer service generations, begins at most once and only while it   *)
(* is owned, and reaches one outcome.  An outcome other than rejected may  *)
(* later turn into completed, when an operator captures the provider's     *)
(* answer or, for interrupted, when the answer arrives after all.          *)
(***************************************************************************)
EXTENDS Naturals

CONSTANTS Requests, Generations    \* Generations: positive numbers, newer is larger

VARIABLES status, owner            \* owner 0: nobody

lifecycleVars == <<status, owner>>

Outcomes == {"completed", "failed", "cancelled", "rejected", "interrupted"}
Open(r) == status[r] \in {"queued", "running"}

LifecycleInit ==
    /\ status = [r \in Requests |-> "absent"]
    /\ owner = [r \in Requests |-> 0]

Submit(r) ==
    /\ status[r] = "absent"
    /\ status' = [status EXCEPT ![r] = "queued"]
    /\ UNCHANGED owner

Acquire(r, g) ==
    /\ Open(r)
    /\ g > owner[r]
    /\ owner' = [owner EXCEPT ![r] = g]
    /\ UNCHANGED status

Begin(r) ==
    /\ status[r] = "queued" /\ owner[r] # 0
    /\ status' = [status EXCEPT ![r] = "running"]
    /\ UNCHANGED owner

Resolve(r, outcome) ==
    /\ Open(r)
    /\ outcome = "completed" => status[r] = "running"
    /\ outcome = "rejected" => status[r] = "queued"
    /\ status' = [status EXCEPT ![r] = outcome]
    /\ UNCHANGED owner

LateAnswer(r) ==
    /\ status[r] = "interrupted"
    /\ status' = [status EXCEPT ![r] = "completed"]
    /\ UNCHANGED owner

Capture(r) ==
    /\ status[r] \notin {"absent", "rejected", "completed"}
    /\ status' = [status EXCEPT ![r] = "completed"]
    /\ owner' = [owner EXCEPT ![r] = 0]

LifecycleNext ==
    \E r \in Requests :
        \/ Submit(r) \/ Begin(r) \/ LateAnswer(r) \/ Capture(r)
        \/ \E g \in Generations : Acquire(r, g)
        \/ \E outcome \in Outcomes : Resolve(r, outcome)

LifecycleSpec == LifecycleInit /\ [][LifecycleNext]_lifecycleVars
=============================================================================
