---------------------------- MODULE RequestRecord ---------------------------
(***************************************************************************)
(* The durable gateway request record and the mutations of its store       *)
(* (gateway/store/_transitions.py).  Every mutation runs under the         *)
(* per-request file lock and ends in one atomic record write, so each is a *)
(* function from the record to the record written; the conditions under    *)
(* which the store refuses instead are the Can... operators beside it.     *)
(*                                                                         *)
(* Kept: the fields a guard reads.  Left out: output, diagnostics, error,  *)
(* activity leases, timestamps, provenance.                                *)
(***************************************************************************)
EXTENDS Naturals

CONSTANT MaxEpoch        \* bound: service generations considered

ASSUME EpochAssumption == MaxEpoch \in Nat \ {0}

Epochs == 1 .. MaxEpoch
NoEpoch == 0             \* dispatch-owner-epoch is null

(* worker-id values.  A generation names a worker for a request only while *)
(* the record has none, and a recovery worker once, when it takes the      *)
(* request over, so <<role, epoch>> is as fresh as the code's uuid.        *)
NoWorker == <<"none", NoEpoch>>
Workers == {"worker", "recovery"} \X Epochs

-----------------------------------------------------------------------------
(* The gateway-request workflow (components/agents/workflows.yaml).        *)
Nonterminal == {"queued", "running"}
TerminalStates == {"completed", "failed", "cancelled", "rejected", "interrupted"}
States == {"absent"} \cup Nonterminal \cup TerminalStates

Successors(state) ==
    CASE state = "queued"      -> {"running", "failed", "cancelled", "rejected", "interrupted"}
      [] state = "running"     -> {"completed", "failed", "cancelled", "interrupted"}
      [] state = "interrupted" -> {"completed"}
      [] OTHER                 -> {}

TransitionAllowed(from, to) == to \in Successors(from)

Record ==
    [state    : States,
     owner    : Epochs \cup {NoEpoch},     \* dispatch-owner-epoch
     root     : BOOLEAN,                   \* dispatch-service-root is set
     worker   : Workers \cup {NoWorker},   \* worker-id
     attempt  : Nat,                       \* attempt-epoch
     cancel   : BOOLEAN,                   \* cancel-requested
     recovery : BOOLEAN,                   \* recovery-required
     revision : Nat]

NoRecord ==
    [state |-> "absent", owner |-> NoEpoch, root |-> FALSE, worker |-> NoWorker,
     attempt |-> 0, cancel |-> FALSE, recovery |-> FALSE, revision |-> 0]

(* admit_record persists a queued request nobody owns yet.                 *)
Admitted == [NoRecord EXCEPT !.state = "queued"]

Written(rc) == [rc EXCEPT !.revision = @ + 1]

(* The identity a caller read earlier and presents as its fence.           *)
Identity == [owner : Epochs \cup {NoEpoch}, worker : Workers \cup {NoWorker}, attempt : Nat]

IdentityOf(rc) == [owner |-> rc.owner, worker |-> rc.worker, attempt |-> rc.attempt]

(* Mutant: the fence compares only the attempt.                            *)
FenceAttemptOnly(rc, id) == rc.attempt = id.attempt

FenceHolds(rc, id) == IdentityOf(rc) = id

-----------------------------------------------------------------------------
(* claim_dispatch by generation e, with the revision the caller read.      *)
IsRecoveredDispatch(rc, e) == rc.state = "running" /\ rc.recovery /\ rc.owner = e

(* Mutant: a claim ignores who owns the record.                            *)
CanClaimAnyOwner(rc, e, rev) == rc.revision = rev /\ rc.state = "queued"

CanClaim(rc, e, rev) ==
    /\ rc.revision = rev
    /\ rc.state = "queued"
    /\ rc.owner \in {NoEpoch, e}

AlreadyClaimed(rc, e) == rc.owner = e /\ rc.root

Claimed(rc, e) == Written([rc EXCEPT !.owner = e, !.root = TRUE])

(* bind_and_start_owned_attempt and prepare_owned_session_attempt keep the *)
(* worker id a previous claim left and name a new worker otherwise.        *)
WorkerFor(rc, e) == IF rc.worker = NoWorker THEN <<"worker", e>> ELSE rc.worker

CanStart(rc, e, rev) ==
    /\ rc.revision = rev
    /\ rc.owner = e
    /\ TransitionAllowed(rc.state, "running")

Started(rc, e) ==
    Written([rc EXCEPT !.state = "running", !.worker = WorkerFor(rc, e), !.attempt = @ + 1])

CanPrepare(rc, e, rev) ==
    rc.revision = rev /\ rc.owner = e /\ rc.state = "queued" /\ ~rc.cancel

Prepared(rc, e) == Written([rc EXCEPT !.worker = WorkerFor(rc, e), !.attempt = @ + 1])

(* start_owned_session_attempt: idempotent once running.                   *)
CanStartTurn(rc, id) == FenceHolds(rc, id) /\ rc.state = "queued" /\ ~rc.cancel

TurnAlreadyStarted(rc, id) == FenceHolds(rc, id) /\ rc.state = "running"

TurnStarted(rc) == Written([rc EXCEPT !.state = "running"])

(* Mutant: the terminal write does not consult the workflow.               *)
CanFinishAnyState(rc, id, state) ==
    /\ id.owner # NoEpoch /\ id.worker # NoWorker /\ id.attempt >= 1
    /\ FenceHolds(rc, id)

(* transition_owned_terminal; _require_owned_identity demands a worker and *)
(* an attempt.                                                             *)
CanFinish(rc, id, state) ==
    /\ id.owner # NoEpoch /\ id.worker # NoWorker /\ id.attempt >= 1
    /\ FenceHolds(rc, id)
    /\ TransitionAllowed(rc.state, state)

Finished(rc, state) == Written([rc EXCEPT !.state = state, !.recovery = FALSE])

(* transition_record to "rejected": no owner, worker or revision fence.    *)
CanReject(rc) == TransitionAllowed(rc.state, "rejected")

Rejected(rc) == Finished(rc, "rejected")

(* cancel_queued_or_mark_requested.                                        *)
CancelChanges(rc) == rc.state = "queued" \/ (rc.state = "running" /\ ~rc.cancel)

(* Mutant: cancelling running work invents a state.                        *)
CancelInventsState(rc) ==
    IF rc.state \in Nonterminal THEN Written([rc EXCEPT !.cancel = TRUE, !.state = "cancelling"]) ELSE rc

CancelledOrMarked(rc) ==
    IF CancelChanges(rc)
      THEN Written([rc EXCEPT !.cancel = TRUE,
                              !.state = IF @ = "queued" THEN "cancelled" ELSE @])
      ELSE rc

(* takeover_nonterminal_owner, expecting owner `expected' (NoEpoch: any).  *)
TakeoverConflict(rc, expected) ==
    rc.state \in Nonterminal /\ expected # NoEpoch /\ rc.owner # expected

TakenOver(rc, e, worker) ==
    IF rc.state \in Nonterminal /\ rc.owner # e
      THEN Written([rc EXCEPT !.owner = e,
                              !.recovery = (rc.state = "running"),
                              !.worker = IF worker = NoWorker THEN @ ELSE worker])
      ELSE rc

(* defer_owned_recovery / defer_owned_queued_recovery.                     *)
CanDefer(rc, id) == FenceHolds(rc, id) /\ rc.state \in Nonterminal

Deferred(rc) == Written([rc EXCEPT !.recovery = (rc.state = "running")])

(* transition_recovered_terminal, as session expiry calls it: to           *)
(* "interrupted", on the revision it read.                                 *)
CanExpire(rc) == TransitionAllowed(rc.state, "interrupted")

Expired(rc) == Written([rc EXCEPT !.state = "interrupted", !.root = FALSE])

(* transition_operator_terminal: bypasses the workflow table and clears    *)
(* the dispatch fence.                                                     *)
CanCapture(rc) == rc.state \in {"queued", "running", "interrupted", "failed", "cancelled"}

Captured(rc) ==
    Written([rc EXCEPT !.state = "completed", !.owner = NoEpoch, !.worker = NoWorker,
                       !.recovery = FALSE])
=============================================================================
