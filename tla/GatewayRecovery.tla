--------------------------- MODULE GatewayRecovery --------------------------
(***************************************************************************)
(* Requests of the Agent Execution Gateway across service generations:     *)
(* admission, dispatch by a queue worker, cancellation, delayed recovery   *)
(* retries, the supervisors that may terminalize a request, and the        *)
(* takeover a new generation performs before it serves                     *)
(* (gateway/queue/queue.py, queue/recovery.py, service/host.py).           *)
(*                                                                         *)
(* Durable state (rec, marker, index) survives every crash.  Everything a  *)
(* generation keeps in memory is the program counter and the local values  *)
(* of the one thread it may have for a request.  A generation ends by      *)
(* crashing or by retiring; with Overlap, the threads of a retired         *)
(* generation that are already past the queue go on running, because       *)
(* retire() releases the service owner record before the process exits.    *)
(*                                                                         *)
(* Assumed: a durable write does not fail (the process may die between any *)
(* two), and the request lock makes each store mutation atomic.            *)
(***************************************************************************)
EXTENDS RequestRecord

CONSTANTS
    Requests,         \* request ids
    SessionRequests,  \* those with provider-transport-kind = "provider-session"
    Checkpointed,     \* those whose transport keeps a submission checkpoint (gpt-auto)
    Overlap,          \* retired generations may still have threads running
    MaxRevision       \* bound: record revision up to which recovery may be deferred again

ASSUME GatewayAssumption ==
    /\ SessionRequests \subseteq Requests
    /\ Checkpointed \subseteq SessionRequests
    /\ Overlap \in BOOLEAN
    /\ MaxRevision \in Nat

VARIABLES
    rec,        \* request id -> durable request record
    marker,     \* request id -> the hashed active-work file exists
    index,      \* request id -> durable work-index entry
    epoch,      \* the newest service generation, 0 before the first
    service,    \* its life: down, recovering, serving
    thr,        \* generation -> request id -> its thread
    scan,       \* request id -> progress of the current recovery pass
    prompt      \* request id -> how far its prompt has gone towards the provider

vars == <<rec, marker, index, epoch, service, thr, scan, prompt>>

(* stage: the submission checkpoint in the session record, durable.        *)
(* claimed is prepared under a recovery claim; committed means that the    *)
(* intent to send is recorded, or that a recovery claim was spent.         *)
(* phase: the request's recovery.phase, durable.  sent: how often the      *)
(* prompt was handed to the provider or the worker.                        *)
RecoveryPhases == {"none", "presubmit", "followup", "other"}
Stages == {"none", "prepared", "claimed", "dispatching", "committed"}
Prompt == [stage : Stages, phase : RecoveryPhases, sent : Nat]
NotSent == [stage |-> "none", phase |-> "none", sent |-> 0]

Phases == {"none", "admitted", "claimed", "running"}
IndexEntry == [phase : Phases, owner : Epochs \cup {NoEpoch}]
NoEntry == [phase |-> "none", owner |-> NoEpoch]

(* recorded/admitted: the submitting handler; pending: in the queue;       *)
(* resume: recovered, waiting for capacity; check .. sweep: _run_one, of   *)
(* which prompt .. click submit a session's prompt; timer: a delayed       *)
(* recovery retry.                                                         *)
PCs == {"idle", "recorded", "admitted", "pending", "resume", "check", "claim", "start",
        "turn", "opened", "starting", "prompt", "prepared", "sending", "click",
        "run", "error", "defer", "sweep", "timer"}

Thread ==
    [pc        : PCs,
     worker    : Workers \cup {NoWorker},  \* identity of the record it works on
     attempt   : Nat,
     revision  : Nat,                      \* revision it will compare and swap
     resumed   : BOOLEAN,                  \* claim returned _recovered-dispatch
     cancelled : BOOLEAN,                  \* member of pq.cancel_requested
     observe   : BOOLEAN,                  \* resume_existing: watch, never prompt
     retried   : BOOLEAN,                  \* _unsent_retry_used
     phase     : RecoveryPhases]           \* phase of the deferral it raised

Idle ==
    [pc |-> "idle", worker |-> NoWorker, attempt |-> 0, revision |-> 0,
     resumed |-> FALSE, cancelled |-> FALSE, observe |-> FALSE, retried |-> FALSE,
     phase |-> "none"]

(* pcs at which the request is in pq.running of its generation.            *)
Tracked == {"resume", "check", "claim", "start", "turn", "opened", "starting", "prompt",
            "prepared", "sending", "click", "run", "error", "defer", "sweep"}

Scan ==
    [pc       : {"todo", "found", "settle", "repair", "done"},
     state    : States,                    \* record state as read
     cancel   : BOOLEAN,                   \* cancel-requested as read
     expected : Epochs \cup {NoEpoch}]     \* owner the takeover expects

Unscanned == [pc |-> "todo", state |-> "absent", cancel |-> FALSE, expected |-> NoEpoch]

Session(r) == r \in SessionRequests
Live(e) == e = epoch /\ service # "down"     \* its _shutdown_event is not set
IdOf(e, t) == [owner |-> e, worker |-> t.worker, attempt |-> t.attempt]
Id(e, r) == IdOf(e, thr[e][r])

Init ==
    /\ rec = [r \in Requests |-> NoRecord]
    /\ marker = [r \in Requests |-> FALSE]
    /\ index = [r \in Requests |-> NoEntry]
    /\ epoch = NoEpoch
    /\ service = "down"
    /\ thr = [e \in Epochs |-> [r \in Requests |-> Idle]]
    /\ scan = [r \in Requests |-> Unscanned]
    /\ prompt = [r \in Requests |-> NotSent]

At(e, r, pc) == thr[e][r].pc = pc
Goto(e, r, pc) == thr' = [thr EXCEPT ![e][r].pc = pc]
Become(e, r, t) == thr' = [thr EXCEPT ![e][r] = t]
Exit(e, r) == Become(e, r, Idle)
Write(r, rc) == rec' = [rec EXCEPT ![r] = rc]
Send(r) == prompt' = [prompt EXCEPT ![r].sent = @ + 1]
Checkpoint(r, stage) == prompt' = [prompt EXCEPT ![r].stage = stage]

(* Terminal cleanup: work-index entry and active-work marker removed.      *)
ClearWork(r) ==
    /\ marker' = [marker EXCEPT ![r] = FALSE]
    /\ index' = [index EXCEPT ![r] = NoEntry]

durable == <<rec, marker, index>>
lifeVars == <<epoch, service, scan>>

-----------------------------------------------------------------------------
(* Admission and the queue.                                                *)

Admit(r) ==
    /\ service = "serving"
    /\ rec[r] = NoRecord
    /\ Write(r, Admitted)
    /\ Goto(epoch, r, "recorded")
    /\ UNCHANGED <<marker, index, lifeVars, prompt>>

(* Mutant: admission forgets the work-index entry.                         *)
AdmitUnindexed(e, r) ==
    /\ At(e, r, "recorded")
    /\ Goto(e, r, "admitted")
    /\ UNCHANGED <<durable, lifeVars, prompt>>

AdmitIndex(e, r) ==
    /\ At(e, r, "recorded")
    /\ index' = [index EXCEPT ![r] = [phase |-> "admitted", owner |-> NoEpoch]]
    /\ Goto(e, r, "admitted")
    /\ UNCHANGED <<rec, marker, lifeVars, prompt>>

Enqueue(e, r) ==
    /\ At(e, r, "admitted")
    /\ IF Live(e) THEN Goto(e, r, "pending") ELSE Exit(e, r)
    /\ UNCHANGED <<durable, lifeVars, prompt>>

(* A stale snapshot, invalid capacity or a full queue, at enqueue or again *)
(* at dispatch: transition_record without any fence.                       *)
RejectUnfenced(e, r) ==
    /\ IF CanReject(rec[r]) THEN Write(r, Rejected(rec[r])) ELSE UNCHANGED rec
    /\ Exit(e, r)
    /\ UNCHANGED <<marker, index, lifeVars, prompt>>

EnqueueReject(e, r) == At(e, r, "admitted") /\ RejectUnfenced(e, r)

Dequeue(e, r) ==
    /\ Live(e)
    /\ thr[e][r].pc \in {"pending", "resume"}
    /\ Goto(e, r, "check")
    /\ UNCHANGED <<durable, lifeVars, prompt>>

(* GatewayQueueManager.cancel, in the serving process.                     *)
CancelByClient(r) ==
    LET t == thr[epoch][r] IN
    /\ service = "serving"
    /\ rec[r].state # "absent"
    /\ Write(r, CancelledOrMarked(rec[r]))
    /\ Become(epoch, r, CASE t.pc = "pending"  -> Idle
                          [] t.pc \in Tracked  -> [t EXCEPT !.cancelled = TRUE]
                          [] OTHER             -> t)
    /\ UNCHANGED <<marker, index, lifeVars, prompt>>

(* The same call in a process that does not own the queue reaches only the *)
(* durable record.                                                         *)
CancelRemote(r) ==
    /\ CancelChanges(rec[r])
    /\ Write(r, CancelledOrMarked(rec[r]))
    /\ UNCHANGED <<marker, index, thr, lifeVars, prompt>>

-----------------------------------------------------------------------------
(* A terminal write by a thread that presents its identity; a thread that  *)
(* lost the fence raises and leaves.                                       *)
FinishAs(e, r, id, state) ==
    /\ IF CanFinish(rec[r], id, state)
         THEN Write(r, Finished(rec[r], state)) /\ Goto(e, r, "sweep")
         ELSE Exit(e, r) /\ UNCHANGED rec
    /\ UNCHANGED <<marker, index, lifeVars, prompt>>

Sweep(e, r) ==
    /\ At(e, r, "sweep")
    /\ ClearWork(r)
    /\ Exit(e, r)
    /\ UNCHANGED <<rec, lifeVars, prompt>>

Recovered(e, r) == IsRecoveredDispatch(rec[r], e)

(* _run_one up to the claim.                                               *)
CheckRecoveredCancel(e, r) ==
    /\ At(e, r, "check")
    /\ Recovered(e, r) /\ rec[r].cancel /\ ~Session(r)
    /\ FinishAs(e, r, IdentityOf(rec[r]), "cancelled")

CheckCancelled(e, r) ==
    /\ At(e, r, "check")
    /\ thr[e][r].cancelled /\ ~Recovered(e, r)
    /\ Write(r, CancelledOrMarked(rec[r]))
    /\ Exit(e, r)
    /\ UNCHANGED <<marker, index, lifeVars, prompt>>

CheckStale(e, r) ==
    /\ At(e, r, "check")
    /\ ~thr[e][r].cancelled /\ ~Recovered(e, r)
    /\ RejectUnfenced(e, r)

CheckPass(e, r) ==
    /\ At(e, r, "check")
    /\ Recovered(e, r) => Session(r) \/ ~rec[r].cancel
    /\ ~Recovered(e, r) => ~thr[e][r].cancelled
    /\ Become(e, r, [thr[e][r] EXCEPT !.pc = "claim", !.revision = rec[r].revision])
    /\ UNCHANGED <<durable, lifeVars, prompt>>

(* claim_dispatch.                                                         *)
ClaimRecovered(e, r) ==
    /\ At(e, r, "claim")
    /\ Recovered(e, r)
    /\ marker' = [marker EXCEPT ![r] = TRUE]
    /\ Become(e, r, [thr[e][r] EXCEPT !.pc = IF Session(r) THEN "turn" ELSE "start",
                                      !.worker = rec[r].worker, !.attempt = rec[r].attempt,
                                      !.revision = 0, !.resumed = TRUE])
    /\ UNCHANGED <<rec, index, lifeVars, prompt>>

ClaimRefused(e, r) ==
    /\ At(e, r, "claim")
    /\ ~Recovered(e, r) /\ ~CanClaim(rec[r], e, thr[e][r].revision)
    /\ Exit(e, r)
    /\ UNCHANGED <<durable, lifeVars, prompt>>

ClaimedEntry(e, r) == [phase |-> "claimed", owner |-> e]

ClaimAgain(e, r) ==
    /\ At(e, r, "claim")
    /\ CanClaim(rec[r], e, thr[e][r].revision) /\ AlreadyClaimed(rec[r], e)
    /\ marker' = [marker EXCEPT ![r] = TRUE]
    /\ Goto(e, r, "start")
    /\ UNCHANGED <<rec, index, lifeVars, prompt>>

CanClaimFresh(e, r) ==
    /\ At(e, r, "claim")
    /\ CanClaim(rec[r], e, thr[e][r].revision) /\ ~AlreadyClaimed(rec[r], e)

ClaimFresh(e, r) ==
    /\ CanClaimFresh(e, r)
    /\ Write(r, Claimed(rec[r], e))
    /\ marker' = [marker EXCEPT ![r] = TRUE]
    /\ index' = [index EXCEPT ![r] = ClaimedEntry(e, r)]
    /\ Become(e, r, [thr[e][r] EXCEPT !.pc = "start", !.revision = rec[r].revision + 1])
    /\ UNCHANGED <<lifeVars, prompt>>

-----------------------------------------------------------------------------
(* Starting the attempt.  A worker request enters running here and its     *)
(* runner is given the prompt; a recovered one is given the prompt again   *)
(* unless it has been cancelled.                                           *)
StartBound(e, r) ==
    /\ At(e, r, "start") /\ ~Session(r) /\ ~thr[e][r].resumed
    /\ IF CanStart(rec[r], e, thr[e][r].revision)
         THEN LET new == Started(rec[r], e) IN
              /\ Write(r, new)
              /\ Become(e, r, [thr[e][r] EXCEPT !.pc = "run", !.worker = new.worker,
                                                !.attempt = new.attempt, !.revision = 0])
              /\ Send(r)
         ELSE Exit(e, r) /\ UNCHANGED <<rec, prompt>>
    /\ UNCHANGED <<marker, index, lifeVars>>

StartRecovered(e, r) ==
    /\ At(e, r, "start") /\ thr[e][r].resumed
    /\ IF rec[r].state = "running" /\ rec[r].cancel
         THEN FinishAs(e, r, IdentityOf(rec[r]), "cancelled")
         ELSE /\ Goto(e, r, "run")
              /\ Send(r)
              /\ UNCHANGED <<durable, lifeVars>>

(* A session request is only prepared: it stays queued until its worker    *)
(* owns the session's turn lock.                                           *)
Prepare(e, r) ==
    /\ At(e, r, "start") /\ Session(r)
    /\ IF CanPrepare(rec[r], e, thr[e][r].revision)
         THEN LET new == Prepared(rec[r], e) IN
              /\ Write(r, new)
              /\ Become(e, r, [thr[e][r] EXCEPT !.pc = "turn", !.worker = new.worker,
                                                !.attempt = new.attempt, !.revision = 0])
         ELSE Exit(e, r) /\ UNCHANGED rec
    /\ UNCHANGED <<marker, index, lifeVars, prompt>>

(* stopped_before_session_runner.                                          *)
TurnStopped(e, r) ==
    /\ At(e, r, "turn") /\ ~thr[e][r].retried
    /\ ~Live(e) \/ rec[r].state \in TerminalStates
    /\ Exit(e, r)
    /\ UNCHANGED <<durable, lifeVars, prompt>>

(* The session runner opens the session, then checks for a cancellation.   *)
(* A follow-up in progress turns the runner into an observer.              *)
Observing(e, r) == thr[e][r].observe \/ prompt[r].phase = "followup"

Opened(e, r) ==
    /\ At(e, r, "turn")
    /\ rec[r].cancel => Observing(e, r)
    /\ Become(e, r, [thr[e][r] EXCEPT !.pc = "opened", !.observe = Observing(e, r)])

OpenSession(e, r) ==
    /\ Opened(e, r)
    /\ UNCHANGED <<durable, lifeVars, prompt>>

(* A submission checkpoint belongs to whoever owns the running request.    *)
SubmissionFence(e, r) == rec[r].state = "running" /\ FenceHolds(rec[r], Id(e, r))

(* Reopening the session of a turn whose checkpoint says prepared claims   *)
(* that checkpoint; a claim of the same owner that has not expired, or a   *)
(* lost fence, refuses it.                                                 *)
Reclaimable(e, r) ==
    /\ ~Observing(e, r)
    /\ prompt[r].stage \in {"prepared", "claimed"}

ClaimPrepared(e, r) ==
    /\ Opened(e, r) /\ Reclaimable(e, r)
    /\ SubmissionFence(e, r)
    /\ Checkpoint(r, "claimed")
    /\ UNCHANGED <<durable, lifeVars>>

OpenRefused(e, r) ==
    /\ At(e, r, "turn") /\ Reclaimable(e, r)
    /\ prompt[r].stage = "prepared" => ~SubmissionFence(e, r)
    /\ Goto(e, r, "error")
    /\ UNCHANGED <<durable, lifeVars, prompt>>

OpenCancelled(e, r) ==
    /\ At(e, r, "turn")
    /\ rec[r].cancel /\ ~Observing(e, r)
    /\ FinishAs(e, r, Id(e, r), "cancelled")

(* A local cancel wakes the thread out of the turn lock; an observer goes  *)
(* on to let the provider establish the outcome.                           *)
TurnCancelled(e, r) ==
    /\ thr[e][r].pc \in {"opened", "starting"}
    /\ thr[e][r].cancelled /\ ~thr[e][r].observe
    /\ Goto(e, r, "error")
    /\ UNCHANGED <<durable, lifeVars, prompt>>

(* dispatch_claim is passed only when the record reads as queued.          *)
TurnNeedsClaim(e, r) ==
    /\ At(e, r, "opened")
    /\ rec[r].state = "queued"
    /\ Goto(e, r, "starting")
    /\ UNCHANGED <<durable, lifeVars, prompt>>

(* prompt_in_session: an observer resumes the turn, any other runner goes  *)
(* on to prompt.                                                           *)
TurnPC(e, r) == IF thr[e][r].observe THEN "run" ELSE "prompt"

TurnWithoutClaim(e, r) ==
    /\ At(e, r, "opened")
    /\ rec[r].state # "queued"
    /\ thr[e][r].cancelled => thr[e][r].observe
    /\ Goto(e, r, TurnPC(e, r))
    /\ UNCHANGED <<durable, lifeVars, prompt>>

(* start_owned_session_attempt under the turn lock.  The work-index phase  *)
(* is updated after the record is written; an entry that is not in phase   *)
(* claimed makes the call raise although the record already says running.  *)
IndexFollows(r) ==
    rec[r].state = "running" \/ ~rec[r].root \/ index[r].phase \in {"none", "claimed"}

StartTurn(e, r) ==
    /\ At(e, r, "starting")
    /\ CanStartTurn(rec[r], Id(e, r)) \/ TurnAlreadyStarted(rec[r], Id(e, r))
    /\ Write(r, IF rec[r].state = "queued" THEN TurnStarted(rec[r]) ELSE rec[r])
    /\ IF IndexFollows(r)
         THEN /\ Goto(e, r, TurnPC(e, r))
              /\ index' = [index EXCEPT ![r].phase = IF rec[r].state = "queued" /\ rec[r].root /\ @ = "claimed"
                                          THEN "running" ELSE @]
         ELSE Goto(e, r, "error") /\ UNCHANGED index
    /\ UNCHANGED <<marker, lifeVars, prompt>>

StartTurnRefused(e, r) ==
    /\ At(e, r, "starting")
    /\ ~CanStartTurn(rec[r], Id(e, r)) /\ ~TurnAlreadyStarted(rec[r], Id(e, r))
    /\ Goto(e, r, "error")
    /\ UNCHANGED <<durable, lifeVars, prompt>>

-----------------------------------------------------------------------------
(* Submitting the prompt of a session turn.  A transport without a         *)
(* checkpoint sends at once.  The others write the checkpoint ahead of     *)
(* every step, under the request lock and only for the request's owner.    *)
SendUnfenced(e, r) ==
    /\ At(e, r, "prompt") /\ r \notin Checkpointed
    /\ Send(r)
    /\ Goto(e, r, "run")
    /\ UNCHANGED <<durable, lifeVars>>

(* Mutant: the owner may prepare its prompt whatever the checkpoint says.  *)
PrepareOwnerOnly(e, r) == SubmissionFence(e, r)

(* A fresh checkpoint is for a request that never needed recovery; one     *)
(* that did goes on only under its recovery claim.                         *)
CanPreparePrompt(e, r) ==
    SubmissionFence(e, r) /\ ~rec[r].recovery /\ prompt[r].stage = "none"

CanDispatchPrompt(e, r) ==
    SubmissionFence(e, r) /\ ~rec[r].recovery /\ prompt[r].stage = "prepared"

CanIntendSend(e, r) ==
    SubmissionFence(e, r) /\ prompt[r].stage \in {"dispatching", "committed"}

PreparePrompt(e, r) ==
    /\ At(e, r, "prompt") /\ r \in Checkpointed
    /\ CanPreparePrompt(e, r)
    /\ Checkpoint(r, "prepared")
    /\ Goto(e, r, "prepared")
    /\ UNCHANGED <<durable, lifeVars>>

DispatchPrompt(e, r) ==
    /\ At(e, r, "prepared")
    /\ CanDispatchPrompt(e, r)
    /\ Checkpoint(r, "dispatching")
    /\ Goto(e, r, "sending")
    /\ UNCHANGED <<durable, lifeVars>>

(* The claimed checkpoint advances and its claim is spent.                 *)
DispatchClaimed(e, r) ==
    /\ At(e, r, "prompt") /\ r \in Checkpointed
    /\ SubmissionFence(e, r) /\ prompt[r].stage = "claimed"
    /\ Checkpoint(r, "committed")
    /\ Goto(e, r, "sending")
    /\ UNCHANGED <<durable, lifeVars>>

IntendSend(e, r) ==
    /\ At(e, r, "sending")
    /\ CanIntendSend(e, r)
    /\ Checkpoint(r, "committed")
    /\ Goto(e, r, "click")
    /\ UNCHANGED <<durable, lifeVars>>

Click(e, r) ==
    /\ At(e, r, "click")
    /\ Send(r)
    /\ Goto(e, r, "run")
    /\ UNCHANGED <<durable, lifeVars>>

(* The checkpoint write is refused (CON-AGW-125): nothing is sent.  A      *)
(* transport that writes prepared again under its claim is refused too.    *)
PromptRefused(e, r) ==
    /\ \/ At(e, r, "prompt") /\ r \in Checkpointed /\ ~CanPreparePrompt(e, r)
       \/ At(e, r, "prepared") /\ ~CanDispatchPrompt(e, r)
       \/ At(e, r, "sending") /\ ~CanIntendSend(e, r)
    /\ Goto(e, r, "error")
    /\ UNCHANGED <<durable, lifeVars, prompt>>

(* The turn is cancelled before it touches the browser, or the browser     *)
(* gives up without proof either way: the checkpoint stays.                *)
SubmitAbandoned(e, r) ==
    /\ \/ At(e, r, "prepared") /\ thr[e][r].cancelled /\ Goto(e, r, "run")
       \/ At(e, r, "sending") /\ \E pc \in {"run", "error"} : Goto(e, r, pc)
    /\ UNCHANGED <<durable, lifeVars, prompt>>

(* A failure that proves the prompt unsent is retried once in place, then  *)
(* deferred with the prompt still to give.                                 *)
UnsentRetry(e, r) ==
    LET t == thr[e][r] IN
    Become(e, r, IF rec[r].cancel THEN [t EXCEPT !.pc = "error"]
                 ELSE IF ~t.retried THEN [t EXCEPT !.pc = "turn", !.retried = TRUE]
                 ELSE [t EXCEPT !.pc = "defer", !.phase = "presubmit"])

(* The provider is not ready, or an earlier turn still blocks the session. *)
PresubmitFails(e, r) ==
    /\ At(e, r, "prompt") /\ r \in Checkpointed
    /\ UnsentRetry(e, r)
    /\ UNCHANGED <<durable, lifeVars, prompt>>

(* The browser timed out before Send: the exact unsent attempt is retired. *)
UnsentCleared(e, r) ==
    /\ At(e, r, "sending")
    /\ SubmissionFence(e, r) /\ ~rec[r].recovery /\ prompt[r].stage = "dispatching"
    /\ Checkpoint(r, "none")
    /\ UnsentRetry(e, r)
    /\ UNCHANGED <<durable, lifeVars>>

-----------------------------------------------------------------------------
(* The runner ends.  An observer has an outcome to report only when the    *)
(* checkpoint tells it which turn to look for.                             *)
RunEnds(e, r) ==
    /\ At(e, r, "run")
    /\ thr[e][r].observe => prompt[r].stage # "none"
    /\ \E state \in {"completed", "failed"} \cup (IF rec[r].cancel THEN {"cancelled"} ELSE {}) :
         FinishAs(e, r, Id(e, r), state)

RunRaises(e, r) == At(e, r, "error") /\ FinishAs(e, r, Id(e, r), "failed")

(* RecoveryDeferred: a session runner could not open the session or lost   *)
(* sight of the provider turn.  Only a checkpointed transport defers a     *)
(* turn it is not observing.                                               *)
RunDefers(e, r) ==
    LET t == thr[e][r]
        known == t.observe \/ (r \in Checkpointed /\ ~rec[r].cancel) IN
    /\ Session(r)
    /\ \/ t.pc \in {"turn", "run"} /\ known
       \/ t.pc = "error" /\ t.observe
    /\ \E phase \in (IF t.pc = "turn" THEN {"other"} ELSE {"other", "followup"}) :
         Become(e, r, [t EXCEPT !.pc = "defer", !.phase = phase])
    /\ UNCHANGED <<durable, lifeVars, prompt>>

DeferExhausted(e, r) == At(e, r, "defer") /\ FinishAs(e, r, Id(e, r), "interrupted")

RecordPhase(e, r) == prompt' = [prompt EXCEPT ![r].phase = thr[e][r].phase]

(* Mutant: the deferral is recorded but no timer is armed.                 *)
DeferWithoutTimer(e, r) ==
    /\ At(e, r, "defer")
    /\ rec[r].revision < MaxRevision
    /\ CanDefer(rec[r], Id(e, r))
    /\ Write(r, Deferred(rec[r]))
    /\ Exit(e, r)
    /\ RecordPhase(e, r)
    /\ UNCHANGED <<marker, index, lifeVars>>

Defer(e, r) ==
    /\ At(e, r, "defer")
    /\ rec[r].revision < MaxRevision
    /\ CanDefer(rec[r], Id(e, r))
    /\ Write(r, Deferred(rec[r]))
    /\ IF Live(e)
         THEN Become(e, r, [thr[e][r] EXCEPT !.pc = "timer", !.cancelled = FALSE])
         ELSE Exit(e, r)
    /\ RecordPhase(e, r)
    /\ UNCHANGED <<marker, index, lifeVars>>

DeferLost(e, r) ==
    /\ At(e, r, "defer")
    /\ ~CanDefer(rec[r], Id(e, r))
    /\ Exit(e, r)
    /\ UNCHANGED <<durable, lifeVars, prompt>>

(* _schedule_recovery_retry's timer.                                       *)
TimerFires(e, r) ==
    /\ Live(e) /\ At(e, r, "timer")
    /\ IF FenceHolds(rec[r], Id(e, r)) /\ rec[r].state \in Nonterminal
         THEN Become(e, r, [Idle EXCEPT !.pc = "check", !.observe = thr[e][r].observe])
         ELSE Exit(e, r)
    /\ UNCHANGED <<durable, lifeVars, prompt>>

-----------------------------------------------------------------------------
(* Writers outside the queue.  Each compares and swaps the revision it     *)
(* read, so the record it decided on is the record it replaces.            *)

(* The dispatch watchdog and the abandon action.                           *)
Supervisor(r) ==
    /\ service = "serving"
    /\ rec[r].state = "running"
    /\ \E state \in (IF Session(r) THEN {"failed", "interrupted"} ELSE {})
                      \cup (IF rec[r].cancel THEN {"cancelled"} ELSE {}) :
         /\ CanFinish(rec[r], IdentityOf(rec[r]), state)
         /\ Write(r, Finished(rec[r], state))
    /\ ClearWork(r)
    /\ UNCHANGED <<thr, lifeVars, prompt>>

(* expire_session_if_policy_exceeded: only a request with provider         *)
(* metadata, so one that has had an attempt.                               *)
ExpireSession(r) ==
    /\ Session(r) /\ rec[r].attempt >= 1 /\ rec[r].state \in Nonterminal
    /\ CanExpire(rec[r])
    /\ Write(r, Expired(rec[r]))
    /\ UNCHANGED <<marker, index, thr, lifeVars, prompt>>

(* An operator captures the answer the provider already rendered.          *)
OperatorComplete(r) ==
    /\ Session(r) /\ rec[r].attempt >= 1
    /\ CanCapture(rec[r])
    /\ Write(r, Captured(rec[r]))
    /\ UNCHANGED <<marker, index, thr, lifeVars, prompt>>

-----------------------------------------------------------------------------
(* The service: start, recovery pass, serving, end.                        *)

StartService ==
    /\ service = "down" /\ epoch < MaxEpoch
    /\ epoch' = epoch + 1
    /\ service' = "recovering"
    /\ UNCHANGED <<durable, thr, scan, prompt>>

(* The process of generation e dies: its threads are gone, and so is the   *)
(* service if e was the current one.                                       *)
Die(e) ==
    /\ thr' = [thr EXCEPT ![e] = [r \in Requests |-> Idle]]
    /\ service' = IF e = epoch THEN "down" ELSE service
    /\ scan' = IF e = epoch THEN [r \in Requests |-> Unscanned] ELSE scan
    /\ UNCHANGED <<epoch, prompt>>

MayDie(e) == e < MaxEpoch       \* the last generation considered does not die

Crash(e) ==
    /\ MayDie(e) /\ e <= epoch
    /\ Live(e) \/ \E r \in Requests : ~At(e, r, "idle")
    /\ Die(e)
    /\ UNCHANGED durable

(* A crash inside claim_dispatch: the record is written, the marker        *)
(* perhaps, the work-index entry not.                                      *)
CrashInClaim(e, r) ==
    /\ MayDie(e) /\ CanClaimFresh(e, r)
    /\ Write(r, Claimed(rec[r], e))
    /\ marker' \in {marker, [marker EXCEPT ![r] = TRUE]}
    /\ UNCHANGED index
    /\ Die(e)

(* close(): the queue drops what it still holds; with Overlap the threads  *)
(* past the queue stay.                                                    *)
Retire ==
    /\ MayDie(epoch) /\ service = "serving"
    /\ service' = "down"
    /\ thr' = [thr EXCEPT ![epoch] =
                [r \in Requests |->
                   IF ~Overlap \/ @[r].pc \in {"pending", "resume", "timer"} THEN Idle ELSE @[r]]]
    /\ UNCHANGED <<durable, epoch, scan, prompt>>

Scanning(r) ==
    /\ service = "recovering"
    /\ \A q \in Requests \ {r} : scan[q].pc \in {"todo", "done"}

Found(r) == marker[r] \/ index[r].phase # "none"

ScanTo(r, pc) == scan' = [scan EXCEPT ![r].pc = pc]

(* Nothing to find, or work that is already terminal or never had an       *)
(* owner behind a marker: cleared.                                         *)
ScanClear(r) ==
    /\ Scanning(r) /\ scan[r].pc = "todo"
    /\ IF Found(r)
         THEN rec[r].state \notin Nonterminal \/ (marker[r] /\ rec[r].owner = NoEpoch)
         ELSE TRUE
    /\ ClearWork(r)
    /\ ScanTo(r, "done")
    /\ UNCHANGED <<rec, epoch, service, thr, prompt>>

ExpectedOwner(r) ==
    IF ~marker[r] /\ index[r].owner # NoEpoch THEN index[r].owner ELSE rec[r].owner

ScanRead(r) ==
    /\ Scanning(r) /\ scan[r].pc = "todo"
    /\ Found(r) /\ rec[r].state \in Nonterminal
    /\ marker[r] => rec[r].owner # NoEpoch
    /\ scan' = [scan EXCEPT ![r] = [pc |-> "found", state |-> rec[r].state,
                                    cancel |-> rec[r].cancel, expected |-> ExpectedOwner(r)]]
    /\ UNCHANGED <<durable, epoch, service, thr, prompt>>

(* Mutant: cancelled work is adopted.                                      *)
SettleRunningOnly(r) == scan[r].state = "running" /\ ~Session(r)

(* Cancelled work, and running work that cannot be reattached, is settled; *)
(* everything else is adopted.                                             *)
MustSettle(r) ==
    scan[r].cancel \/ (scan[r].state = "running" /\ ~Session(r))

TakeoverWorker(r) ==
    IF scan[r].cancel \/ scan[r].state = "running" THEN <<"recovery", epoch>> ELSE NoWorker

TakeOver(r) ==
    /\ Scanning(r) /\ scan[r].pc = "found"
    /\ ~TakeoverConflict(rec[r], scan[r].expected)
    /\ Write(r, TakenOver(rec[r], epoch, TakeoverWorker(r)))
    /\ scan' = [scan EXCEPT ![r].pc = IF MustSettle(r) THEN "settle" ELSE "repair",
                            ![r].state = rec[r].state]
    /\ UNCHANGED <<marker, index, epoch, service, thr, prompt>>

Settle(r) ==
    /\ Scanning(r) /\ scan[r].pc = "settle"
    /\ rec[r].state \in Nonterminal
    /\ Write(r, Finished(rec[r], IF scan[r].cancel THEN "cancelled" ELSE "interrupted"))
    /\ ClearWork(r)
    /\ scan' = [scan EXCEPT ![r].pc = "done", ![r].state = "absent"]
    /\ UNCHANGED <<epoch, service, thr, prompt>>

RepairIndex(r) ==
    index' = [index EXCEPT ![r].owner = IF index[r].phase = "none" THEN @ ELSE epoch]

Repair(r) ==
    /\ Scanning(r) /\ scan[r].pc = "repair"
    /\ RepairIndex(r)
    /\ marker' = [marker EXCEPT ![r] = TRUE]
    /\ ScanTo(r, "done")
    /\ UNCHANGED <<rec, epoch, service, thr, prompt>>

CrashInRepair(r) ==
    /\ MayDie(epoch)
    /\ Scanning(r) /\ scan[r].pc = "repair"
    /\ RepairIndex(r)
    /\ UNCHANGED <<rec, marker>>
    /\ Die(epoch)

(* An error in the pass propagates: the host closes without having served. *)
RecoveryFails(r) ==
    /\ Scanning(r)
    /\ \/ scan[r].pc = "found" /\ TakeoverConflict(rec[r], scan[r].expected)
       \/ scan[r].pc = "settle" /\ rec[r].state \notin Nonterminal
    /\ service' = "down"
    /\ scan' = [q \in Requests |-> Unscanned]
    /\ UNCHANGED <<durable, epoch, thr, prompt>>

(* Mutant: adopted queued work is not enqueued again.                      *)
RebuiltRunningOnly(r) ==
    IF scan[r].state = "running" THEN {[Idle EXCEPT !.pc = "resume"]} ELSE {Idle}

(* A running turn that is adopted is only observed, unless its checkpoint  *)
(* proves that the prompt was never sent.                                  *)
ProvenUnsent(r) ==
    \/ prompt[r].stage \in {"prepared", "claimed"}
    \/ prompt[r].stage = "none" /\ prompt[r].phase = "presubmit"

(* The scheduler is rebuilt from what the pass adopted, read again, and    *)
(* the host serves.  A deferred session request waits out its backoff.     *)
RebuiltThreads(r) ==
    CASE scan[r].state = "running" ->
           LET resume == [Idle EXCEPT !.pc = "resume", !.observe = Session(r) /\ ~ProvenUnsent(r)]
           IN  {resume} \cup
               (IF Session(r)
                  THEN {[resume EXCEPT !.pc = "timer", !.worker = rec[r].worker,
                                       !.attempt = rec[r].attempt]}
                  ELSE {})
      [] scan[r].state = "queued" /\ rec[r].state = "queued" /\ rec[r].owner = epoch ->
           {[Idle EXCEPT !.pc = "pending"]}
      [] OTHER -> {Idle}

Serve ==
    /\ service = "recovering"
    /\ \A r \in Requests : scan[r].pc = "done"
    /\ service' = "serving"
    /\ \E ts \in [Requests -> UNION {RebuiltThreads(r) : r \in Requests}] :
         /\ \A r \in Requests : ts[r] \in RebuiltThreads(r)
         /\ thr' = [thr EXCEPT ![epoch] = ts]
    /\ scan' = [r \in Requests |-> Unscanned]
    /\ UNCHANGED <<durable, epoch, prompt>>

-----------------------------------------------------------------------------
ThreadStep(e, r) ==
    \/ AdmitIndex(e, r) \/ Enqueue(e, r) \/ EnqueueReject(e, r) \/ Dequeue(e, r)
    \/ CheckRecoveredCancel(e, r) \/ CheckCancelled(e, r) \/ CheckStale(e, r) \/ CheckPass(e, r)
    \/ ClaimRecovered(e, r) \/ ClaimRefused(e, r) \/ ClaimAgain(e, r) \/ ClaimFresh(e, r)
    \/ StartBound(e, r) \/ StartRecovered(e, r) \/ Prepare(e, r)
    \/ TurnStopped(e, r) \/ OpenSession(e, r) \/ ClaimPrepared(e, r) \/ OpenRefused(e, r)
    \/ OpenCancelled(e, r) \/ TurnCancelled(e, r)
    \/ TurnNeedsClaim(e, r) \/ TurnWithoutClaim(e, r)
    \/ StartTurn(e, r) \/ StartTurnRefused(e, r)
    \/ SendUnfenced(e, r) \/ PreparePrompt(e, r) \/ DispatchPrompt(e, r)
    \/ DispatchClaimed(e, r) \/ IntendSend(e, r) \/ Click(e, r)
    \/ PromptRefused(e, r) \/ SubmitAbandoned(e, r)
    \/ PresubmitFails(e, r) \/ UnsentCleared(e, r)
    \/ RunEnds(e, r) \/ RunRaises(e, r) \/ RunDefers(e, r)
    \/ DeferExhausted(e, r) \/ Defer(e, r) \/ DeferLost(e, r) \/ TimerFires(e, r)
    \/ Sweep(e, r)

ScanStep(r) ==
    ScanClear(r) \/ ScanRead(r) \/ TakeOver(r) \/ Settle(r) \/ Repair(r) \/ RecoveryFails(r)

OutsideStep(r) ==
    \/ Admit(r) \/ CancelByClient(r) \/ CancelRemote(r)
    \/ Supervisor(r) \/ ExpireSession(r) \/ OperatorComplete(r)

Next ==
    \/ \E e \in Epochs, r \in Requests : ThreadStep(e, r) \/ CrashInClaim(e, r)
    \/ \E r \in Requests : ScanStep(r) \/ OutsideStep(r) \/ CrashInRepair(r)
    \/ \E e \in Epochs : Crash(e)
    \/ StartService \/ Serve \/ Retire

Spec == Init /\ [][Next]_vars

(* The threads of the serving generation are scheduled, its timers fire,   *)
(* and a runner or a recovery retry ends sooner or later (sessions have a  *)
(* lifetime and idle policy, workers an execution deadline).               *)
Fairness ==
    \A r \in Requests : WF_vars(\E e \in Epochs : Live(e) /\ ThreadStep(e, r))

FairSpec == Spec /\ Fairness

-----------------------------------------------------------------------------
TypeOK ==
    /\ rec \in [Requests -> Record]
    /\ marker \in [Requests -> BOOLEAN]
    /\ index \in [Requests -> IndexEntry]
    /\ epoch \in Epochs \cup {NoEpoch}
    /\ service \in {"down", "recovering", "serving"}
    /\ thr \in [Epochs -> [Requests -> Thread]]
    /\ scan \in [Requests -> Scan]
    /\ prompt \in [Requests -> Prompt]

Unfinished(r) == rec[r].state \in Nonterminal
Owned(r) == Unfinished(r) /\ rec[r].owner # NoEpoch

(* Whatever write a crash cuts short, a request some generation has        *)
(* claimed and not finished can be found by the next recovery pass.        *)
Discoverable == \A r \in Requests : Owned(r) => Found(r)

(* While a generation serves, every claimed unfinished request belongs to  *)
(* it and one of its threads is working on it: recovery leaves nothing     *)
(* with a dead generation, and no error path drops a request.              *)
NoOrphans ==
    service = "serving" =>
        \A r \in Requests : Owned(r) => rec[r].owner = epoch /\ ~At(epoch, r, "idle")

(* The prompt of a request is handed to the provider or the worker at most *)
(* once, over all generations, retries and recoveries: a runner that is    *)
(* given the prompt again sends it only when no earlier one did.           *)
ExecutedAtMostOnce == \A r \in Requests : prompt[r].sent <= 1

(* A cancellation the recovery pass saw is settled before the service      *)
(* serves; the request is never rehydrated.                                *)
RestartCancelSettled ==
    \A r \in Requests : (scan[r].pc = "done" /\ scan[r].cancel) => ~Unfinished(r)

(* Ownership only ever moves to a newer generation, except that an         *)
(* operator's capture clears it.                                           *)
OwnershipMovesForward ==
    [][\A r \in Requests :
         rec'[r].owner # rec[r].owner =>
             rec'[r].owner > rec[r].owner \/ rec'[r].state = "completed"]_vars

(* A finished request keeps its outcome, whoever writes last; the one      *)
(* change left is to completed (an operator's capture, or the late answer  *)
(* of an interrupted request), and never from a rejection.                 *)
OutcomeIsStable ==
    [][\A r \in Requests :
         (rec[r].state \in TerminalStates /\ rec'[r].state # rec[r].state) =>
             rec'[r].state = "completed" /\ rec[r].state # "rejected"]_vars

(* A thread of an older generation can no longer start, resume, finish or  *)
(* re-own a request that a newer generation owns.                          *)
OldGenerationHarmless ==
    [][\A e \in Epochs, r \in Requests :
         (e < epoch /\ Owned(r) /\ rec[r].owner = epoch /\ thr'[e][r] # thr[e][r]) =>
             /\ IdentityOf(rec'[r]) = IdentityOf(rec[r])
             /\ rec'[r].state \in {rec[r].state, "cancelled", "rejected"}]_vars

(* Threads, markers, work index, crashes and takeovers implement what the  *)
(* client was promised.                                                    *)
Lifecycle == INSTANCE RequestLifecycle WITH
    Generations <- Epochs,
    status <- [r \in Requests |-> rec[r].state],
    owner <- [r \in Requests |-> rec[r].owner]

RefinesLifecycle == Lifecycle!LifecycleSpec

-----------------------------------------------------------------------------
(* What the code says and the model refutes.                               *)

(* start_owned_session_attempt calls a work-index phase update that does   *)
(* not succeed non-fatal: a turn whose start is recorded goes on to run.   *)
StartedTurnRuns ==
    [][\A e \in Epochs, r \in Requests :
         (At(e, r, "starting") /\ rec[r].state = "queued" /\ rec'[r].state = "running")
             => thr'[e][r].pc # "error"]_vars

(* The dispatch claim is the sole way to running and is made before the    *)
(* prompt is submitted: no prompt is executed for a request that is not    *)
(* running.                                                                *)
ClaimBeforeSend ==
    [][\A r \in Requests : prompt'[r].sent # prompt[r].sent => rec'[r].state = "running"]_vars

(* takeover_nonterminal_owner: the old generation is fenced on every later *)
(* mutation.                                                               *)
OldGenerationIsFenced ==
    [][\A e \in Epochs, r \in Requests :
         (e < epoch /\ Owned(r) /\ rec[r].owner = epoch /\ thr'[e][r] # thr[e][r])
             => rec'[r] = rec[r]]_vars

(* A crash between the two writes of a takeover leaves an older owner in   *)
(* the work index; the next pass repairs it.  So no pass is refused a      *)
(* request.                                                                *)
TakeoverRepairs ==
    \A r \in Requests :
        scan[r].pc = "found" => ~TakeoverConflict(rec[r], scan[r].expected)

(* Every request the serving generation works on is finished eventually,   *)
(* unless the generation ends first.                                       *)
Settles ==
    \A r \in Requests :
        (service = "serving" /\ Unfinished(r) /\ ~At(epoch, r, "idle"))
            ~> (~Unfinished(r) \/ service # "serving")
=============================================================================
