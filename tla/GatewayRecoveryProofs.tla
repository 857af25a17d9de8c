------------------------ MODULE GatewayRecoveryProofs -----------------------
(***************************************************************************)
(* Proofs about GatewayRecovery, for every set of requests and any number  *)
(* of generations.  The actions are first reduced to summaries of what     *)
(* they may do to the record, to the two durable work projections and to   *)
(* the threads; the invariants and the refinement are proved from those.   *)
(***************************************************************************)
EXTENDS GatewayRecovery, TLAPS

LEMMA WrittenType ==
    ASSUME NEW rc \in Record
    PROVE  Written(rc) \in Record
<1>1. rc.revision + 1 \in Nat
  BY DEF Record
<1> QED
  BY <1>1, Zenon DEF Written, Record

(* What the store's mutations write is a record.                           *)
LEMMA RecordTypes ==
    ASSUME NEW rc \in Record, NEW e \in Epochs
    PROVE  /\ Claimed(rc, e) \in Record
           /\ Started(rc, e) \in Record
           /\ Prepared(rc, e) \in Record
           /\ TurnStarted(rc) \in Record
           /\ CancelledOrMarked(rc) \in Record
           /\ Deferred(rc) \in Record
           /\ Expired(rc) \in Record
           /\ Captured(rc) \in Record
           /\ Rejected(rc) \in Record
           /\ \A s \in States : Finished(rc, s) \in Record
           /\ \A w \in Workers \cup {NoWorker} : TakenOver(rc, e, w) \in Record
<1>1. WorkerFor(rc, e) \in Workers \cup {NoWorker} /\ rc.attempt + 1 \in Nat
  BY DEF WorkerFor, Record, Workers
<1>2. /\ "queued" \in States /\ "running" \in States /\ "cancelled" \in States
      /\ "interrupted" \in States /\ "completed" \in States /\ "rejected" \in States
  BY DEF States, Nonterminal, TerminalStates
<1>3. Claimed(rc, e) \in Record
  <2>1. [rc EXCEPT !.owner = e, !.root = TRUE] \in Record
    BY Zenon DEF Record
  <2> QED
    BY <2>1, WrittenType DEF Claimed
<1>4. Started(rc, e) \in Record
  <2>1. [rc EXCEPT !.state = "running", !.worker = WorkerFor(rc, e), !.attempt = @ + 1] \in Record
    BY <1>1, <1>2, Zenon DEF Record
  <2> QED
    BY <2>1, WrittenType DEF Started
<1>5. Prepared(rc, e) \in Record
  <2>1. [rc EXCEPT !.worker = WorkerFor(rc, e), !.attempt = @ + 1] \in Record
    BY <1>1, Zenon DEF Record
  <2> QED
    BY <2>1, WrittenType DEF Prepared
<1>6. TurnStarted(rc) \in Record
  <2>1. [rc EXCEPT !.state = "running"] \in Record
    BY <1>2, Zenon DEF Record
  <2> QED
    BY <2>1, WrittenType DEF TurnStarted
<1>7. CancelledOrMarked(rc) \in Record
  <2>1. (IF rc.state = "queued" THEN "cancelled" ELSE rc.state) \in States
    BY <1>2 DEF Record
  <2>2. [rc EXCEPT !.cancel = TRUE, !.state = IF @ = "queued" THEN "cancelled" ELSE @] \in Record
    BY <2>1, Zenon DEF Record
  <2> QED
    BY <2>2, WrittenType DEF CancelledOrMarked
<1>8. Deferred(rc) \in Record
  <2>1. [rc EXCEPT !.recovery = (rc.state = "running")] \in Record
    BY Zenon DEF Record
  <2> QED
    BY <2>1, WrittenType DEF Deferred
<1>9. Expired(rc) \in Record
  <2>1. [rc EXCEPT !.state = "interrupted", !.root = FALSE] \in Record
    BY <1>2, Zenon DEF Record
  <2> QED
    BY <2>1, WrittenType DEF Expired
<1>10. Captured(rc) \in Record
  <2>1. [rc EXCEPT !.state = "completed", !.owner = NoEpoch, !.worker = NoWorker,
                   !.recovery = FALSE] \in Record
    BY <1>2, Zenon DEF Record
  <2> QED
    BY <2>1, WrittenType DEF Captured
<1>11. \A s \in States : Finished(rc, s) \in Record
  <2> TAKE s \in States
  <2>1. [rc EXCEPT !.state = s, !.recovery = FALSE] \in Record
    BY Zenon DEF Record
  <2> QED
    BY <2>1, WrittenType DEF Finished
<1>12. Rejected(rc) \in Record
  BY <1>2, <1>11 DEF Rejected
<1>13. \A w \in Workers \cup {NoWorker} : TakenOver(rc, e, w) \in Record
  <2> TAKE w \in Workers \cup {NoWorker}
  <2>1. (IF w = NoWorker THEN rc.worker ELSE w) \in Workers \cup {NoWorker}
    BY DEF Record
  <2>2. [rc EXCEPT !.owner = e, !.recovery = (rc.state = "running"),
                   !.worker = IF w = NoWorker THEN @ ELSE w] \in Record
    BY <2>1, Zenon DEF Record
  <2> QED
    BY <2>2, WrittenType DEF TakenOver
<1> QED
  BY <1>3, <1>4, <1>5, <1>6, <1>7, <1>8, <1>9, <1>10, <1>11, <1>12, <1>13

(* What a record's state and owner are after each mutation.                *)
LEMMA RecordEffects ==
    ASSUME NEW rc \in Record, NEW e \in Epochs
    PROVE  /\ Claimed(rc, e).state = rc.state /\ Claimed(rc, e).owner = e
           /\ Started(rc, e).state = "running" /\ Started(rc, e).owner = rc.owner
           /\ Prepared(rc, e).state = rc.state /\ Prepared(rc, e).owner = rc.owner
           /\ TurnStarted(rc).state = "running" /\ TurnStarted(rc).owner = rc.owner
           /\ Deferred(rc).state = rc.state /\ Deferred(rc).owner = rc.owner
           /\ Expired(rc).state = "interrupted" /\ Expired(rc).owner = rc.owner
           /\ Captured(rc).state = "completed" /\ Captured(rc).owner = NoEpoch
           /\ Rejected(rc).state = "rejected" /\ Rejected(rc).owner = rc.owner
           /\ \A s \in States : Finished(rc, s).state = s /\ Finished(rc, s).owner = rc.owner
           /\ CancelledOrMarked(rc).owner = rc.owner
           /\ CancelledOrMarked(rc).state = IF rc.state = "queued" THEN "cancelled" ELSE rc.state
  BY DEF Written, Claimed, Started, Prepared, TurnStarted, Deferred, Expired, Captured, Rejected,
         Finished, CancelledOrMarked, CancelChanges, Record

(* A takeover keeps the state and gives an unfinished record to e.         *)
LEMMA TakeoverEffect ==
    ASSUME NEW rc \in Record, NEW e \in Epochs, NEW w \in Workers \cup {NoWorker}
    PROVE  /\ TakenOver(rc, e, w).state = rc.state
           /\ TakenOver(rc, e, w).owner = IF rc.state \in Nonterminal THEN e ELSE rc.owner
  BY DEF Written, TakenOver, Record

-----------------------------------------------------------------------------
(* The assignments the actions are built from.                             *)
LEMMA WriteFacts ==
    ASSUME TypeOK, NEW r \in Requests, NEW rc \in Record, Write(r, rc)
    PROVE  /\ rec' \in [Requests -> Record]
           /\ rec'[r] = rc
           /\ \A q \in Requests \ {r} : rec'[q] = rec[q]
  BY DEF Write, TypeOK

(* Only the thread of e for r differs.                                     *)
OtherThreadsSame(e, r) ==
    \A f \in Epochs, q \in Requests : (f # e \/ q # r) => thr'[f][q] = thr[f][q]

LEMMA IdleIsThread == Idle \in Thread
  BY DEF Idle, Thread, PCs, RecoveryPhases

LEMMA BecomeFacts ==
    ASSUME TypeOK, NEW e \in Epochs, NEW r \in Requests, NEW t \in Thread, Become(e, r, t)
    PROVE  /\ thr' \in [Epochs -> [Requests -> Thread]]
           /\ thr'[e][r] = t
           /\ OtherThreadsSame(e, r)
  BY DEF Become, TypeOK, OtherThreadsSame

LEMMA ExitFacts ==
    ASSUME TypeOK, NEW e \in Epochs, NEW r \in Requests, Exit(e, r)
    PROVE  /\ thr' \in [Epochs -> [Requests -> Thread]]
           /\ thr'[e][r].pc = "idle"
           /\ OtherThreadsSame(e, r)
<1>1. Become(e, r, Idle)
  BY DEF Exit
<1> QED
  BY <1>1, BecomeFacts, IdleIsThread DEF Idle

LEMMA GotoFacts ==
    ASSUME TypeOK, NEW e \in Epochs, NEW r \in Requests, NEW pc \in PCs, Goto(e, r, pc)
    PROVE  /\ thr' \in [Epochs -> [Requests -> Thread]]
           /\ thr'[e][r].pc = pc
           /\ OtherThreadsSame(e, r)
<1>1. [thr[e][r] EXCEPT !.pc = pc] \in Thread
  <2>1. thr[e][r] \in Thread
    BY DEF TypeOK
  <2> QED
    BY <2>1, Zenon DEF Thread
<1>2. thr'[e][r] = [thr[e][r] EXCEPT !.pc = pc]
  BY DEF Goto, TypeOK
<1>3. thr' \in [Epochs -> [Requests -> Thread]]
  BY <1>1 DEF Goto, TypeOK
<1>4. thr'[e][r].pc = pc
  BY <1>2 DEF TypeOK, Thread
<1>5. OtherThreadsSame(e, r)
  BY DEF Goto, TypeOK, OtherThreadsSame
<1> QED
  BY <1>3, <1>4, <1>5

(* What a step may do to a request's prompt.                               *)
OtherPromptsSame(r) == \A q \in Requests \ {r} : prompt'[q] = prompt[q]

LEMMA PromptWrite ==
    ASSUME TypeOK, NEW r \in Requests, NEW p \in Prompt, prompt' = [prompt EXCEPT ![r] = p]
    PROVE  prompt' \in [Requests -> Prompt] /\ prompt'[r] = p /\ OtherPromptsSame(r)
  BY DEF TypeOK, OtherPromptsSame

LEMMA SendFacts ==
    ASSUME TypeOK, NEW r \in Requests, Send(r)
    PROVE  /\ prompt' \in [Requests -> Prompt] /\ OtherPromptsSame(r)
           /\ prompt'[r].stage = prompt[r].stage /\ prompt'[r].phase = prompt[r].phase
           /\ prompt'[r].sent = prompt[r].sent + 1
<1> DEFINE p == [prompt[r] EXCEPT !.sent = @ + 1]
<1>1. prompt[r] \in Prompt
  BY DEF TypeOK
<1>2. /\ p \in Prompt /\ p.stage = prompt[r].stage /\ p.phase = prompt[r].phase
      /\ p.sent = prompt[r].sent + 1
  BY <1>1 DEF Prompt
<1>3. prompt' = [prompt EXCEPT ![r] = p]
  BY DEF Send, TypeOK
<1> HIDE DEF p
<1> QED
  BY <1>2, <1>3, PromptWrite

LEMMA CheckpointFacts ==
    ASSUME TypeOK, NEW r \in Requests, NEW stage \in Stages, Checkpoint(r, stage)
    PROVE  /\ prompt' \in [Requests -> Prompt] /\ OtherPromptsSame(r)
           /\ prompt'[r].stage = stage /\ prompt'[r].phase = prompt[r].phase
           /\ prompt'[r].sent = prompt[r].sent
<1> DEFINE p == [prompt[r] EXCEPT !.stage = stage]
<1>1. prompt[r] \in Prompt
  BY DEF TypeOK
<1>2. /\ p \in Prompt /\ p.stage = stage /\ p.phase = prompt[r].phase
      /\ p.sent = prompt[r].sent
  BY <1>1 DEF Prompt
<1>3. prompt' = [prompt EXCEPT ![r] = p]
  BY DEF Checkpoint, TypeOK
<1> HIDE DEF p
<1> QED
  BY <1>2, <1>3, PromptWrite

LEMMA PhaseFacts ==
    ASSUME TypeOK, NEW e \in Epochs, NEW r \in Requests, RecordPhase(e, r)
    PROVE  /\ prompt' \in [Requests -> Prompt] /\ OtherPromptsSame(r)
           /\ prompt'[r].stage = prompt[r].stage /\ prompt'[r].phase = thr[e][r].phase
           /\ prompt'[r].sent = prompt[r].sent
<1> DEFINE p == [prompt[r] EXCEPT !.phase = thr[e][r].phase]
<1>1. prompt[r] \in Prompt /\ thr[e][r].phase \in RecoveryPhases
  BY DEF TypeOK, Thread
<1>2. /\ p \in Prompt /\ p.stage = prompt[r].stage /\ p.phase = thr[e][r].phase
      /\ p.sent = prompt[r].sent
  BY <1>1 DEF Prompt
<1>3. prompt' = [prompt EXCEPT ![r] = p]
  BY DEF RecordPhase, TypeOK
<1> HIDE DEF p
<1> QED
  BY <1>2, <1>3, PromptWrite

-----------------------------------------------------------------------------
(* Summaries of what a step of the thread of e for r may do.               *)

(* To the record: nothing that counts, a claim, the start, or an outcome.  *)
Kept(r) == rec'[r].state = rec[r].state /\ rec'[r].owner = rec[r].owner

ClaimedBy(e, r) ==
    /\ rec[r].state \in Nonterminal /\ rec'[r].state = rec[r].state
    /\ rec[r].owner = NoEpoch /\ rec'[r].owner = e

Begun(r) ==
    /\ rec[r].state = "queued" /\ rec'[r].state = "running"
    /\ rec[r].owner # NoEpoch /\ rec'[r].owner = rec[r].owner

Resolved(r) ==
    /\ rec'[r].state \in TerminalStates
    /\ TransitionAllowed(rec[r].state, rec'[r].state)
    /\ rec'[r].owner = rec[r].owner

RecordEffect(e, r) ==
    /\ \A q \in Requests \ {r} : rec'[q] = rec[q]
    /\ Kept(r) \/ ClaimedBy(e, r) \/ Begun(r) \/ Resolved(r)

(* To the marker and the work index.                                       *)
WorkEffect(e, r) ==
    /\ \A q \in Requests \ {r} : marker'[q] = marker[q] /\ index'[q] = index[q]
    /\ At(e, r, "sweep") \/ (Found(r) => Found(r)')
    /\ marker'[r] => marker[r] \/ rec'[r].owner # NoEpoch
    /\ rec'[r].owner # rec[r].owner => Found(r)'
    /\ At(e, r, "recorded") => Found(r)'

(* To the threads and the service.                                         *)
ThreadEffect(e, r) ==
    /\ UNCHANGED lifeVars
    /\ ~At(e, r, "idle")
    /\ OtherThreadsSame(e, r)
    /\ thr'[e][r].pc # "recorded"
    /\ thr'[e][r].pc = "sweep" => rec'[r].state \in TerminalStates

Effect(e, r) == TypeOK' /\ RecordEffect(e, r) /\ WorkEffect(e, r) /\ ThreadEffect(e, r)

(* A step that writes nothing durable.                                     *)
LEMMA QuietEffect ==
    ASSUME TypeOK, NEW e \in Epochs, NEW r \in Requests,
           UNCHANGED <<durable, lifeVars>>, prompt' \in [Requests -> Prompt],
           thr[e][r].pc \notin {"idle", "recorded"},
           thr' \in [Epochs -> [Requests -> Thread]], OtherThreadsSame(e, r),
           thr'[e][r].pc \notin {"recorded", "sweep"}
    PROVE  Effect(e, r)
<1> USE DEF durable, lifeVars
<1>1. TypeOK'
  BY DEF TypeOK
<1>2. RecordEffect(e, r)
  BY DEF RecordEffect, Kept
<1>3. WorkEffect(e, r)
  BY DEF WorkEffect, Found, At
<1>4. ThreadEffect(e, r)
  BY DEF ThreadEffect, At
<1> QED
  BY <1>1, <1>2, <1>3, <1>4 DEF Effect

(* A step that writes only the record, from rc to one that keeps, starts   *)
(* or resolves it.                                                         *)
LEMMA WriteEffect ==
    ASSUME TypeOK, NEW e \in Epochs, NEW r \in Requests, NEW rc \in Record,
           Write(r, rc), UNCHANGED <<marker, index, lifeVars>>,
           prompt' \in [Requests -> Prompt],
           Kept(r) \/ Begun(r) \/ Resolved(r),
           thr[e][r].pc \notin {"idle", "recorded"},
           thr' \in [Epochs -> [Requests -> Thread]], OtherThreadsSame(e, r),
           thr'[e][r].pc # "recorded",
           thr'[e][r].pc = "sweep" => rc.state \in TerminalStates
    PROVE  Effect(e, r)
<1> USE DEF lifeVars
<1>1. /\ rec' \in [Requests -> Record]
      /\ rec'[r] = rc
      /\ \A q \in Requests \ {r} : rec'[q] = rec[q]
  BY WriteFacts
<1>2. TypeOK'
  BY <1>1 DEF TypeOK
<1>3. RecordEffect(e, r)
  BY <1>1 DEF RecordEffect
<1>4. rec'[r].owner = rec[r].owner
  BY DEF Kept, Begun, Resolved
<1>5. WorkEffect(e, r)
  BY <1>4 DEF WorkEffect, Found, At
<1>6. ThreadEffect(e, r)
  BY <1>1 DEF ThreadEffect, At
<1> QED
  BY <1>2, <1>3, <1>5, <1>6 DEF Effect

LEMMA FinishEffect ==
    ASSUME TypeOK, NEW e \in Epochs, NEW r \in Requests, NEW id, NEW state \in TerminalStates,
           thr[e][r].pc \notin {"idle", "recorded"}, FinishAs(e, r, id, state)
    PROVE  Effect(e, r)
<1>1. prompt' \in [Requests -> Prompt] /\ rec[r] \in Record /\ state \in States
  BY DEF FinishAs, TypeOK, States
<1>2. CASE CanFinish(rec[r], id, state)
  <2>1. Write(r, Finished(rec[r], state)) /\ Goto(e, r, "sweep") /\ UNCHANGED <<marker, index, lifeVars>>
    BY <1>2 DEF FinishAs
  <2>2. /\ Finished(rec[r], state) \in Record
        /\ Finished(rec[r], state).state = state
        /\ Finished(rec[r], state).owner = rec[r].owner
    BY <1>1, RecordTypes, RecordEffects
  <2>3. Resolved(r)
    BY <1>2, <2>1, <2>2, WriteFacts DEF CanFinish, Resolved
  <2> QED
    BY <1>1, <2>1, <2>2, <2>3, GotoFacts, WriteEffect DEF PCs
<1>3. CASE ~CanFinish(rec[r], id, state)
  <2>1. Exit(e, r) /\ UNCHANGED <<durable, lifeVars>>
    BY <1>3 DEF FinishAs, durable
  <2> QED
    BY <1>1, <2>1, ExitFacts, QuietEffect
<1> QED
  BY <1>2, <1>3

LEMMA RejectEffect ==
    ASSUME TypeOK, NEW e \in Epochs, NEW r \in Requests,
           thr[e][r].pc \notin {"idle", "recorded"}, RejectUnfenced(e, r)
    PROVE  Effect(e, r)
<1>1. prompt' \in [Requests -> Prompt] /\ rec[r] \in Record
  BY DEF RejectUnfenced, TypeOK
<1>2. CASE CanReject(rec[r])
  <2>1. Write(r, Rejected(rec[r])) /\ Exit(e, r) /\ UNCHANGED <<marker, index, lifeVars>>
    BY <1>2 DEF RejectUnfenced
  <2>2. /\ Rejected(rec[r]) \in Record
        /\ Rejected(rec[r]).state = "rejected"
        /\ Rejected(rec[r]).owner = rec[r].owner
    BY <1>1, RecordTypes, RecordEffects
  <2>3. Resolved(r)
    BY <1>2, <2>1, <2>2, WriteFacts DEF CanReject, Resolved, TerminalStates
  <2> QED
    BY <1>1, <2>1, <2>2, <2>3, ExitFacts, WriteEffect
<1>3. CASE ~CanReject(rec[r])
  <2>1. Exit(e, r) /\ UNCHANGED <<durable, lifeVars>>
    BY <1>3 DEF RejectUnfenced, durable
  <2> QED
    BY <1>1, <2>1, ExitFacts, QuietEffect
<1> QED
  BY <1>2, <1>3

(* The steps that leave the durable state alone.                           *)
LEMMA LocalSteps ==
    ASSUME TypeOK, NEW e \in Epochs, NEW r \in Requests,
           \/ Enqueue(e, r) \/ Dequeue(e, r) \/ CheckPass(e, r) \/ ClaimRefused(e, r)
           \/ TurnStopped(e, r) \/ OpenRefused(e, r) \/ TurnCancelled(e, r)
           \/ TurnNeedsClaim(e, r) \/ TurnWithoutClaim(e, r) \/ StartTurnRefused(e, r)
           \/ PromptRefused(e, r) \/ SubmitAbandoned(e, r)
           \/ RunDefers(e, r) \/ DeferLost(e, r) \/ TimerFires(e, r)
    PROVE  Effect(e, r)
<1> DEFINE Quiet == UNCHANGED <<durable, lifeVars>> /\ prompt' \in [Requests -> Prompt]
           Left == Exit(e, r)
           Went == \E pc \in PCs \ {"recorded", "sweep"} : Goto(e, r, pc)
           Active == thr[e][r].pc \notin {"idle", "recorded"}
<1>1. CASE Quiet /\ Active /\ (Left \/ Went)
  <2>1. CASE Left
    BY <1>1, <2>1, ExitFacts, QuietEffect
  <2>2. CASE Went
    BY <1>1, <2>2, GotoFacts, QuietEffect
  <2> QED
    BY <1>1, <2>1, <2>2
<1>2. CASE Enqueue(e, r)
  BY <1>1, <1>2 DEF Enqueue, At, PCs, TypeOK
<1>3. CASE Dequeue(e, r)
  BY <1>1, <1>3 DEF Dequeue, PCs, TypeOK
<1>4. CASE ClaimRefused(e, r)
  BY <1>1, <1>4 DEF ClaimRefused, At, PCs, TypeOK
<1>5. CASE TurnStopped(e, r)
  BY <1>1, <1>5 DEF TurnStopped, At, PCs, TypeOK
<1>6. CASE OpenRefused(e, r)
  BY <1>1, <1>6 DEF OpenRefused, At, PCs, TypeOK
<1>7. CASE TurnCancelled(e, r)
  BY <1>1, <1>7 DEF TurnCancelled, At, PCs, TypeOK
<1>8. CASE TurnNeedsClaim(e, r)
  BY <1>1, <1>8 DEF TurnNeedsClaim, At, PCs, TypeOK
<1>9. CASE TurnWithoutClaim(e, r)
  BY <1>1, <1>9 DEF TurnWithoutClaim, TurnPC, At, PCs, TypeOK
<1>10. CASE StartTurnRefused(e, r)
  BY <1>1, <1>10 DEF StartTurnRefused, At, PCs, TypeOK
<1>11. CASE RunDefers(e, r)
  <2>1. PICK phase \in RecoveryPhases :
             Become(e, r, [thr[e][r] EXCEPT !.pc = "defer", !.phase = phase])
    BY <1>11 DEF RunDefers, RecoveryPhases
  <2> DEFINE t == [thr[e][r] EXCEPT !.pc = "defer", !.phase = phase]
  <2>2. thr[e][r] \in Thread /\ "defer" \in PCs
    BY DEF TypeOK, PCs
  <2>3. t \in Thread /\ t.pc = "defer"
    BY <2>1, <2>2, Zenon DEF Thread
  <2>4. Quiet /\ Active
    BY <1>11 DEF RunDefers, TypeOK
  <2>5. Become(e, r, t)
    BY <2>1
  <2> HIDE DEF t
  <2> QED
    BY <2>3, <2>4, <2>5, BecomeFacts, QuietEffect
<1>12. CASE DeferLost(e, r)
  BY <1>1, <1>12 DEF DeferLost, At, PCs, TypeOK
<1>13. CASE CheckPass(e, r)
  <2> DEFINE t == [thr[e][r] EXCEPT !.pc = "claim", !.revision = rec[r].revision]
  <2>1. thr[e][r] \in Thread /\ rec[r].revision \in Nat /\ "claim" \in PCs
    BY DEF TypeOK, Record, PCs
  <2>2. t \in Thread /\ t.pc = "claim"
    BY <2>1, Zenon DEF Thread
  <2>3. Become(e, r, t)
    BY <1>13 DEF CheckPass
  <2>4. Quiet /\ Active
    BY <1>13 DEF CheckPass, At, TypeOK
  <2> HIDE DEF t
  <2> QED
    BY <2>2, <2>3, <2>4, BecomeFacts, QuietEffect
<1>14. CASE TimerFires(e, r)
  <2> DEFINE t == [Idle EXCEPT !.pc = "check", !.observe = thr[e][r].observe]
  <2>1. t \in Thread /\ t.pc = "check"
    <3>1. thr[e][r].observe \in BOOLEAN /\ "check" \in PCs
      BY DEF TypeOK, Thread, PCs
    <3> QED
      BY <3>1, IdleIsThread, Zenon DEF Thread
  <2>2. Become(e, r, t) \/ Exit(e, r)
    BY <1>14 DEF TimerFires
  <2>3. Quiet /\ Active
    BY <1>14 DEF TimerFires, At, TypeOK
  <2> HIDE DEF t
  <2>4. CASE Become(e, r, t)
    BY <2>1, <2>3, <2>4, BecomeFacts, QuietEffect
  <2> QED
    BY <1>1, <2>2, <2>3, <2>4
<1>15. CASE PromptRefused(e, r)
  BY <1>1, <1>15 DEF PromptRefused, At, PCs, TypeOK
<1>16. CASE SubmitAbandoned(e, r)
  BY <1>1, <1>16 DEF SubmitAbandoned, At, PCs, TypeOK
<1> QED
  BY <1>2, <1>3, <1>4, <1>5, <1>6, <1>7, <1>8, <1>9, <1>10, <1>11, <1>12, <1>13, <1>14, <1>15,
     <1>16

(* What UnsentRetry makes of the thread.                                   *)
LEMMA RetryFacts ==
    ASSUME TypeOK, NEW e \in Epochs, NEW r \in Requests, UnsentRetry(e, r)
    PROVE  /\ thr' \in [Epochs -> [Requests -> Thread]] /\ OtherThreadsSame(e, r)
           /\ thr'[e][r].pc \in {"error", "turn", "defer"}
           /\ thr'[e][r].worker = thr[e][r].worker /\ thr'[e][r].attempt = thr[e][r].attempt
           /\ thr'[e][r].resumed = thr[e][r].resumed /\ thr'[e][r].observe = thr[e][r].observe
           /\ thr'[e][r].revision = thr[e][r].revision
<1> DEFINE t == thr[e][r]
           error == [t EXCEPT !.pc = "error"]
           again == [t EXCEPT !.pc = "turn", !.retried = TRUE]
           defer == [t EXCEPT !.pc = "defer", !.phase = "presubmit"]
           Same(u) == /\ u.worker = t.worker /\ u.attempt = t.attempt
                      /\ u.resumed = t.resumed /\ u.observe = t.observe
                      /\ u.revision = t.revision
<1>1. /\ t \in Thread /\ {"error", "turn", "defer"} \subseteq PCs
      /\ "presubmit" \in RecoveryPhases /\ TRUE \in BOOLEAN
  BY DEF TypeOK, PCs, RecoveryPhases
<1>2. Become(e, r, error) \/ Become(e, r, again) \/ Become(e, r, defer)
  BY DEF UnsentRetry
<1> HIDE DEF t
<1>3. error \in Thread /\ error.pc = "error" /\ Same(error)
  BY <1>1 DEF Thread
<1>4. again \in Thread /\ again.pc = "turn" /\ Same(again)
  BY <1>1 DEF Thread
<1>5. defer \in Thread /\ defer.pc = "defer" /\ Same(defer)
  BY <1>1 DEF Thread
<1> HIDE DEF error, again, defer
<1> QED
  BY <1>2, <1>3, <1>4, <1>5, BecomeFacts DEF t

LEMMA OpenFacts ==
    ASSUME TypeOK, NEW e \in Epochs, NEW r \in Requests, Opened(e, r)
    PROVE  /\ thr' \in [Epochs -> [Requests -> Thread]] /\ OtherThreadsSame(e, r)
           /\ thr'[e][r].pc = "opened" /\ thr'[e][r].observe = Observing(e, r)
           /\ thr'[e][r].worker = thr[e][r].worker /\ thr'[e][r].attempt = thr[e][r].attempt
           /\ thr'[e][r].resumed = thr[e][r].resumed /\ thr'[e][r].revision = thr[e][r].revision
           /\ thr'[e][r].phase = thr[e][r].phase
           /\ thr[e][r].pc = "turn"
<1> DEFINE t == [thr[e][r] EXCEPT !.pc = "opened", !.observe = Observing(e, r)]
<1>1. thr[e][r] \in Thread /\ "opened" \in PCs /\ Observing(e, r) \in BOOLEAN
  BY DEF TypeOK, PCs, Observing
<1>2. /\ t \in Thread /\ t.pc = "opened" /\ t.observe = Observing(e, r)
      /\ t.worker = thr[e][r].worker /\ t.attempt = thr[e][r].attempt
      /\ t.resumed = thr[e][r].resumed /\ t.revision = thr[e][r].revision
      /\ t.phase = thr[e][r].phase
  BY <1>1 DEF Thread
<1>3. Become(e, r, t) /\ thr[e][r].pc = "turn"
  BY DEF Opened, At
<1> HIDE DEF t
<1> QED
  BY <1>2, <1>3, BecomeFacts

(* The steps from the open session to the prompt on its way.               *)
LEMMA SubmitSteps ==
    ASSUME TypeOK, NEW e \in Epochs, NEW r \in Requests,
           \/ OpenSession(e, r) \/ ClaimPrepared(e, r)
           \/ SendUnfenced(e, r) \/ PreparePrompt(e, r) \/ DispatchPrompt(e, r)
           \/ DispatchClaimed(e, r) \/ IntendSend(e, r) \/ Click(e, r)
           \/ PresubmitFails(e, r) \/ UnsentCleared(e, r)
    PROVE  Effect(e, r)
<1>1. UNCHANGED <<durable, lifeVars>> /\ thr[e][r].pc \notin {"idle", "recorded"}
  BY DEF OpenSession, ClaimPrepared, Opened, SendUnfenced, PreparePrompt, DispatchPrompt,
         DispatchClaimed, IntendSend, Click, PresubmitFails, UnsentCleared, At
<1>2. prompt' \in [Requests -> Prompt]
  <2>1. CASE UNCHANGED prompt
    BY <2>1 DEF TypeOK
  <2>2. CASE Send(r)
    BY <2>2, SendFacts
  <2>3. CASE \E stage \in Stages : Checkpoint(r, stage)
    BY <2>3, CheckpointFacts
  <2> QED
    BY <2>1, <2>2, <2>3
       DEF OpenSession, ClaimPrepared, SendUnfenced, PreparePrompt, DispatchPrompt,
           DispatchClaimed, IntendSend, Click, PresubmitFails, UnsentCleared, Stages
<1>3. /\ thr' \in [Epochs -> [Requests -> Thread]] /\ OtherThreadsSame(e, r)
      /\ thr'[e][r].pc \notin {"recorded", "sweep"}
  <2>1. CASE Opened(e, r)
    BY <2>1, OpenFacts
  <2>2. CASE UnsentRetry(e, r)
    BY <2>2, RetryFacts
  <2>3. CASE \E pc \in {"run", "prepared", "sending", "click"} : Goto(e, r, pc)
    BY <2>3, GotoFacts DEF PCs
  <2> QED
    BY <2>1, <2>2, <2>3
       DEF OpenSession, ClaimPrepared, SendUnfenced, PreparePrompt, DispatchPrompt,
           DispatchClaimed, IntendSend, Click, PresubmitFails, UnsentCleared
<1> QED
  BY <1>1, <1>2, <1>3, QuietEffect

(* The steps that end in a fenced terminal write or an unfenced rejection. *)
LEMMA OutcomeSteps ==
    ASSUME TypeOK, NEW e \in Epochs, NEW r \in Requests,
           \/ EnqueueReject(e, r) \/ CheckStale(e, r) \/ CheckRecoveredCancel(e, r)
           \/ OpenCancelled(e, r) \/ RunEnds(e, r) \/ RunRaises(e, r) \/ DeferExhausted(e, r)
    PROVE  Effect(e, r)
<1>1. CASE EnqueueReject(e, r)
  BY <1>1, RejectEffect DEF EnqueueReject, At
<1>2. CASE CheckStale(e, r)
  BY <1>2, RejectEffect DEF CheckStale, At
<1>3. CASE CheckRecoveredCancel(e, r)
  BY <1>3, FinishEffect DEF CheckRecoveredCancel, At, TerminalStates
<1>4. CASE OpenCancelled(e, r)
  BY <1>4, FinishEffect DEF OpenCancelled, At, TerminalStates
<1>5. CASE RunEnds(e, r)
  <2>1. PICK state \in TerminalStates : FinishAs(e, r, Id(e, r), state)
    BY <1>5 DEF RunEnds, TerminalStates
  <2> QED
    BY <1>5, <2>1, FinishEffect DEF RunEnds, At
<1>6. CASE RunRaises(e, r)
  BY <1>6, FinishEffect DEF RunRaises, At, TerminalStates
<1>7. CASE DeferExhausted(e, r)
  BY <1>7, FinishEffect DEF DeferExhausted, At, TerminalStates
<1> QED
  BY <1>1, <1>2, <1>3, <1>4, <1>5, <1>6, <1>7

LEMMA CheckCancelledEffect ==
    ASSUME TypeOK, NEW e \in Epochs, NEW r \in Requests, CheckCancelled(e, r)
    PROVE  Effect(e, r)
<1>1. rec[r] \in Record
  BY DEF TypeOK
<1>2. CancelledOrMarked(rec[r]) \in Record
  BY <1>1, RecordTypes
<1>3. Write(r, CancelledOrMarked(rec[r]))
  BY DEF CheckCancelled
<1>4. Kept(r) \/ Resolved(r)
  BY <1>1, <1>2, <1>3, RecordEffects, WriteFacts
     DEF Kept, Resolved, TransitionAllowed, Successors, TerminalStates
<1>5. /\ thr[e][r].pc \notin {"idle", "recorded"} /\ Exit(e, r)
      /\ UNCHANGED <<marker, index, lifeVars>> /\ prompt' \in [Requests -> Prompt]
  BY DEF CheckCancelled, At, TypeOK
<1> QED
  BY <1>2, <1>3, <1>4, <1>5, ExitFacts, WriteEffect

LEMMA StartBoundEffect ==
    ASSUME TypeOK, NEW e \in Epochs, NEW r \in Requests, StartBound(e, r)
    PROVE  Effect(e, r)
<1>1. rec[r] \in Record /\ thr[e][r] \in Thread
  BY DEF TypeOK
<1>2. thr[e][r].pc \notin {"idle", "recorded"} /\ UNCHANGED <<marker, index, lifeVars>>
  BY DEF StartBound, At
<1>3. prompt' \in [Requests -> Prompt]
  BY SendFacts DEF StartBound, TypeOK
<1>4. CASE CanStart(rec[r], e, thr[e][r].revision)
  <2> DEFINE new == Started(rec[r], e)
             t == [thr[e][r] EXCEPT !.pc = "run", !.worker = new.worker,
                                    !.attempt = new.attempt, !.revision = 0]
  <2>1. new \in Record /\ new.state = "running" /\ new.owner = rec[r].owner
    BY <1>1, RecordTypes, RecordEffects
  <2>2. Write(r, new) /\ Become(e, r, t)
    BY <1>4 DEF StartBound
  <2> HIDE DEF new
  <2>3. "run" \in PCs /\ new.worker \in Workers \cup {NoWorker} /\ new.attempt \in Nat /\ 0 \in Nat
    BY <2>1 DEF PCs, Record
  <2>4. t \in Thread /\ t.pc = "run"
    BY <1>1, <2>3, Zenon DEF Thread
  <2> HIDE DEF t
  <2>5. rec[r].owner = e /\ e # NoEpoch /\ rec[r].state = "queued"
    BY <1>4, EpochAssumption DEF CanStart, TransitionAllowed, Successors, Epochs, NoEpoch
  <2>6. Begun(r)
    BY <2>1, <2>2, <2>5, WriteFacts DEF Begun
  <2> QED
    BY <1>2, <1>3, <2>1, <2>2, <2>4, <2>6, BecomeFacts, WriteEffect
<1>5. CASE ~CanStart(rec[r], e, thr[e][r].revision)
  <2>1. Exit(e, r) /\ UNCHANGED <<durable, lifeVars>>
    BY <1>5 DEF StartBound, durable
  <2> QED
    BY <1>2, <1>3, <2>1, ExitFacts, QuietEffect
<1> QED
  BY <1>4, <1>5

LEMMA StartRecoveredEffect ==
    ASSUME TypeOK, NEW e \in Epochs, NEW r \in Requests, StartRecovered(e, r)
    PROVE  Effect(e, r)
<1>1. thr[e][r].pc \notin {"idle", "recorded"}
  BY DEF StartRecovered, At
<1>2. CASE rec[r].state = "running" /\ rec[r].cancel
  <2>1. FinishAs(e, r, IdentityOf(rec[r]), "cancelled")
    BY <1>2 DEF StartRecovered
  <2> QED
    BY <1>1, <2>1, FinishEffect DEF TerminalStates
<1>3. CASE ~(rec[r].state = "running" /\ rec[r].cancel)
  <2>1. Goto(e, r, "run") /\ UNCHANGED <<durable, lifeVars>>
    BY <1>3 DEF StartRecovered
  <2>2. prompt' \in [Requests -> Prompt]
    BY <1>3, SendFacts DEF StartRecovered
  <2> QED
    BY <1>1, <2>1, <2>2, GotoFacts, QuietEffect DEF PCs
<1> QED
  BY <1>2, <1>3

LEMMA PrepareEffect ==
    ASSUME TypeOK, NEW e \in Epochs, NEW r \in Requests, Prepare(e, r)
    PROVE  Effect(e, r)
<1>1. rec[r] \in Record /\ thr[e][r] \in Thread
  BY DEF TypeOK
<1>2. /\ thr[e][r].pc \notin {"idle", "recorded"} /\ UNCHANGED <<marker, index, lifeVars>>
      /\ prompt' \in [Requests -> Prompt]
  BY DEF Prepare, At, TypeOK
<1>3. CASE CanPrepare(rec[r], e, thr[e][r].revision)
  <2> DEFINE new == Prepared(rec[r], e)
             t == [thr[e][r] EXCEPT !.pc = "turn", !.worker = new.worker,
                                    !.attempt = new.attempt, !.revision = 0]
  <2>1. new \in Record /\ new.state = rec[r].state /\ new.owner = rec[r].owner
    BY <1>1, RecordTypes, RecordEffects
  <2>2. Write(r, new) /\ Become(e, r, t)
    BY <1>3 DEF Prepare
  <2> HIDE DEF new
  <2>3. "turn" \in PCs /\ new.worker \in Workers \cup {NoWorker} /\ new.attempt \in Nat /\ 0 \in Nat
    BY <2>1 DEF PCs, Record
  <2>4. t \in Thread /\ t.pc = "turn"
    BY <1>1, <2>3, Zenon DEF Thread
  <2> HIDE DEF t
  <2>5. Kept(r)
    BY <2>1, <2>2, WriteFacts DEF Kept
  <2> QED
    BY <1>2, <2>1, <2>2, <2>4, <2>5, BecomeFacts, WriteEffect
<1>4. CASE ~CanPrepare(rec[r], e, thr[e][r].revision)
  <2>1. Exit(e, r) /\ UNCHANGED <<durable, lifeVars>>
    BY <1>4 DEF Prepare, durable
  <2> QED
    BY <1>2, <2>1, ExitFacts, QuietEffect
<1> QED
  BY <1>3, <1>4

LEMMA DeferEffect ==
    ASSUME TypeOK, NEW e \in Epochs, NEW r \in Requests, Defer(e, r)
    PROVE  Effect(e, r)
<1> DEFINE t == [thr[e][r] EXCEPT !.pc = "timer", !.cancelled = FALSE]
<1>1. rec[r] \in Record /\ thr[e][r] \in Thread /\ "timer" \in PCs
  BY DEF TypeOK, PCs
<1>2. /\ thr[e][r].pc \notin {"idle", "recorded"} /\ UNCHANGED <<marker, index, lifeVars>>
      /\ prompt' \in [Requests -> Prompt] /\ Write(r, Deferred(rec[r]))
      /\ Become(e, r, t) \/ Exit(e, r)
  BY PhaseFacts DEF Defer, At
<1>3. Deferred(rec[r]) \in Record /\ Kept(r)
  <2>1. /\ Deferred(rec[r]) \in Record
        /\ Deferred(rec[r]).state = rec[r].state /\ Deferred(rec[r]).owner = rec[r].owner
    BY <1>1, RecordTypes, RecordEffects
  <2> QED
    BY <1>2, <2>1, WriteFacts DEF Kept
<1>4. t \in Thread /\ t.pc = "timer"
  BY <1>1, Zenon DEF Thread
<1> HIDE DEF t
<1>5. CASE Become(e, r, t)
  BY <1>2, <1>3, <1>4, <1>5, BecomeFacts, WriteEffect
<1>6. CASE Exit(e, r)
  BY <1>2, <1>3, <1>6, ExitFacts, WriteEffect
<1> QED
  BY <1>2, <1>5, <1>6

(* claim_dispatch: the marker is set for a record this generation owns.    *)
LEMMA ClaimEffect ==
    ASSUME TypeOK, NEW e \in Epochs, NEW r \in Requests,
           ClaimRecovered(e, r) \/ ClaimAgain(e, r) \/ ClaimFresh(e, r)
    PROVE  Effect(e, r)
<1> DEFINE resumed == [thr[e][r] EXCEPT !.pc = IF Session(r) THEN "turn" ELSE "start",
                                        !.worker = rec[r].worker, !.attempt = rec[r].attempt,
                                        !.revision = 0, !.resumed = TRUE]
           claimed == [thr[e][r] EXCEPT !.pc = "start", !.revision = rec[r].revision + 1]
<1>1. /\ rec[r] \in Record /\ thr[e][r] \in Thread /\ e # NoEpoch
      /\ rec[r].worker \in Workers \cup {NoWorker} /\ rec[r].attempt \in Nat
      /\ rec[r].revision + 1 \in Nat /\ 0 \in Nat /\ "start" \in PCs /\ "turn" \in PCs
  BY EpochAssumption DEF TypeOK, Record, PCs, Epochs, NoEpoch
<1>2. resumed \in Thread /\ resumed.pc \in {"turn", "start"}
  BY <1>1, Zenon DEF Thread
<1>3. claimed \in Thread /\ claimed.pc = "start"
  BY <1>1, Zenon DEF Thread
<1>4. /\ Become(e, r, resumed) \/ Become(e, r, claimed) \/ Goto(e, r, "start")
      /\ UNCHANGED lifeVars /\ prompt' \in [Requests -> Prompt] /\ At(e, r, "claim")
      /\ marker' = [marker EXCEPT ![r] = TRUE]
      /\ index' = index \/ index' = [index EXCEPT ![r] = ClaimedEntry(e, r)]
  BY DEF ClaimRecovered, ClaimAgain, ClaimFresh, CanClaimFresh, TypeOK
<1> HIDE DEF resumed, claimed
<1>5. /\ thr' \in [Epochs -> [Requests -> Thread]] /\ OtherThreadsSame(e, r)
      /\ thr'[e][r].pc \in {"turn", "start"}
  <2>1. CASE Become(e, r, resumed)
    BY <1>2, <2>1, BecomeFacts
  <2>2. CASE Become(e, r, claimed)
    BY <1>3, <2>2, BecomeFacts
  <2>3. CASE Goto(e, r, "start")
    BY <2>3, GotoFacts DEF PCs
  <2> QED
    BY <1>4, <2>1, <2>2, <2>3
<1>6. /\ rec' \in [Requests -> Record] /\ RecordEffect(e, r) /\ rec'[r].owner # NoEpoch
  <2>1. CASE UNCHANGED rec /\ rec[r].owner = e
    BY <1>1, <2>1 DEF TypeOK, RecordEffect, Kept
  <2>2. CASE ClaimFresh(e, r)
    <3>1. Claimed(rec[r], e) \in Record /\ Claimed(rec[r], e).state = rec[r].state /\ Claimed(rec[r], e).owner = e
      BY <1>1, RecordTypes, RecordEffects
    <3>2. /\ rec' \in [Requests -> Record] /\ rec'[r] = Claimed(rec[r], e)
          /\ \A q \in Requests \ {r} : rec'[q] = rec[q]
      BY <2>2, <3>1, WriteFacts DEF ClaimFresh
    <3>3. Kept(r) \/ ClaimedBy(e, r)
      BY <2>2, <3>1, <3>2 DEF ClaimFresh, CanClaimFresh, CanClaim, Kept, ClaimedBy, Nonterminal
    <3> QED
      BY <1>1, <3>1, <3>2, <3>3 DEF RecordEffect
  <2> QED
    BY <2>1, <2>2 DEF ClaimRecovered, ClaimAgain, Recovered, IsRecoveredDispatch, AlreadyClaimed
<1>7. /\ marker' \in [Requests -> BOOLEAN] /\ marker'[r]
      /\ \A q \in Requests \ {r} : marker'[q] = marker[q]
  BY <1>4 DEF TypeOK
<1>8. /\ index' \in [Requests -> IndexEntry]
      /\ \A q \in Requests \ {r} : index'[q] = index[q]
  <2>1. ClaimedEntry(e, r) \in IndexEntry
    BY DEF ClaimedEntry, IndexEntry, Phases
  <2> QED
    BY <1>4, <2>1 DEF TypeOK
<1>9. WorkEffect(e, r)
  BY <1>6, <1>7, <1>8 DEF WorkEffect, Found
<1>10. ThreadEffect(e, r)
  BY <1>4, <1>5 DEF ThreadEffect, At
<1>11. TypeOK'
  BY <1>4, <1>5, <1>6, <1>7, <1>8 DEF TypeOK, lifeVars
<1> QED
  BY <1>6, <1>9, <1>10, <1>11 DEF Effect

LEMMA StartTurnEffect ==
    ASSUME TypeOK, NEW e \in Epochs, NEW r \in Requests, StartTurn(e, r)
    PROVE  Effect(e, r)
<1> DEFINE new == IF rec[r].state = "queued" THEN TurnStarted(rec[r]) ELSE rec[r]
<1>1. rec[r] \in Record /\ e # NoEpoch
  BY EpochAssumption DEF TypeOK, Epochs, NoEpoch
<1>2. /\ TurnStarted(rec[r]) \in Record
      /\ TurnStarted(rec[r]).state = "running" /\ TurnStarted(rec[r]).owner = rec[r].owner
  BY <1>1, RecordTypes, RecordEffects
<1>3. new \in Record /\ Write(r, new)
  BY <1>1, <1>2 DEF StartTurn
<1>4. rec[r].owner = e
  BY DEF StartTurn, CanStartTurn, TurnAlreadyStarted, FenceHolds, IdentityOf, Id, IdOf
<1>5. /\ rec' \in [Requests -> Record] /\ rec'[r] = new
      /\ \A q \in Requests \ {r} : rec'[q] = rec[q]
  BY <1>3, WriteFacts
<1>6. Kept(r) \/ Begun(r)
  BY <1>1, <1>2, <1>4, <1>5 DEF Kept, Begun
<1> HIDE DEF new
<1>7. /\ index' \in [Requests -> IndexEntry]
      /\ index'[r].phase = "none" <=> index[r].phase = "none"
      /\ \A q \in Requests \ {r} : index'[q] = index[q]
  <2> DEFINE ph == IF rec[r].state = "queued" /\ rec[r].root /\ index[r].phase = "claimed"
                     THEN "running" ELSE index[r].phase
  <2>1. index[r] \in IndexEntry /\ ph \in Phases
    BY DEF TypeOK, IndexEntry, Phases
  <2>2. UNCHANGED index \/ index' = [index EXCEPT ![r] = [@ EXCEPT !.phase = ph]]
    BY DEF StartTurn
  <2>3. ph = "none" <=> index[r].phase = "none"
    OBVIOUS
  <2> HIDE DEF ph
  <2>4. [index[r] EXCEPT !.phase = ph] \in IndexEntry /\ [index[r] EXCEPT !.phase = ph].phase = ph
    BY <2>1 DEF IndexEntry
  <2> QED
    BY <2>2, <2>3, <2>4 DEF TypeOK
<1>8. /\ At(e, r, "starting") /\ UNCHANGED <<marker, lifeVars>>
      /\ Goto(e, r, "run") \/ Goto(e, r, "prompt") \/ Goto(e, r, "error")
  BY DEF StartTurn, TurnPC
<1>9. prompt' \in [Requests -> Prompt]
  BY DEF StartTurn, TypeOK
<1>10. /\ thr' \in [Epochs -> [Requests -> Thread]] /\ OtherThreadsSame(e, r)
       /\ thr'[e][r].pc \in {"run", "prompt", "error"}
  BY <1>8, GotoFacts DEF PCs
<1>11. WorkEffect(e, r)
  BY <1>6, <1>7, <1>8 DEF WorkEffect, Found, At, Kept, Begun
<1>12. ThreadEffect(e, r)
  BY <1>8, <1>10 DEF ThreadEffect, At
<1>13. TypeOK'
  BY <1>5, <1>7, <1>8, <1>9, <1>10 DEF TypeOK, lifeVars
<1> QED
  BY <1>5, <1>6, <1>11, <1>12, <1>13 DEF Effect, RecordEffect

(* The two steps that write only the work projections.                     *)
LEMMA ProjectionSteps ==
    ASSUME TypeOK, NEW e \in Epochs, NEW r \in Requests, AdmitIndex(e, r) \/ Sweep(e, r)
    PROVE  Effect(e, r)
<1>1. [phase |-> "admitted", owner |-> NoEpoch] \in IndexEntry /\ NoEntry \in IndexEntry
  BY DEF IndexEntry, NoEntry, Phases
<1>2. CASE AdmitIndex(e, r)
  <2>1. /\ index' \in [Requests -> IndexEntry] /\ index'[r].phase = "admitted"
        /\ \A q \in Requests \ {r} : index'[q] = index[q]
    BY <1>1, <1>2 DEF AdmitIndex, TypeOK
  <2>2. /\ thr' \in [Epochs -> [Requests -> Thread]] /\ OtherThreadsSame(e, r)
        /\ thr'[e][r].pc = "admitted"
    BY <1>2, GotoFacts DEF AdmitIndex, PCs
  <2>3. UNCHANGED <<rec, marker, lifeVars, prompt>> /\ At(e, r, "recorded")
    BY <1>2 DEF AdmitIndex
  <2>4. TypeOK'
    BY <2>1, <2>2, <2>3 DEF TypeOK, lifeVars
  <2>5. RecordEffect(e, r) /\ WorkEffect(e, r)
    BY <2>1, <2>3 DEF RecordEffect, Kept, WorkEffect, Found
  <2>6. ThreadEffect(e, r)
    BY <2>2, <2>3 DEF ThreadEffect, At
  <2> QED
    BY <2>4, <2>5, <2>6 DEF Effect
<1>3. CASE Sweep(e, r)
  <2>1. /\ index' \in [Requests -> IndexEntry] /\ marker' \in [Requests -> BOOLEAN] /\ ~marker'[r]
        /\ \A q \in Requests \ {r} : marker'[q] = marker[q] /\ index'[q] = index[q]
    BY <1>1, <1>3 DEF Sweep, ClearWork, TypeOK
  <2>2. /\ thr' \in [Epochs -> [Requests -> Thread]] /\ OtherThreadsSame(e, r)
        /\ thr'[e][r].pc = "idle"
    BY <1>3, ExitFacts DEF Sweep
  <2>3. UNCHANGED <<rec, lifeVars, prompt>> /\ At(e, r, "sweep")
    BY <1>3 DEF Sweep
  <2>4. TypeOK'
    BY <2>1, <2>2, <2>3 DEF TypeOK, lifeVars
  <2>5. RecordEffect(e, r) /\ WorkEffect(e, r)
    BY <2>1, <2>3 DEF RecordEffect, Kept, WorkEffect, At
  <2>6. ThreadEffect(e, r)
    BY <2>2, <2>3 DEF ThreadEffect, At
  <2> QED
    BY <2>4, <2>5, <2>6 DEF Effect
<1> QED
  BY <1>2, <1>3

(* Every step of a thread.                                                 *)
LEMMA ThreadStepEffect ==
    ASSUME TypeOK, NEW e \in Epochs, NEW r \in Requests, ThreadStep(e, r)
    PROVE  Effect(e, r)
  BY LocalSteps, SubmitSteps, OutcomeSteps, CheckCancelledEffect, StartBoundEffect, StartRecoveredEffect,
     PrepareEffect, DeferEffect, ClaimEffect, StartTurnEffect, ProjectionSteps
     DEF ThreadStep

-----------------------------------------------------------------------------
(* The inductive invariant.                                                *)

(* No generation newer than the current one has left a trace.              *)
OwnerNotAhead == \A r \in Requests : rec[r].owner <= epoch
ThreadsNotAhead == \A e \in Epochs, r \in Requests : At(e, r, "idle") \/ e <= epoch
ServiceHasEpoch == service # "down" => epoch # NoEpoch

Generations == OwnerNotAhead /\ ThreadsNotAhead /\ ServiceHasEpoch

(* An unfinished request that a thread past its admission, an owner or the *)
(* recovery pass refers to can be found.                                   *)
TrackedByThread(r) ==
    \A e \in Epochs : (~At(e, r, "idle") /\ ~At(e, r, "recorded") /\ Unfinished(r)) => Found(r)
TrackedByOwner(r) == Owned(r) => Found(r)
TrackedByScan(r) ==
    /\ (scan[r].state \in Nonterminal /\ Unfinished(r)) => Found(r)
    /\ scan[r].pc = "found" => scan[r].state \in Nonterminal

(* The marker of an unfinished request stands for an owner.                *)
MarkerHasOwner(r) == (marker[r] /\ Unfinished(r)) => rec[r].owner # NoEpoch
RepairHasOwner(r) == (scan[r].pc = "repair" /\ Unfinished(r)) => rec[r].owner # NoEpoch

(* The cleanup of a request comes after its outcome.                       *)
SweepAfterOutcome(r) == \A e \in Epochs : At(e, r, "sweep") => ~Unfinished(r)

(* Before admission nothing refers to the request.                         *)
AbsentIsUntouched(r) ==
    rec[r].state = "absent" =>
        /\ ~marker[r]
        /\ \A e \in Epochs : At(e, r, "idle")
        /\ scan[r].state = "absent" /\ scan[r].pc \in {"todo", "done"}

WorkTracked(r) ==
    /\ TrackedByThread(r) /\ TrackedByOwner(r) /\ TrackedByScan(r)
    /\ MarkerHasOwner(r) /\ RepairHasOwner(r)
    /\ SweepAfterOutcome(r) /\ AbsentIsUntouched(r)

IInv == TypeOK /\ Generations /\ \A r \in Requests : WorkTracked(r)

(* What a step does to the records, as the client sees them: one request   *)
(* is touched, in one of these ways.                                       *)
Submitted(r) ==
    /\ rec[r].state = "absent" /\ rec'[r].state = "queued" /\ rec'[r].owner = rec[r].owner

Acquired(r) ==
    /\ rec[r].state \in Nonterminal /\ rec'[r].state = rec[r].state
    /\ rec'[r].owner \in Epochs /\ rec'[r].owner > rec[r].owner

CapturedNow(r) ==
    /\ rec[r].state \notin {"absent", "rejected", "completed"}
    /\ rec'[r].state = "completed" /\ rec'[r].owner = NoEpoch

RecordStep(r) ==
    /\ \A q \in Requests \ {r} : rec'[q] = rec[q]
    /\ Kept(r) \/ Submitted(r) \/ Acquired(r) \/ Begun(r) \/ Resolved(r) \/ CapturedNow(r)

(* A step for r leaves everything about the other requests alone.          *)
Local(r) ==
    \A q \in Requests \ {r} :
        /\ rec'[q] = rec[q] /\ marker'[q] = marker[q] /\ index'[q] = index[q] /\ scan'[q] = scan[q]
        /\ \A f \in Epochs : thr'[f][q] = thr[f][q]

LEMMA LocalFrame ==
    ASSUME NEW r \in Requests, Local(r), \A q \in Requests : WorkTracked(q), WorkTracked(r)'
    PROVE  \A q \in Requests : WorkTracked(q)'
<1> SUFFICES ASSUME NEW q \in Requests, q # r PROVE WorkTracked(q)'
  OBVIOUS
<1>1. /\ rec'[q] = rec[q] /\ marker'[q] = marker[q] /\ index'[q] = index[q] /\ scan'[q] = scan[q]
      /\ \A f \in Epochs : thr'[f][q] = thr[f][q]
  BY DEF Local
<1>2. WorkTracked(q)
  OBVIOUS
<1> QED
  BY <1>1, <1>2
     DEF WorkTracked, TrackedByThread, TrackedByOwner, TrackedByScan, MarkerHasOwner,
         RepairHasOwner, SweepAfterOutcome, AbsentIsUntouched, Owned, Unfinished, Found, At

(* No allowed transition leads back, or out of a terminal state to an      *)
(* unfinished one.                                                         *)
LEMMA Transitions ==
    ASSUME NEW from \in States, NEW to, TransitionAllowed(from, to)
    PROVE  /\ from \in {"queued", "running", "interrupted"}
           /\ to = "completed" => from \in {"running", "interrupted"}
           /\ to = "rejected" => from = "queued"
           /\ from = "interrupted" => to = "completed"
  BY DEF TransitionAllowed, Successors, States, Nonterminal, TerminalStates

LEMMA ThreadStepPreserves ==
    ASSUME IInv, NEW e \in Epochs, NEW r \in Requests, ThreadStep(e, r)
    PROVE  IInv' /\ RecordStep(r)
<1> USE DEF NoEpoch
<1>1. Effect(e, r)
  BY ThreadStepEffect DEF IInv
<1>2. /\ TypeOK /\ TypeOK' /\ RecordEffect(e, r) /\ WorkEffect(e, r) /\ ThreadEffect(e, r)
      /\ epoch' = epoch /\ service' = service /\ scan' = scan
  BY <1>1 DEF Effect, ThreadEffect, IInv, lifeVars
<1>3. /\ e \in Nat /\ e > 0 /\ epoch \in Nat /\ e <= epoch
      /\ rec[r] \in Record /\ rec[r].owner \in Nat
  BY <1>2, EpochAssumption DEF IInv, Generations, ThreadsNotAhead, ThreadEffect, TypeOK, Record, Epochs
<1>4. RecordStep(r)
  BY <1>2, <1>3 DEF RecordStep, RecordEffect, ClaimedBy, Acquired
<1>5. Generations'
  <2>1. OwnerNotAhead'
    BY <1>2, <1>3
       DEF IInv, Generations, OwnerNotAhead, RecordEffect, Kept, ClaimedBy, Begun, Resolved
  <2>2. ThreadsNotAhead'
    BY <1>2, <1>3 DEF IInv, Generations, ThreadsNotAhead, ThreadEffect, OtherThreadsSame, At
  <2>3. ServiceHasEpoch'
    BY <1>2 DEF IInv, Generations, ServiceHasEpoch
  <2> QED
    BY <2>1, <2>2, <2>3 DEF Generations
<1>6. Local(r)
  BY <1>2 DEF Local, RecordEffect, WorkEffect, ThreadEffect, OtherThreadsSame
<1>7. /\ rec[r].state # "absent"
      /\ Unfinished(r)' => Unfinished(r)
      /\ rec'[r].state # "absent"
  <2>1. rec[r].state # "absent"
    BY <1>2 DEF IInv, WorkTracked, AbsentIsUntouched, ThreadEffect
  <2>2. rec'[r].state \in Nonterminal => rec[r].state \in Nonterminal
    BY <1>2, <1>3
       DEF RecordEffect, Kept, ClaimedBy, Begun, Resolved, Nonterminal, TerminalStates
  <2>3. rec'[r].state # "absent"
    BY <1>2, <2>1
       DEF RecordEffect, Kept, ClaimedBy, Begun, Resolved, Nonterminal, TerminalStates
  <2> QED
    BY <2>1, <2>2, <2>3 DEF Unfinished
<1>8. Unfinished(r)' => (Found(r) => Found(r)')
  BY <1>2, <1>7 DEF IInv, WorkTracked, SweepAfterOutcome, WorkEffect
<1>9. Unfinished(r)' => rec'[r].owner = rec[r].owner \/ rec'[r].owner # NoEpoch
  BY <1>2, <1>3 DEF RecordEffect, Kept, ClaimedBy, Begun, Resolved
<1>10. WorkTracked(r)'
  <2>1. TrackedByThread(r)'
    <3> SUFFICES ASSUME NEW f \in Epochs, (~At(f, r, "idle"))', (~At(f, r, "recorded"))', Unfinished(r)'
                 PROVE  Found(r)'
      BY DEF TrackedByThread
    <3>1. CASE f = e
      BY <1>2, <1>7, <1>8, <3>1 DEF IInv, WorkTracked, TrackedByThread, WorkEffect, ThreadEffect
    <3>2. CASE f # e
      <4>1. ~At(f, r, "idle") /\ ~At(f, r, "recorded")
        BY <1>2, <3>2 DEF ThreadEffect, OtherThreadsSame, At
      <4> QED
        BY <1>7, <1>8, <4>1 DEF IInv, WorkTracked, TrackedByThread
    <3> QED
      BY <3>1, <3>2
  <2>2. TrackedByOwner(r)'
    BY <1>2, <1>7, <1>8 DEF IInv, WorkTracked, TrackedByOwner, Owned, WorkEffect, Unfinished
  <2>3. TrackedByScan(r)'
    BY <1>2, <1>7, <1>8 DEF IInv, WorkTracked, TrackedByScan
  <2>4. MarkerHasOwner(r)'
    BY <1>2, <1>7, <1>9 DEF IInv, WorkTracked, MarkerHasOwner, WorkEffect
  <2>5. RepairHasOwner(r)'
    BY <1>2, <1>7, <1>9 DEF IInv, WorkTracked, RepairHasOwner
  <2>6. SweepAfterOutcome(r)'
    <3> SUFFICES ASSUME NEW f \in Epochs, At(f, r, "sweep")' PROVE ~Unfinished(r)'
      BY DEF SweepAfterOutcome
    <3>1. CASE f = e
      BY <1>2, <3>1 DEF ThreadEffect, At, Unfinished, TerminalStates, Nonterminal
    <3>2. CASE f # e
      <4>1. At(f, r, "sweep")
        BY <1>2, <3>2 DEF ThreadEffect, OtherThreadsSame, At
      <4> QED
        BY <1>7, <4>1 DEF IInv, WorkTracked, SweepAfterOutcome
    <3> QED
      BY <3>1, <3>2
  <2>7. AbsentIsUntouched(r)'
    BY <1>7 DEF AbsentIsUntouched
  <2> QED
    BY <2>1, <2>2, <2>3, <2>4, <2>5, <2>6, <2>7 DEF WorkTracked
<1>11. \A q \in Requests : WorkTracked(q)'
  BY <1>6, <1>10, LocalFrame DEF IInv
<1> QED
  BY <1>2, <1>4, <1>5, <1>11 DEF IInv

-----------------------------------------------------------------------------
(* Writers outside the queue, and the handlers of the service.             *)

(* A write that never revives a request, changes no owner of an unfinished *)
(* one, clears the work projections only with an outcome, and at most      *)
(* makes threads leave.                                                    *)
LEMMA OutsideWrite ==
    ASSUME IInv, NEW r \in Requests, NEW rc \in Record, Write(r, rc),
           rec[r].state # "absent", rc.state # "absent",
           rc.state \in Nonterminal => rec[r].state \in Nonterminal /\ rc.owner = rec[r].owner,
           rc.owner \in {rec[r].owner, NoEpoch},
           UNCHANGED lifeVars, prompt' \in [Requests -> Prompt],
           \/ UNCHANGED <<marker, index>>
           \/ ClearWork(r) /\ rc.state \notin Nonterminal,
           thr' \in [Epochs -> [Requests -> Thread]],
           \A f \in Epochs, q \in Requests :
               thr'[f][q].pc = thr[f][q].pc \/ (q = r /\ thr'[f][q].pc = "idle"),
           \A f \in Epochs, q \in Requests \ {r} : thr'[f][q] = thr[f][q]
    PROVE  IInv'
<1> USE DEF lifeVars
<1>1. /\ TypeOK /\ Generations /\ WorkTracked(r) /\ epoch \in Nat /\ rec[r].owner \in Nat
      /\ epoch' = epoch /\ service' = service /\ scan' = scan
  BY EpochAssumption DEF IInv, TypeOK, Epochs, Record, NoEpoch
<1>2. /\ rec' \in [Requests -> Record] /\ rec'[r] = rc
      /\ \A q \in Requests \ {r} : rec'[q] = rec[q]
  BY <1>1, WriteFacts
<1>3. /\ marker' \in [Requests -> BOOLEAN] /\ index' \in [Requests -> IndexEntry]
      /\ \A q \in Requests \ {r} : marker'[q] = marker[q] /\ index'[q] = index[q]
      /\ rc.state \in Nonterminal => marker'[r] = marker[r] /\ index'[r] = index[r]
  <2>1. NoEntry \in IndexEntry
    BY DEF IndexEntry, NoEntry, Phases
  <2> QED
    BY <1>1, <2>1 DEF TypeOK, ClearWork
<1>4. TypeOK'
  BY <1>1, <1>2, <1>3 DEF TypeOK
<1>5. Generations'
  <2>1. OwnerNotAhead'
    BY <1>1, <1>2 DEF Generations, OwnerNotAhead, NoEpoch
  <2>2. ThreadsNotAhead'
    BY <1>1 DEF Generations, ThreadsNotAhead, At
  <2> QED
    BY <1>1, <2>1, <2>2 DEF Generations, ServiceHasEpoch
<1>6. Local(r)
  BY <1>1, <1>2, <1>3 DEF Local
<1>7. /\ Unfinished(r)' => Unfinished(r) /\ rec'[r].owner = rec[r].owner /\ marker'[r] = marker[r]
      /\ Unfinished(r)' => Found(r)' = Found(r)
  BY <1>2, <1>3 DEF Unfinished, Found
<1>8. \A f \in Epochs : thr'[f][r].pc = thr[f][r].pc \/ thr'[f][r].pc = "idle"
  OBVIOUS
<1>9. WorkTracked(r)'
  <2>1. TrackedByThread(r)'
    BY <1>1, <1>7, <1>8 DEF WorkTracked, TrackedByThread, At
  <2>2. TrackedByOwner(r)'
    BY <1>1, <1>7 DEF WorkTracked, TrackedByOwner, Owned
  <2>3. TrackedByScan(r)'
    BY <1>1, <1>7 DEF WorkTracked, TrackedByScan
  <2>4. MarkerHasOwner(r)' /\ RepairHasOwner(r)'
    BY <1>1, <1>7 DEF WorkTracked, MarkerHasOwner, RepairHasOwner
  <2>5. SweepAfterOutcome(r)'
    BY <1>1, <1>7, <1>8 DEF WorkTracked, SweepAfterOutcome, At
  <2>6. AbsentIsUntouched(r)'
    BY <1>2 DEF AbsentIsUntouched
  <2> QED
    BY <2>1, <2>2, <2>3, <2>4, <2>5, <2>6 DEF WorkTracked
<1> QED
  BY <1>4, <1>5, <1>6, <1>9, LocalFrame DEF IInv

LEMMA AdmitPreserves ==
    ASSUME IInv, NEW r \in Requests, Admit(r)
    PROVE  IInv' /\ RecordStep(r)
<1>1. /\ TypeOK /\ Generations /\ WorkTracked(r) /\ epoch \in Nat /\ epoch \in Epochs
      /\ UNCHANGED <<marker, index, epoch, service, scan, prompt>>
  BY EpochAssumption
     DEF IInv, TypeOK, Admit, Generations, ServiceHasEpoch, lifeVars, Epochs, NoEpoch
<1>2. Admitted \in Record /\ Admitted.state = "queued" /\ Admitted.owner = NoEpoch
  BY DEF Admitted, NoRecord, Record, States, Nonterminal, NoEpoch, NoWorker
<1>3. /\ rec' \in [Requests -> Record] /\ rec'[r] = Admitted
      /\ \A q \in Requests \ {r} : rec'[q] = rec[q]
  BY <1>1, <1>2, WriteFacts DEF Admit
<1>4. /\ thr' \in [Epochs -> [Requests -> Thread]] /\ thr'[epoch][r].pc = "recorded"
      /\ OtherThreadsSame(epoch, r)
  BY <1>1, GotoFacts DEF Admit, PCs
<1>5. rec[r].state = "absent" /\ rec[r].owner = NoEpoch
  BY DEF Admit, NoRecord
<1>6. RecordStep(r)
  BY <1>2, <1>3, <1>5 DEF RecordStep, Submitted
<1>7. TypeOK'
  BY <1>1, <1>3, <1>4 DEF TypeOK
<1>8. Generations'
  <2>1. OwnerNotAhead'
    BY <1>1, <1>2, <1>3 DEF Generations, OwnerNotAhead, NoEpoch
  <2>2. ThreadsNotAhead'
    <3> SUFFICES ASSUME NEW f \in Epochs, NEW q \in Requests
                 PROVE  At(f, q, "idle")' \/ f <= epoch
      BY <1>1 DEF ThreadsNotAhead
    <3>1. CASE f = epoch
      BY <1>1, <3>1
    <3>2. CASE f # epoch
      BY <1>1, <1>4, <3>2 DEF Generations, ThreadsNotAhead, OtherThreadsSame, At
    <3> QED
      BY <3>1, <3>2
  <2> QED
    BY <1>1, <2>1, <2>2 DEF Generations, ServiceHasEpoch
<1>9. Local(r)
  BY <1>1, <1>3, <1>4 DEF Local, OtherThreadsSame
<1>10. /\ ~marker[r] /\ scan[r].state = "absent" /\ scan[r].pc \in {"todo", "done"}
       /\ \A f \in Epochs : At(f, r, "idle")
  BY <1>1, <1>5 DEF WorkTracked, AbsentIsUntouched
<1>11. \A f \in Epochs : At(f, r, "idle")' \/ At(f, r, "recorded")'
  BY <1>4, <1>10 DEF At, OtherThreadsSame
<1>12. WorkTracked(r)'
  <2>1. TrackedByThread(r)' /\ SweepAfterOutcome(r)'
    BY <1>11 DEF TrackedByThread, SweepAfterOutcome, At
  <2>2. TrackedByOwner(r)'
    BY <1>2, <1>3 DEF TrackedByOwner, Owned
  <2>3. TrackedByScan(r)' /\ MarkerHasOwner(r)' /\ RepairHasOwner(r)'
    BY <1>1, <1>10 DEF TrackedByScan, MarkerHasOwner, RepairHasOwner, Nonterminal
  <2>4. AbsentIsUntouched(r)'
    BY <1>2, <1>3 DEF AbsentIsUntouched
  <2> QED
    BY <2>1, <2>2, <2>3, <2>4 DEF WorkTracked
<1> QED
  BY <1>6, <1>7, <1>8, <1>9, <1>12, LocalFrame DEF IInv

(* What a cancellation writes.                                             *)
LEMMA CancelFacts ==
    ASSUME TypeOK, NEW r \in Requests, rec[r].state # "absent",
           Write(r, CancelledOrMarked(rec[r]))
    PROVE  /\ CancelledOrMarked(rec[r]) \in Record
           /\ CancelledOrMarked(rec[r]).owner = rec[r].owner
           /\ CancelledOrMarked(rec[r]).state # "absent"
           /\ CancelledOrMarked(rec[r]).state \in Nonterminal => rec[r].state \in Nonterminal
           /\ RecordStep(r)
<1>1. rec[r] \in Record /\ 1 \in Epochs
  BY EpochAssumption DEF TypeOK, Epochs
<1>2. /\ CancelledOrMarked(rec[r]) \in Record /\ CancelledOrMarked(rec[r]).owner = rec[r].owner
      /\ CancelledOrMarked(rec[r]).state = IF rec[r].state = "queued" THEN "cancelled" ELSE rec[r].state
  BY <1>1, RecordTypes, RecordEffects
<1>3. rec'[r] = CancelledOrMarked(rec[r]) /\ \A q \in Requests \ {r} : rec'[q] = rec[q]
  BY <1>2, WriteFacts
<1>4. Kept(r) \/ Resolved(r)
  BY <1>2, <1>3 DEF Kept, Resolved, TransitionAllowed, Successors, TerminalStates
<1> QED
  BY <1>2, <1>3, <1>4 DEF RecordStep, Nonterminal

LEMMA CancelPreserves ==
    ASSUME IInv, NEW r \in Requests, CancelByClient(r) \/ CancelRemote(r)
    PROVE  IInv' /\ RecordStep(r)
<1>1. TypeOK
  BY DEF IInv
<1>2. /\ rec[r].state # "absent" /\ Write(r, CancelledOrMarked(rec[r]))
      /\ UNCHANGED <<marker, index, lifeVars>> /\ prompt' \in [Requests -> Prompt]
  BY <1>1 DEF CancelByClient, CancelRemote, CancelChanges, TypeOK
<1>3. /\ thr' \in [Epochs -> [Requests -> Thread]]
      /\ \A f \in Epochs, q \in Requests :
            thr'[f][q].pc = thr[f][q].pc \/ (q = r /\ thr'[f][q].pc = "idle")
      /\ \A f \in Epochs, q \in Requests \ {r} : thr'[f][q] = thr[f][q]
  <2>1. CASE CancelRemote(r)
    BY <1>1, <2>1 DEF CancelRemote, TypeOK
  <2>2. CASE CancelByClient(r)
    <3> DEFINE t == thr[epoch][r]
               new == CASE t.pc = "pending" -> Idle
                        [] t.pc \in Tracked -> [t EXCEPT !.cancelled = TRUE]
                        [] OTHER -> t
    <3>1. epoch \in Epochs /\ t \in Thread
      BY <1>1, <2>2 DEF CancelByClient, IInv, Generations, ServiceHasEpoch, TypeOK
    <3>2. [t EXCEPT !.cancelled = TRUE] \in Thread /\ [t EXCEPT !.cancelled = TRUE].pc = t.pc
      BY <3>1, Zenon DEF Thread
    <3>3. Idle \in Thread /\ Idle.pc = "idle"
      BY IdleIsThread DEF Idle
    <3>4. Become(epoch, r, new)
      BY <2>2 DEF CancelByClient
    <3>5. new \in Thread /\ (new.pc = t.pc \/ new.pc = "idle")
      BY <3>1, <3>2, <3>3
    <3> HIDE DEF new
    <3>6. /\ thr' \in [Epochs -> [Requests -> Thread]] /\ thr'[epoch][r] = new
          /\ OtherThreadsSame(epoch, r)
      BY <1>1, <3>1, <3>4, <3>5, BecomeFacts
    <3> QED
      BY <3>1, <3>5, <3>6 DEF OtherThreadsSame
  <2> QED
    BY <2>1, <2>2
<1>4. /\ CancelledOrMarked(rec[r]) \in Record
      /\ CancelledOrMarked(rec[r]).owner = rec[r].owner
      /\ CancelledOrMarked(rec[r]).state # "absent"
      /\ CancelledOrMarked(rec[r]).state \in Nonterminal => rec[r].state \in Nonterminal
      /\ RecordStep(r)
  BY <1>1, <1>2, CancelFacts
<1>5. IInv'
  BY <1>2, <1>3, <1>4, OutsideWrite
<1> QED
  BY <1>4, <1>5

LEMMA OutsideOutcomes ==
    ASSUME IInv, NEW r \in Requests, Supervisor(r) \/ ExpireSession(r) \/ OperatorComplete(r)
    PROVE  IInv' /\ RecordStep(r)
<1>1. TypeOK /\ rec[r] \in Record /\ 1 \in Epochs
  BY EpochAssumption DEF IInv, TypeOK, Epochs
<1>2. /\ thr' \in [Epochs -> [Requests -> Thread]] /\ UNCHANGED <<thr, lifeVars>>
      /\ prompt' \in [Requests -> Prompt]
  BY <1>1 DEF Supervisor, ExpireSession, OperatorComplete, TypeOK
<1>3. CASE Supervisor(r)
  <2>1. PICK state \in {"failed", "interrupted", "cancelled"} :
            CanFinish(rec[r], IdentityOf(rec[r]), state) /\ Write(r, Finished(rec[r], state))
    BY <1>3 DEF Supervisor
  <2>2. /\ Finished(rec[r], state) \in Record /\ Finished(rec[r], state).state = state
        /\ Finished(rec[r], state).owner = rec[r].owner
    <3>1. state \in States
      BY DEF States, TerminalStates
    <3> QED
      BY <1>1, <3>1, RecordTypes, RecordEffects
  <2>3. Resolved(r) /\ \A q \in Requests \ {r} : rec'[q] = rec[q]
    BY <1>1, <2>1, <2>2, WriteFacts DEF Resolved, CanFinish, TerminalStates
  <2>4. ClearWork(r) /\ rec[r].state # "absent" /\ state \notin Nonterminal /\ state # "absent"
    BY <1>3, <2>1 DEF Supervisor, Nonterminal
  <2>5. IInv'
    BY <1>2, <2>1, <2>2, <2>4, OutsideWrite
  <2> QED
    BY <2>3, <2>5 DEF RecordStep
<1>4. CASE ExpireSession(r)
  <2>1. /\ Expired(rec[r]) \in Record /\ Expired(rec[r]).state = "interrupted"
        /\ Expired(rec[r]).owner = rec[r].owner
    BY <1>1, RecordTypes, RecordEffects
  <2>2. /\ Write(r, Expired(rec[r])) /\ CanExpire(rec[r]) /\ rec[r].state # "absent"
        /\ UNCHANGED <<marker, index>>
    BY <1>4 DEF ExpireSession, Nonterminal
  <2>3. Resolved(r) /\ \A q \in Requests \ {r} : rec'[q] = rec[q]
    BY <1>1, <2>1, <2>2, WriteFacts DEF Resolved, CanExpire, TerminalStates
  <2>4. IInv'
    BY <1>2, <2>1, <2>2, OutsideWrite DEF Nonterminal
  <2> QED
    BY <2>3, <2>4 DEF RecordStep
<1>5. CASE OperatorComplete(r)
  <2>1. /\ Captured(rec[r]) \in Record /\ Captured(rec[r]).state = "completed"
        /\ Captured(rec[r]).owner = NoEpoch
    BY <1>1, RecordTypes, RecordEffects
  <2>2. /\ Write(r, Captured(rec[r])) /\ rec[r].state \notin {"absent", "rejected", "completed"}
        /\ UNCHANGED <<marker, index>>
    BY <1>5 DEF OperatorComplete, CanCapture
  <2>3. CapturedNow(r) /\ \A q \in Requests \ {r} : rec'[q] = rec[q]
    BY <1>1, <2>1, <2>2, WriteFacts DEF CapturedNow
  <2>4. IInv'
    BY <1>2, <2>1, <2>2, OutsideWrite DEF Nonterminal
  <2> QED
    BY <2>3, <2>4 DEF RecordStep
<1> QED
  BY <1>3, <1>4, <1>5

-----------------------------------------------------------------------------
(* The recovery pass.                                                      *)

LEMMA ScanClearPreserves ==
    ASSUME IInv, NEW r \in Requests, ScanClear(r)
    PROVE  IInv' /\ RecordStep(r)
<1>1. TypeOK /\ Generations /\ WorkTracked(r) /\ scan[r] \in Scan
  BY DEF IInv, TypeOK
<1>2. [scan[r] EXCEPT !.pc = "done"] \in Scan
  BY <1>1 DEF Scan
<1>3. /\ scan' \in [Requests -> Scan] /\ scan'[r].pc = "done" /\ scan'[r].state = scan[r].state
      /\ \A q \in Requests \ {r} : scan'[q] = scan[q]
  BY <1>1, <1>2 DEF ScanClear, ScanTo, TypeOK, Scan
<1>4. NoEntry \in IndexEntry
  BY DEF NoEntry, IndexEntry, Phases
<1>5. /\ marker' \in [Requests -> BOOLEAN] /\ index' \in [Requests -> IndexEntry]
      /\ ~marker'[r] /\ \A q \in Requests \ {r} : marker'[q] = marker[q] /\ index'[q] = index[q]
  BY <1>1, <1>4 DEF ScanClear, ClearWork, TypeOK
<1>6. UNCHANGED <<rec, epoch, service, thr, prompt>>
  BY DEF ScanClear
<1>7. TypeOK' /\ Generations'
  BY <1>1, <1>3, <1>5, <1>6
     DEF TypeOK, Generations, OwnerNotAhead, ThreadsNotAhead, ServiceHasEpoch, At
<1>8. Unfinished(r) => ~Found(r)
  BY <1>1 DEF ScanClear, WorkTracked, MarkerHasOwner, Unfinished
<1>9. WorkTracked(r)'
  <2>1. Unfinished(r)' = Unfinished(r) /\ Owned(r)' = Owned(r)
    BY <1>6 DEF Unfinished, Owned
  <2>2. TrackedByThread(r)' /\ SweepAfterOutcome(r)'
    BY <1>1, <1>6, <1>8, <2>1 DEF WorkTracked, TrackedByThread, SweepAfterOutcome, At
  <2>3. TrackedByOwner(r)'
    BY <1>1, <1>8, <2>1 DEF WorkTracked, TrackedByOwner, Owned
  <2>4. TrackedByScan(r)'
    BY <1>1, <1>3, <1>8, <2>1 DEF WorkTracked, TrackedByScan
  <2>5. MarkerHasOwner(r)' /\ RepairHasOwner(r)'
    BY <1>3, <1>5 DEF MarkerHasOwner, RepairHasOwner
  <2>6. AbsentIsUntouched(r)'
    BY <1>1, <1>3, <1>5, <1>6 DEF WorkTracked, AbsentIsUntouched, At
  <2> QED
    BY <2>2, <2>3, <2>4, <2>5, <2>6 DEF WorkTracked
<1>10. Local(r)
  BY <1>3, <1>5, <1>6 DEF Local
<1>11. RecordStep(r)
  BY <1>6 DEF RecordStep, Kept
<1> QED
  BY <1>7, <1>9, <1>10, <1>11, LocalFrame DEF IInv

LEMMA ScanReadPreserves ==
    ASSUME IInv, NEW r \in Requests, ScanRead(r)
    PROVE  IInv' /\ RecordStep(r)
<1> DEFINE new == [pc |-> "found", state |-> rec[r].state, cancel |-> rec[r].cancel,
                   expected |-> ExpectedOwner(r)]
<1>1. TypeOK /\ Generations /\ WorkTracked(r) /\ rec[r] \in Record /\ index[r] \in IndexEntry
  BY DEF IInv, TypeOK
<1>2. ExpectedOwner(r) \in Epochs \cup {NoEpoch}
  BY <1>1 DEF ExpectedOwner, Record, IndexEntry
<1>3. new \in Scan
  BY <1>1, <1>2, Zenon DEF Scan, Record
<1>4. /\ scan' \in [Requests -> Scan] /\ scan'[r] = new
      /\ \A q \in Requests \ {r} : scan'[q] = scan[q]
  BY <1>1, <1>3 DEF ScanRead, TypeOK
<1>5. /\ UNCHANGED <<rec, marker, index, epoch, service, thr, prompt>>
      /\ Found(r) /\ rec[r].state \in Nonterminal
  BY DEF ScanRead, durable
<1>6. TypeOK' /\ Generations'
  BY <1>1, <1>4, <1>5
     DEF TypeOK, Generations, OwnerNotAhead, ThreadsNotAhead, ServiceHasEpoch, At
<1>7. WorkTracked(r)'
  <2>1. /\ TrackedByThread(r)' /\ TrackedByOwner(r)' /\ MarkerHasOwner(r)' /\ SweepAfterOutcome(r)'
    BY <1>1, <1>5 DEF WorkTracked, TrackedByThread, TrackedByOwner, MarkerHasOwner,
                      SweepAfterOutcome, Unfinished, Owned, Found, At
  <2>2. TrackedByScan(r)' /\ RepairHasOwner(r)'
    BY <1>4, <1>5 DEF TrackedByScan, RepairHasOwner, Found
  <2>3. AbsentIsUntouched(r)'
    BY <1>5 DEF AbsentIsUntouched, Nonterminal
  <2> QED
    BY <2>1, <2>2, <2>3 DEF WorkTracked
<1>8. Local(r)
  BY <1>4, <1>5 DEF Local
<1>9. RecordStep(r)
  BY <1>5 DEF RecordStep, Kept
<1> QED
  BY <1>6, <1>7, <1>8, <1>9, LocalFrame DEF IInv

LEMMA TakeOverPreserves ==
    ASSUME IInv, NEW r \in Requests, TakeOver(r)
    PROVE  IInv' /\ RecordStep(r)
<1> DEFINE worker == TakeoverWorker(r)
           new == TakenOver(rec[r], epoch, worker)
           next == IF MustSettle(r) THEN "settle" ELSE "repair"
           sc == [scan[r] EXCEPT !.pc = next, !.state = rec[r].state]
<1>1. /\ TypeOK /\ Generations /\ WorkTracked(r) /\ rec[r] \in Record /\ scan[r] \in Scan
      /\ epoch \in Epochs /\ epoch \in Nat /\ rec[r].owner \in Nat /\ rec[r].owner <= epoch
      /\ epoch # NoEpoch
  BY EpochAssumption DEF IInv, TypeOK, TakeOver, Scanning, Generations, ServiceHasEpoch,
                         OwnerNotAhead, Epochs, Record, NoEpoch
<1>2. worker \in Workers \cup {NoWorker}
  BY <1>1 DEF TakeoverWorker, Workers
<1>3. /\ new \in Record /\ new.state = rec[r].state
      /\ new.owner = IF rec[r].state \in Nonterminal THEN epoch ELSE rec[r].owner
  BY <1>1, <1>2, RecordTypes, TakeoverEffect
<1>4. /\ Write(r, new) /\ UNCHANGED <<marker, index, epoch, service, thr, prompt>>
      /\ scan[r].pc = "found" /\ scan' = [scan EXCEPT ![r] = sc]
  BY DEF TakeOver
<1>5. sc \in Scan /\ sc.state = rec[r].state /\ sc.pc \in {"settle", "repair"}
  <2>1. next \in {"settle", "repair"} /\ next \in {"todo", "found", "settle", "repair", "done"}
    OBVIOUS
  <2>2. rec[r].state \in States
    BY <1>1 DEF Record
  <2> HIDE DEF next
  <2> QED
    BY <1>1, <2>1, <2>2, Zenon DEF Scan
<1> HIDE DEF new, sc
<1>6. /\ scan' \in [Requests -> Scan] /\ scan'[r] = sc
      /\ \A q \in Requests \ {r} : scan'[q] = scan[q]
  BY <1>1, <1>4, <1>5 DEF TypeOK
<1>7. /\ rec' \in [Requests -> Record] /\ rec'[r] = new
      /\ \A q \in Requests \ {r} : rec'[q] = rec[q]
  BY <1>1, <1>3, <1>4, WriteFacts
<1>8. TypeOK'
  BY <1>1, <1>4, <1>6, <1>7 DEF TypeOK
<1>9. Generations'
  <2>1. OwnerNotAhead'
    <3> SUFFICES ASSUME NEW q \in Requests PROVE rec'[q].owner <= epoch
      BY <1>4 DEF OwnerNotAhead
    <3> QED
      BY <1>1, <1>3, <1>7 DEF Generations, OwnerNotAhead
  <2> QED
    BY <1>1, <1>4, <2>1 DEF Generations, ThreadsNotAhead, ServiceHasEpoch, At
<1>10. RecordStep(r)
  BY <1>1, <1>3, <1>7 DEF RecordStep, Kept, Acquired
<1>11. Unfinished(r) => Found(r)
  BY <1>1, <1>4 DEF WorkTracked, TrackedByScan
<1>12. WorkTracked(r)'
  <2>1. /\ Unfinished(r)' = Unfinished(r) /\ Found(r)' = Found(r)
        /\ Unfinished(r)' => rec'[r].owner # NoEpoch
        /\ rec'[r].state = rec[r].state
    BY <1>1, <1>3, <1>4, <1>7 DEF Unfinished, Found
  <2>2. TrackedByThread(r)' /\ TrackedByOwner(r)' /\ MarkerHasOwner(r)' /\ RepairHasOwner(r)'
    BY <1>11, <2>1 DEF TrackedByThread, TrackedByOwner, MarkerHasOwner, RepairHasOwner, Owned
  <2>3. TrackedByScan(r)'
    BY <1>5, <1>6, <1>11, <2>1 DEF TrackedByScan
  <2>4. SweepAfterOutcome(r)'
    BY <1>1, <1>4, <2>1 DEF WorkTracked, SweepAfterOutcome, At
  <2>5. AbsentIsUntouched(r)'
    BY <1>1, <1>4, <2>1 DEF WorkTracked, AbsentIsUntouched
  <2> QED
    BY <2>2, <2>3, <2>4, <2>5 DEF WorkTracked
<1>13. Local(r)
  BY <1>4, <1>6, <1>7 DEF Local
<1> QED
  BY <1>8, <1>9, <1>10, <1>12, <1>13, LocalFrame DEF IInv

LEMMA SettlePreserves ==
    ASSUME IInv, NEW r \in Requests, Settle(r)
    PROVE  IInv' /\ RecordStep(r)
<1> DEFINE outcome == IF scan[r].cancel THEN "cancelled" ELSE "interrupted"
           new == Finished(rec[r], outcome)
           sc == [scan[r] EXCEPT !.pc = "done", !.state = "absent"]
<1>1. /\ TypeOK /\ Generations /\ WorkTracked(r) /\ rec[r] \in Record /\ scan[r] \in Scan
      /\ 1 \in Epochs
  BY EpochAssumption DEF IInv, TypeOK, Epochs
<1>2. outcome \in States /\ outcome \in TerminalStates /\ outcome \notin Nonterminal /\ outcome # "absent"
  BY DEF States, TerminalStates, Nonterminal
<1>3. new \in Record /\ new.state = outcome /\ new.owner = rec[r].owner
  <2>1. \A s \in States : /\ Finished(rec[r], s) \in Record
                         /\ Finished(rec[r], s).state = s /\ Finished(rec[r], s).owner = rec[r].owner
    BY <1>1, RecordTypes, RecordEffects
  <2> HIDE DEF outcome
  <2> QED BY <1>2, <2>1
<1>4. /\ Write(r, new) /\ ClearWork(r) /\ scan' = [scan EXCEPT ![r] = sc]
      /\ UNCHANGED <<epoch, service, thr, prompt>> /\ rec[r].state \in Nonterminal
  BY DEF Settle
<1>5. sc \in Scan /\ sc.pc = "done" /\ sc.state = "absent"
  BY <1>1 DEF Scan, States
<1>6. TransitionAllowed(rec[r].state, outcome)
  BY <1>4 DEF TransitionAllowed, Successors, Nonterminal
<1> HIDE DEF new, sc, outcome
<1>7. /\ rec' \in [Requests -> Record] /\ rec'[r] = new
      /\ \A q \in Requests \ {r} : rec'[q] = rec[q]
  BY <1>1, <1>3, <1>4, WriteFacts
<1>8. /\ scan' \in [Requests -> Scan] /\ scan'[r] = sc
      /\ \A q \in Requests \ {r} : scan'[q] = scan[q]
  BY <1>1, <1>4, <1>5 DEF TypeOK
<1>9. /\ marker' \in [Requests -> BOOLEAN] /\ index' \in [Requests -> IndexEntry]
      /\ \A q \in Requests \ {r} : marker'[q] = marker[q] /\ index'[q] = index[q]
  <2>1. NoEntry \in IndexEntry
    BY DEF NoEntry, IndexEntry, Phases
  <2> QED
    BY <1>1, <1>4, <2>1 DEF ClearWork, TypeOK
<1>10. TypeOK'
  BY <1>1, <1>4, <1>7, <1>8, <1>9 DEF TypeOK
<1>11. Generations'
  <2>1. OwnerNotAhead'
    BY <1>1, <1>3, <1>4, <1>7 DEF Generations, OwnerNotAhead
  <2> QED
    BY <1>1, <1>4, <2>1 DEF Generations, ThreadsNotAhead, ServiceHasEpoch, At
<1>12. RecordStep(r)
  BY <1>2, <1>3, <1>6, <1>7 DEF RecordStep, Resolved
<1>13. WorkTracked(r)'
  BY <1>2, <1>3, <1>5, <1>7, <1>8
     DEF WorkTracked, TrackedByThread, TrackedByOwner, TrackedByScan, MarkerHasOwner,
         RepairHasOwner, SweepAfterOutcome, AbsentIsUntouched, Owned, Unfinished
<1>14. Local(r)
  BY <1>4, <1>7, <1>8, <1>9 DEF Local
<1> QED
  BY <1>10, <1>11, <1>12, <1>13, <1>14, LocalFrame DEF IInv

(* Rewriting the owner of an index entry loses no entry.                   *)
LEMMA RepairIndexFacts ==
    ASSUME TypeOK, NEW r \in Requests, epoch \in Epochs, RepairIndex(r)
    PROVE  /\ index' \in [Requests -> IndexEntry]
           /\ index'[r].phase = index[r].phase
           /\ \A q \in Requests \ {r} : index'[q] = index[q]
<1> DEFINE o == IF index[r].phase = "none" THEN index[r].owner ELSE epoch
<1>1. index[r] \in IndexEntry /\ o \in Epochs \cup {NoEpoch}
  BY DEF TypeOK, IndexEntry
<1>2. index' = [index EXCEPT ![r] = [@ EXCEPT !.owner = o]]
  BY DEF RepairIndex
<1> HIDE DEF o
<1>3. /\ [index[r] EXCEPT !.owner = o] \in IndexEntry
      /\ [index[r] EXCEPT !.owner = o].phase = index[r].phase
  BY <1>1 DEF IndexEntry
<1> QED
  BY <1>2, <1>3 DEF TypeOK

LEMMA RepairPreserves ==
    ASSUME IInv, NEW r \in Requests, Repair(r)
    PROVE  IInv' /\ RecordStep(r)
<1>1. /\ TypeOK /\ Generations /\ WorkTracked(r) /\ scan[r] \in Scan /\ epoch \in Epochs
  BY DEF IInv, TypeOK, Repair, Scanning, Generations, ServiceHasEpoch
<1>2. [scan[r] EXCEPT !.pc = "done"] \in Scan
  BY <1>1 DEF Scan
<1>3. /\ scan' \in [Requests -> Scan] /\ scan'[r].pc = "done" /\ scan'[r].state = scan[r].state
      /\ \A q \in Requests \ {r} : scan'[q] = scan[q]
  BY <1>1, <1>2 DEF Repair, ScanTo, TypeOK, Scan
<1>4. /\ index' \in [Requests -> IndexEntry]
      /\ \A q \in Requests \ {r} : index'[q] = index[q]
  BY <1>1, RepairIndexFacts DEF Repair
<1>5. /\ marker' \in [Requests -> BOOLEAN] /\ marker'[r]
      /\ \A q \in Requests \ {r} : marker'[q] = marker[q]
  BY <1>1 DEF Repair, TypeOK
<1>6. UNCHANGED <<rec, epoch, service, thr, prompt>> /\ scan[r].pc = "repair"
  BY DEF Repair
<1>7. TypeOK' /\ Generations'
  BY <1>1, <1>3, <1>4, <1>5, <1>6
     DEF TypeOK, Generations, OwnerNotAhead, ThreadsNotAhead, ServiceHasEpoch, At
<1>8. WorkTracked(r)'
  <2>1. TrackedByThread(r)' /\ TrackedByOwner(r)'
    BY <1>5 DEF TrackedByThread, TrackedByOwner, Found
  <2>2. TrackedByScan(r)' /\ RepairHasOwner(r)'
    BY <1>3, <1>5 DEF TrackedByScan, RepairHasOwner, Found
  <2>3. MarkerHasOwner(r)'
    BY <1>1, <1>6 DEF WorkTracked, MarkerHasOwner, RepairHasOwner, Unfinished
  <2>4. SweepAfterOutcome(r)'
    BY <1>1, <1>6 DEF WorkTracked, SweepAfterOutcome, Unfinished, At
  <2>5. AbsentIsUntouched(r)'
    BY <1>1, <1>6 DEF WorkTracked, AbsentIsUntouched
  <2> QED
    BY <2>1, <2>2, <2>3, <2>4, <2>5 DEF WorkTracked
<1>9. Local(r)
  BY <1>3, <1>4, <1>5, <1>6 DEF Local
<1>10. RecordStep(r)
  BY <1>6 DEF RecordStep, Kept
<1> QED
  BY <1>7, <1>8, <1>9, <1>10, LocalFrame DEF IInv

-----------------------------------------------------------------------------
(* The life of the service.                                                *)

LEMMA UnscannedIsScan == Unscanned \in Scan
  BY DEF Unscanned, Scan, States

(* When the service changes, a request is as tracked as before if its      *)
(* record, its projections' existence and its threads only shrink in the   *)
(* ways a crash allows.                                                    *)
LEMMA ShrinkFrame ==
    ASSUME NEW q \in Requests, WorkTracked(q),
           rec'[q] = rec[q], marker'[q] = marker[q], index'[q].phase = index[q].phase,
           scan'[q] = scan[q] \/ scan'[q] = Unscanned,
           \A f \in Epochs : thr'[f][q].pc = thr[f][q].pc \/ thr'[f][q].pc = "idle"
    PROVE  WorkTracked(q)'
<1>1. Unfinished(q)' = Unfinished(q) /\ Owned(q)' = Owned(q) /\ Found(q)' = Found(q)
  BY DEF Unfinished, Owned, Found
<1>2. TrackedByThread(q)' /\ SweepAfterOutcome(q)'
  BY <1>1 DEF WorkTracked, TrackedByThread, SweepAfterOutcome, At
<1>3. TrackedByOwner(q)' /\ MarkerHasOwner(q)'
  BY <1>1 DEF WorkTracked, TrackedByOwner, MarkerHasOwner
<1>4. TrackedByScan(q)' /\ RepairHasOwner(q)'
  BY <1>1 DEF WorkTracked, TrackedByScan, RepairHasOwner, Unscanned, Nonterminal
<1>5. AbsentIsUntouched(q)'
  BY DEF WorkTracked, AbsentIsUntouched, Unscanned, At
<1> QED
  BY <1>2, <1>3, <1>4, <1>5 DEF WorkTracked

LEMMA DieFacts ==
    ASSUME IInv, NEW e \in Epochs, Die(e)
    PROVE  /\ thr' \in [Epochs -> [Requests -> Thread]]
           /\ \A f \in Epochs, q \in Requests : thr'[f][q] = thr[f][q] \/ thr'[f][q] = Idle
           /\ \A q \in Requests : thr'[e][q] = Idle
           /\ scan' \in [Requests -> Scan]
           /\ \A q \in Requests : scan'[q] = scan[q] \/ scan'[q] = Unscanned
           /\ service' \in {"down", service} /\ service' \in {"down", "recovering", "serving"}
           /\ epoch' = epoch /\ prompt' = prompt
           /\ ThreadsNotAhead' /\ ServiceHasEpoch'
<1>1. TypeOK /\ Generations
  BY DEF IInv
<1>2. [q \in Requests |-> Idle] \in [Requests -> Thread]
  BY IdleIsThread
<1>3. /\ thr' \in [Epochs -> [Requests -> Thread]]
      /\ \A f \in Epochs, q \in Requests : thr'[f][q] = thr[f][q] \/ thr'[f][q] = Idle
      /\ \A q \in Requests : thr'[e][q] = Idle
  BY <1>1, <1>2 DEF Die, TypeOK
<1>4. /\ scan' \in [Requests -> Scan]
      /\ \A q \in Requests : scan'[q] = scan[q] \/ scan'[q] = Unscanned
  BY <1>1, UnscannedIsScan DEF Die, TypeOK
<1>5. /\ service' \in {"down", service} /\ epoch' = epoch /\ prompt' = prompt
  BY DEF Die
<1>6. ThreadsNotAhead'
  BY <1>1, <1>3, <1>5 DEF Generations, ThreadsNotAhead, At, Idle
<1>7. ServiceHasEpoch'
  BY <1>1, <1>5 DEF Generations, ServiceHasEpoch
<1> QED
  BY <1>1, <1>3, <1>4, <1>5, <1>6, <1>7 DEF TypeOK

LEMMA CrashPreserves ==
    ASSUME IInv, NEW e \in Epochs, Crash(e)
    PROVE  IInv' /\ UNCHANGED rec
<1>1. Die(e) /\ UNCHANGED <<rec, marker, index>> /\ TypeOK /\ Generations
  BY DEF Crash, durable, IInv
<1>2. TypeOK'
  BY <1>1, DieFacts DEF TypeOK
<1>3. Generations'
  BY <1>1, DieFacts DEF Generations, OwnerNotAhead
<1>4. \A q \in Requests : WorkTracked(q)'
  <2> SUFFICES ASSUME NEW q \in Requests PROVE WorkTracked(q)'
    OBVIOUS
  <2>1. /\ scan'[q] = scan[q] \/ scan'[q] = Unscanned
        /\ \A f \in Epochs : thr'[f][q].pc = thr[f][q].pc \/ thr'[f][q].pc = "idle"
    BY <1>1, DieFacts DEF Idle
  <2> QED
    BY <1>1, <2>1, ShrinkFrame DEF IInv
<1> QED
  BY <1>1, <1>2, <1>3, <1>4 DEF IInv

LEMMA CrashInRepairPreserves ==
    ASSUME IInv, NEW r \in Requests, CrashInRepair(r)
    PROVE  IInv' /\ UNCHANGED rec
<1>1. /\ TypeOK /\ Generations /\ epoch \in Epochs
  BY DEF IInv, TypeOK, CrashInRepair, Scanning, Generations, ServiceHasEpoch
<1>2. Die(epoch) /\ UNCHANGED <<rec, marker>> /\ RepairIndex(r)
  BY DEF CrashInRepair
<1>3. /\ index' \in [Requests -> IndexEntry]
      /\ \A q \in Requests : index'[q].phase = index[q].phase
  BY <1>1, <1>2, RepairIndexFacts
<1>4. TypeOK'
  BY <1>1, <1>2, <1>3, DieFacts DEF TypeOK
<1>5. Generations'
  BY <1>1, <1>2, DieFacts DEF Generations, OwnerNotAhead
<1>6. \A q \in Requests : WorkTracked(q)'
  <2> SUFFICES ASSUME NEW q \in Requests PROVE WorkTracked(q)'
    OBVIOUS
  <2>1. /\ scan'[q] = scan[q] \/ scan'[q] = Unscanned
        /\ \A f \in Epochs : thr'[f][q].pc = thr[f][q].pc \/ thr'[f][q].pc = "idle"
    BY <1>1, <1>2, DieFacts DEF Idle
  <2> QED
    BY <1>2, <1>3, <2>1, ShrinkFrame DEF IInv
<1> QED
  BY <1>2, <1>4, <1>5, <1>6 DEF IInv

(* The claim's record write has happened, the work-index write has not:    *)
(* the entry admission wrote still leads to the request.                   *)
LEMMA CrashInClaimPreserves ==
    ASSUME IInv, NEW e \in Epochs, NEW r \in Requests, CrashInClaim(e, r)
    PROVE  IInv' /\ RecordStep(r)
<1> DEFINE new == Claimed(rec[r], e)
<1>1. /\ TypeOK /\ Generations /\ WorkTracked(r) /\ rec[r] \in Record
      /\ e \in Nat /\ e > 0 /\ epoch \in Nat /\ rec[r].owner \in Nat /\ NoEpoch = 0
  BY EpochAssumption DEF IInv, TypeOK, Record, Epochs, NoEpoch
<1>2. /\ CanClaimFresh(e, r) /\ Write(r, new) /\ UNCHANGED index /\ Die(e)
      /\ marker' \in {marker, [marker EXCEPT ![r] = TRUE]}
  BY DEF CrashInClaim
<1>3. /\ At(e, r, "claim") /\ rec[r].state = "queued" /\ rec[r].owner \in {NoEpoch, e}
  BY <1>2 DEF CanClaimFresh, CanClaim
<1>4. new \in Record /\ new.state = rec[r].state /\ new.owner = e
  BY <1>1, RecordTypes, RecordEffects
<1> HIDE DEF new
<1>5. /\ rec' \in [Requests -> Record] /\ rec'[r] = new
      /\ \A q \in Requests \ {r} : rec'[q] = rec[q]
  BY <1>1, <1>2, <1>4, WriteFacts
<1>6. /\ marker' \in [Requests -> BOOLEAN]
      /\ marker[r] => marker'[r]
      /\ \A q \in Requests \ {r} : marker'[q] = marker[q]
  BY <1>1, <1>2 DEF TypeOK
<1>7. e <= epoch
  BY <1>1, <1>3 DEF Generations, ThreadsNotAhead, At
<1>8. TypeOK'
  BY <1>1, <1>2, <1>5, <1>6, DieFacts DEF TypeOK
<1>9. Generations'
  <2>1. OwnerNotAhead'
    <3>1. epoch' = epoch
      BY <1>2, DieFacts
    <3> SUFFICES ASSUME NEW q \in Requests PROVE rec'[q].owner <= epoch
      BY <3>1 DEF OwnerNotAhead
    <3> QED
      BY <1>1, <1>4, <1>5, <1>7 DEF Generations, OwnerNotAhead
  <2> QED
    BY <1>2, <2>1, DieFacts DEF Generations
<1>10. RecordStep(r)
  BY <1>1, <1>3, <1>4, <1>5 DEF RecordStep, Kept, Acquired, Nonterminal
<1>11. Found(r) /\ Found(r)'
  <2>1. Found(r)
    BY <1>1, <1>3 DEF WorkTracked, TrackedByThread, At, Unfinished, Nonterminal
  <2> QED
    BY <1>2, <1>6, <2>1 DEF Found
<1>12. WorkTracked(r)'
  <2>1. /\ scan'[r] = scan[r] \/ scan'[r] = Unscanned
        /\ \A f \in Epochs : thr'[f][r].pc = thr[f][r].pc \/ thr'[f][r].pc = "idle"
    BY <1>2, DieFacts DEF Idle
  <2>2. rec'[r].state = "queued" /\ rec'[r].owner # NoEpoch
    BY <1>1, <1>3, <1>4, <1>5
  <2>3. TrackedByThread(r)' /\ TrackedByOwner(r)' /\ MarkerHasOwner(r)' /\ RepairHasOwner(r)'
    BY <1>11, <2>2 DEF TrackedByThread, TrackedByOwner, MarkerHasOwner, RepairHasOwner
  <2>4. TrackedByScan(r)'
    BY <1>1, <1>11, <2>1 DEF WorkTracked, TrackedByScan, Unscanned
  <2>5. SweepAfterOutcome(r)'
    <3>1. \A f \in Epochs : ~At(f, r, "sweep")
      BY <1>1, <1>3 DEF WorkTracked, SweepAfterOutcome, Unfinished, Nonterminal
    <3> QED
      BY <2>1, <3>1 DEF SweepAfterOutcome, At
  <2>6. AbsentIsUntouched(r)'
    BY <2>2 DEF AbsentIsUntouched
  <2> QED
    BY <2>3, <2>4, <2>5, <2>6 DEF WorkTracked
<1>13. \A q \in Requests : WorkTracked(q)'
  <2> SUFFICES ASSUME NEW q \in Requests, q # r PROVE WorkTracked(q)'
    BY <1>12
  <2>1. /\ scan'[q] = scan[q] \/ scan'[q] = Unscanned
        /\ \A f \in Epochs : thr'[f][q].pc = thr[f][q].pc \/ thr'[f][q].pc = "idle"
    BY <1>2, DieFacts DEF Idle
  <2>2. WorkTracked(q) /\ rec'[q] = rec[q] /\ marker'[q] = marker[q] /\ index'[q].phase = index[q].phase
    BY <1>2, <1>5, <1>6 DEF IInv
  <2> QED
    BY <2>1, <2>2, ShrinkFrame
<1> QED
  BY <1>8, <1>9, <1>10, <1>13 DEF IInv

LEMMA ServiceEndPreserves ==
    ASSUME IInv, Retire \/ StartService \/ \E r \in Requests : RecoveryFails(r)
    PROVE  IInv' /\ UNCHANGED rec
<1>1. TypeOK /\ Generations /\ epoch \in Nat
  BY EpochAssumption DEF IInv, TypeOK, Epochs, NoEpoch
<1>2. UNCHANGED <<rec, marker, index, prompt>>
  BY DEF Retire, StartService, RecoveryFails, durable
<1>3. /\ scan' \in [Requests -> Scan]
      /\ \A q \in Requests : scan'[q] = scan[q] \/ scan'[q] = Unscanned
  BY <1>1, UnscannedIsScan DEF Retire, StartService, RecoveryFails, TypeOK
<1>4. /\ thr' \in [Epochs -> [Requests -> Thread]]
      /\ \A f \in Epochs, q \in Requests : thr'[f][q] = thr[f][q] \/ thr'[f][q] = Idle
  <2>1. CASE UNCHANGED thr
    BY <1>1, <2>1 DEF TypeOK
  <2>2. CASE Retire
    <3> DEFINE ts == [r \in Requests |->
                        IF ~Overlap \/ thr[epoch][r].pc \in {"pending", "resume", "timer"}
                          THEN Idle ELSE thr[epoch][r]]
    <3>1. epoch \in Epochs
      BY <1>1, <2>2 DEF Retire, TypeOK, Generations, ServiceHasEpoch
    <3>2. ts \in [Requests -> Thread] /\ \A q \in Requests : ts[q] = thr[epoch][q] \/ ts[q] = Idle
      BY <1>1, <3>1, IdleIsThread DEF TypeOK
    <3>3. thr' = [thr EXCEPT ![epoch] = ts]
      BY <1>1, <2>2, <3>1 DEF Retire, TypeOK
    <3> HIDE DEF ts
    <3> QED
      BY <1>1, <3>1, <3>2, <3>3 DEF TypeOK
  <2> QED
    BY <2>1, <2>2 DEF StartService, RecoveryFails
<1>5. /\ epoch' \in Epochs \cup {NoEpoch} /\ epoch' \in Nat /\ epoch <= epoch'
      /\ service' \in {"down", "recovering"}
      /\ service' = "recovering" => epoch' # NoEpoch
  <2>1. CASE StartService
    BY <1>1, <2>1, EpochAssumption DEF StartService, TypeOK, Epochs, NoEpoch
  <2>2. CASE ~StartService
    BY <1>1, <2>2 DEF Retire, RecoveryFails, TypeOK
  <2> QED
    BY <2>1, <2>2
<1>6. TypeOK'
  BY <1>1, <1>2, <1>3, <1>4, <1>5 DEF TypeOK
<1>7. Generations'
  <2>1. OwnerNotAhead'
    <3> SUFFICES ASSUME NEW q \in Requests PROVE rec[q].owner <= epoch'
      BY <1>2 DEF OwnerNotAhead
    <3>1. rec[q].owner \in Nat /\ rec[q].owner <= epoch
      BY <1>1, EpochAssumption DEF Generations, OwnerNotAhead, TypeOK, Record, Epochs, NoEpoch
    <3> QED
      BY <1>1, <1>5, <3>1
  <2>2. ThreadsNotAhead'
    <3> SUFFICES ASSUME NEW f \in Epochs, NEW q \in Requests, thr'[f][q].pc # "idle"
                 PROVE  f <= epoch'
      BY DEF ThreadsNotAhead, At
    <3>1. f \in Nat /\ f <= epoch
      BY <1>1, <1>4, EpochAssumption DEF Generations, ThreadsNotAhead, At, Epochs, Idle
    <3> QED
      BY <1>1, <1>5, <3>1
  <2> QED
    BY <1>5, <2>1, <2>2 DEF Generations, ServiceHasEpoch
<1>8. \A q \in Requests : WorkTracked(q)'
  <2> SUFFICES ASSUME NEW q \in Requests PROVE WorkTracked(q)'
    OBVIOUS
  <2>1. \A f \in Epochs : thr'[f][q].pc = thr[f][q].pc \/ thr'[f][q].pc = "idle"
    BY <1>4 DEF Idle
  <2> QED
    BY <1>2, <1>3, <2>1, ShrinkFrame DEF IInv
<1> QED
  BY <1>2, <1>6, <1>7, <1>8 DEF IInv

(* The rebuilt threads stand for requests the pass adopted.                *)
LEMMA RebuiltFacts ==
    ASSUME TypeOK, NEW r \in Requests, NEW t \in RebuiltThreads(r)
    PROVE  /\ t \in Thread
           /\ t.pc # "recorded" /\ t.pc # "sweep"
           /\ t.pc # "idle" => scan[r].state \in Nonterminal
<1>1. rec[r].worker \in Workers \cup {NoWorker} /\ rec[r].attempt \in Nat
  BY DEF TypeOK, Record
<1> DEFINE observe == Session(r) /\ ~ProvenUnsent(r)
           resume == [Idle EXCEPT !.pc = "resume", !.observe = observe]
           pending == [Idle EXCEPT !.pc = "pending"]
           timer == [resume EXCEPT !.pc = "timer", !.worker = rec[r].worker, !.attempt = rec[r].attempt]
<1>2. resume \in Thread /\ resume.pc = "resume" /\ pending \in Thread /\ pending.pc = "pending"
  <2>1. observe \in BOOLEAN /\ "resume" \in PCs /\ "pending" \in PCs
    BY DEF PCs
  <2> HIDE DEF observe
  <2> QED
    BY <2>1, IdleIsThread, Zenon DEF Thread
<1>3. timer \in Thread /\ timer.pc = "timer"
  <2>1. "timer" \in PCs
    BY DEF PCs
  <2> HIDE DEF resume
  <2> QED
    BY <1>1, <1>2, <2>1, Zenon DEF Thread
<1>4. Idle \in Thread /\ Idle.pc = "idle"
  BY IdleIsThread DEF Idle
<1>5. \/ t \in {resume, timer} /\ scan[r].state = "running"
      \/ t = pending /\ scan[r].state = "queued"
      \/ t = Idle
  BY DEF RebuiltThreads
<1> HIDE DEF resume, pending, timer
<1> QED
  BY <1>2, <1>3, <1>4, <1>5 DEF Nonterminal

LEMMA ServePreserves ==
    ASSUME IInv, Serve
    PROVE  IInv' /\ UNCHANGED rec
<1>1. TypeOK /\ Generations /\ epoch \in Epochs /\ epoch \in Nat
  BY EpochAssumption DEF IInv, TypeOK, Serve, Generations, ServiceHasEpoch, Epochs
<1>2. UNCHANGED <<rec, marker, index, epoch, prompt>> /\ service' = "serving"
  BY DEF Serve, durable
<1>3. scan' = [r \in Requests |-> Unscanned] /\ scan' \in [Requests -> Scan]
  BY UnscannedIsScan DEF Serve
<1>4. PICK ts \in [Requests -> UNION {RebuiltThreads(r) : r \in Requests}] :
          (\A r \in Requests : ts[r] \in RebuiltThreads(r)) /\ thr' = [thr EXCEPT ![epoch] = ts]
  BY DEF Serve
<1>5. \A r \in Requests : /\ ts[r] \in Thread
                          /\ ts[r].pc # "recorded" /\ ts[r].pc # "sweep"
                          /\ ts[r].pc # "idle" => scan[r].state \in Nonterminal
  BY <1>1, <1>4, RebuiltFacts
<1>6. ts \in [Requests -> Thread]
  BY <1>4, <1>5
<1>7. /\ thr' \in [Epochs -> [Requests -> Thread]]
      /\ \A f \in Epochs : thr'[f] = IF f = epoch THEN ts ELSE thr[f]
  BY <1>1, <1>4, <1>6 DEF TypeOK
<1>8. TypeOK'
  BY <1>1, <1>2, <1>3, <1>7 DEF TypeOK
<1>9. Generations'
  <2>1. ThreadsNotAhead'
    <3> SUFFICES ASSUME NEW f \in Epochs, NEW q \in Requests, thr'[f][q].pc # "idle"
                 PROVE  f <= epoch
      BY <1>2 DEF ThreadsNotAhead, At
    <3>1. CASE f = epoch
      BY <1>1, <3>1
    <3>2. CASE f # epoch
      BY <1>1, <1>7, <3>2 DEF Generations, ThreadsNotAhead, At
    <3> QED
      BY <3>1, <3>2
  <2>2. ServiceHasEpoch'
    BY <1>1, <1>2 DEF Serve, Generations, ServiceHasEpoch
  <2> QED
    BY <1>1, <1>2, <2>1, <2>2 DEF Generations, OwnerNotAhead
<1>10. \A q \in Requests : WorkTracked(q)'
  <2> SUFFICES ASSUME NEW q \in Requests PROVE WorkTracked(q)'
    OBVIOUS
  <2>1. WorkTracked(q)
    BY DEF IInv
  <2>2. /\ Unfinished(q)' = Unfinished(q) /\ Owned(q)' = Owned(q) /\ Found(q)' = Found(q)
        /\ scan'[q] = Unscanned
    BY <1>2, <1>3 DEF Unfinished, Owned, Found
  <2>3. TrackedByThread(q)'
    <3> SUFFICES ASSUME NEW f \in Epochs, thr'[f][q].pc # "idle", thr'[f][q].pc # "recorded",
                        Unfinished(q)
                 PROVE  Found(q)
      BY <2>2 DEF TrackedByThread, At
    <3>1. CASE f = epoch
      BY <1>5, <1>7, <2>1, <3>1 DEF WorkTracked, TrackedByScan
    <3>2. CASE f # epoch
      BY <1>7, <2>1, <3>2 DEF WorkTracked, TrackedByThread, At
    <3> QED
      BY <3>1, <3>2
  <2>4. SweepAfterOutcome(q)'
    BY <1>5, <1>7, <2>1, <2>2 DEF WorkTracked, SweepAfterOutcome, At
  <2>5. TrackedByOwner(q)' /\ MarkerHasOwner(q)'
    BY <1>2, <2>1, <2>2 DEF WorkTracked, TrackedByOwner, MarkerHasOwner
  <2>6. TrackedByScan(q)' /\ RepairHasOwner(q)'
    BY <2>2 DEF TrackedByScan, RepairHasOwner, Unscanned, Nonterminal
  <2>7. AbsentIsUntouched(q)'
    <3> SUFFICES ASSUME rec[q].state = "absent"
                 PROVE  /\ ~marker[q] /\ \A f \in Epochs : thr'[f][q].pc = "idle"
      BY <1>2, <2>2 DEF AbsentIsUntouched, At, Unscanned
    <3>1. ~marker[q] /\ scan[q].state = "absent" /\ \A f \in Epochs : thr[f][q].pc = "idle"
      BY <2>1 DEF WorkTracked, AbsentIsUntouched, At
    <3> QED
      BY <1>5, <1>7, <3>1 DEF Nonterminal
  <2> QED
    BY <2>3, <2>4, <2>5, <2>6, <2>7 DEF WorkTracked
<1> QED
  BY <1>2, <1>8, <1>9, <1>10 DEF IInv

-----------------------------------------------------------------------------
LEMMA InitInv == Init => IInv
<1> SUFFICES ASSUME Init PROVE IInv
  OBVIOUS
<1> USE DEF Init
<1>1. NoRecord \in Record /\ NoRecord.state = "absent" /\ NoRecord.owner = 0
  BY DEF NoRecord, Record, States, NoEpoch
<1>2. NoEntry \in IndexEntry /\ NoEntry.phase = "none"
  BY DEF NoEntry, IndexEntry, Phases
<1>3. Idle \in Thread /\ Idle.pc = "idle"
  BY IdleIsThread DEF Idle
<1>4. TypeOK
  <2>1. NotSent \in Prompt
    BY DEF NotSent, Prompt, Stages, RecoveryPhases
  <2> QED
    BY <1>1, <1>2, <1>3, <2>1, UnscannedIsScan DEF TypeOK
<1>5. Generations
  BY <1>1, <1>3 DEF Generations, OwnerNotAhead, ThreadsNotAhead, ServiceHasEpoch, At, NoEpoch
<1>6. ASSUME NEW r \in Requests PROVE WorkTracked(r)
  <2>1. /\ rec[r].state = "absent" /\ ~marker[r] /\ scan[r] = Unscanned
        /\ \A e \in Epochs : thr[e][r].pc = "idle"
    BY <1>1, <1>3
  <2>2. ~Unfinished(r)
    BY <2>1 DEF Unfinished, Nonterminal
  <2> QED
    BY <2>1, <2>2
       DEF WorkTracked, TrackedByThread, TrackedByOwner, TrackedByScan, MarkerHasOwner,
           RepairHasOwner, SweepAfterOutcome, AbsentIsUntouched, Owned, At, Unscanned
<1> QED
  BY <1>4, <1>5, <1>6 DEF IInv

(* Every step preserves the invariant and does to the records only what a  *)
(* client was told may happen.                                             *)
LEMMA NextPreserves ==
    ASSUME IInv, [Next]_vars
    PROVE  /\ IInv'
           /\ UNCHANGED rec \/ \E r \in Requests : RecordStep(r)
<1>1. CASE UNCHANGED vars
  <2>1. /\ UNCHANGED <<rec, marker, index, epoch, service, thr, scan, prompt>>
    BY <1>1 DEF vars
  <2> QED
    BY <2>1 DEF IInv, TypeOK, Generations, OwnerNotAhead, ThreadsNotAhead, ServiceHasEpoch,
                WorkTracked, TrackedByThread, TrackedByOwner, TrackedByScan, MarkerHasOwner,
                RepairHasOwner, SweepAfterOutcome, AbsentIsUntouched, Owned, Unfinished, Found, At
<1>2. ASSUME NEW e \in Epochs, NEW r \in Requests, ThreadStep(e, r)
      PROVE  IInv' /\ RecordStep(r)
  BY <1>2, ThreadStepPreserves
<1>3. ASSUME NEW e \in Epochs, NEW r \in Requests, CrashInClaim(e, r)
      PROVE  IInv' /\ RecordStep(r)
  BY <1>3, CrashInClaimPreserves
<1>4. ASSUME NEW r \in Requests, ScanStep(r)
      PROVE  IInv' /\ (UNCHANGED rec \/ RecordStep(r))
  BY <1>4, ScanClearPreserves, ScanReadPreserves, TakeOverPreserves, SettlePreserves,
     RepairPreserves, ServiceEndPreserves DEF ScanStep
<1>5. ASSUME NEW r \in Requests, OutsideStep(r)
      PROVE  IInv' /\ RecordStep(r)
  BY <1>5, AdmitPreserves, CancelPreserves, OutsideOutcomes DEF OutsideStep
<1>6. ASSUME NEW r \in Requests, CrashInRepair(r)
      PROVE  IInv' /\ UNCHANGED rec
  BY <1>6, CrashInRepairPreserves
<1>7. ASSUME NEW e \in Epochs, Crash(e)
      PROVE  IInv' /\ UNCHANGED rec
  BY <1>7, CrashPreserves
<1>8. CASE StartService \/ Retire
  BY <1>8, ServiceEndPreserves
<1>9. CASE Serve
  BY <1>9, ServePreserves
<1> QED
  BY <1>1, <1>2, <1>3, <1>4, <1>5, <1>6, <1>7, <1>8, <1>9 DEF Next

LEMMA Invariance == Spec => []IInv
<1>1. IInv /\ [Next]_vars => IInv'
  BY NextPreserves
<1> QED
  BY InitInv, <1>1, PTL DEF Spec

(* Types are kept, whatever the requests and the number of generations.    *)
THEOREM TypeCorrect == Spec => []TypeOK
<1>1. IInv => TypeOK
  BY DEF IInv
<1> QED
  BY Invariance, <1>1, PTL

(* Whichever write of an admission, a claim or a takeover a crash cuts     *)
(* short, and however the generations overlap, a claimed unfinished        *)
(* request can be found by the next recovery pass.                         *)
THEOREM NoClaimedRequestIsLost == Spec => []Discoverable
<1>1. IInv => Discoverable
  BY DEF IInv, WorkTracked, TrackedByOwner, Discoverable
<1> QED
  BY Invariance, <1>1, PTL

-----------------------------------------------------------------------------
(* The refinement.                                                         *)

LEMMA RecordStepRefines ==
    ASSUME IInv, IInv', NEW r \in Requests, RecordStep(r)
    PROVE  [Lifecycle!LifecycleNext]_(Lifecycle!lifecycleVars)
<1> DEFINE status == [q \in Requests |-> rec[q].state]
           owner == [q \in Requests |-> rec[q].owner]
<1>1. rec[r].state \in States /\ rec[r] \in Record
  BY DEF IInv, TypeOK, Record
<1>2. \A q \in Requests \ {r} : rec'[q] = rec[q]
  BY DEF RecordStep
<1>3. /\ status' = [status EXCEPT ![r] = rec'[r].state]
      /\ owner' = [owner EXCEPT ![r] = rec'[r].owner]
  BY <1>2
<1>4. CASE Kept(r)
  <2>1. UNCHANGED <<status, owner>>
    BY <1>3, <1>4 DEF Kept
  <2> QED
    BY <2>1 DEF Lifecycle!lifecycleVars
<1>5. CASE Submitted(r)
  <2>1. Lifecycle!Submit(r)
    BY <1>3, <1>5 DEF Submitted, Lifecycle!Submit
  <2> QED
    BY <2>1 DEF Lifecycle!LifecycleNext
<1>6. CASE Acquired(r)
  <2>1. PICK g \in Epochs : g = rec'[r].owner
    BY <1>6 DEF Acquired
  <2>2. Lifecycle!Acquire(r, g)
    BY <1>3, <1>6, <2>1 DEF Acquired, Lifecycle!Acquire, Lifecycle!Open, Nonterminal
  <2> QED
    BY <2>1, <2>2 DEF Lifecycle!LifecycleNext
<1>7. CASE Begun(r)
  <2>1. Lifecycle!Begin(r)
    BY <1>3, <1>7 DEF Begun, Lifecycle!Begin, NoEpoch
  <2> QED
    BY <2>1 DEF Lifecycle!LifecycleNext
<1>8. CASE Resolved(r)
  <2>1. /\ rec[r].state \in {"queued", "running", "interrupted"}
        /\ rec'[r].state = "completed" => rec[r].state \in {"running", "interrupted"}
        /\ rec'[r].state = "rejected" => rec[r].state = "queued"
        /\ rec[r].state = "interrupted" => rec'[r].state = "completed"
    BY <1>1, <1>8, Transitions DEF Resolved
  <2>2. PICK outcome \in Lifecycle!Outcomes : outcome = rec'[r].state
    BY <1>8 DEF Resolved, TerminalStates, Lifecycle!Outcomes
  <2>3. CASE rec[r].state = "interrupted"
    <3>1. Lifecycle!LateAnswer(r)
      BY <1>3, <1>8, <2>1, <2>3 DEF Resolved, Lifecycle!LateAnswer
    <3> QED
      BY <3>1 DEF Lifecycle!LifecycleNext
  <2>4. CASE rec[r].state # "interrupted"
    <3>1. Lifecycle!Resolve(r, outcome)
      BY <1>3, <1>8, <2>1, <2>2, <2>4 DEF Resolved, Lifecycle!Resolve, Lifecycle!Open
    <3> QED
      BY <2>2, <3>1 DEF Lifecycle!LifecycleNext
  <2> QED
    BY <2>3, <2>4
<1>9. CASE CapturedNow(r)
  <2>1. Lifecycle!Capture(r)
    BY <1>3, <1>9 DEF CapturedNow, Lifecycle!Capture, NoEpoch
  <2> QED
    BY <2>1 DEF Lifecycle!LifecycleNext
<1> QED
  BY <1>4, <1>5, <1>6, <1>7, <1>8, <1>9 DEF RecordStep

(* The gateway, with its threads, crashes, takeovers and outside writers,  *)
(* keeps the promise the lifecycle states to the client of a request.      *)
THEOREM Refinement == Spec => RefinesLifecycle
<1>1. Init => Lifecycle!LifecycleInit
  <2> SUFFICES ASSUME Init PROVE Lifecycle!LifecycleInit
    OBVIOUS
  <2>1. \A r \in Requests : rec[r].state = "absent" /\ rec[r].owner = 0
    BY DEF Init, NoRecord, NoEpoch
  <2> QED
    BY <2>1 DEF Lifecycle!LifecycleInit
<1>2. IInv /\ IInv' /\ [Next]_vars => [Lifecycle!LifecycleNext]_(Lifecycle!lifecycleVars)
  <2> SUFFICES ASSUME IInv, IInv', [Next]_vars
               PROVE  [Lifecycle!LifecycleNext]_(Lifecycle!lifecycleVars)
    OBVIOUS
  <2>1. CASE UNCHANGED rec
    BY <2>1 DEF Lifecycle!lifecycleVars
  <2>2. CASE \E r \in Requests : RecordStep(r)
    BY <2>2, RecordStepRefines
  <2> QED
    BY <2>1, <2>2, NextPreserves
<1> QED
  BY <1>1, <1>2, Invariance, PTL DEF Spec, RefinesLifecycle, Lifecycle!LifecycleSpec

(* Ownership only moves to newer generations, up to an operator's capture. *)
THEOREM OwnershipForward == Spec => OwnershipMovesForward
<1>1. IInv /\ [Next]_vars =>
        [\A r \in Requests : rec'[r].owner # rec[r].owner =>
             rec'[r].owner > rec[r].owner \/ rec'[r].state = "completed"]_vars
  <2> SUFFICES ASSUME IInv, [Next]_vars, NEW q \in Requests, rec'[q].owner # rec[q].owner
               PROVE  rec'[q].owner > rec[q].owner \/ rec'[q].state = "completed"
    OBVIOUS
  <2>1. PICK r \in Requests : RecordStep(r)
    BY NextPreserves
  <2>2. q = r
    BY <2>1 DEF RecordStep
  <2> QED
    BY <2>1, <2>2 DEF RecordStep, Kept, Submitted, Acquired, Begun, Resolved, CapturedNow
<1> QED
  BY <1>1, Invariance, PTL DEF Spec, OwnershipMovesForward

(* Nobody's late write changes an outcome, except into completed.          *)
THEOREM OutcomeStable == Spec => OutcomeIsStable
<1>1. IInv /\ [Next]_vars =>
        [\A r \in Requests : (rec[r].state \in TerminalStates /\ rec'[r].state # rec[r].state) =>
             rec'[r].state = "completed" /\ rec[r].state # "rejected"]_vars
  <2> SUFFICES ASSUME IInv, [Next]_vars, NEW q \in Requests,
                      rec[q].state \in TerminalStates, rec'[q].state # rec[q].state
               PROVE  rec'[q].state = "completed" /\ rec[q].state # "rejected"
    OBVIOUS
  <2>1. PICK r \in Requests : RecordStep(r)
    BY NextPreserves
  <2>2. q = r /\ rec[r].state \in States
    BY <2>1 DEF RecordStep, IInv, TypeOK, Record
  <2>3. ASSUME TransitionAllowed(rec[r].state, rec'[r].state)
        PROVE  rec'[r].state = "completed" /\ rec[r].state = "interrupted"
    BY <2>2, <2>3, Transitions DEF TerminalStates
  <2> QED
    BY <2>1, <2>2, <2>3
       DEF RecordStep, Kept, Submitted, Acquired, Begun, Resolved, CapturedNow,
           TerminalStates, Nonterminal
<1> QED
  BY <1>1, Invariance, PTL DEF Spec, OutcomeIsStable
=============================================================================
