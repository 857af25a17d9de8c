------------------------ MODULE GatewayCustodyProofs ------------------------
(***************************************************************************)
(* More proofs about GatewayRecovery: what each generation holds.  The     *)
(* invariant of GatewayRecoveryProofs says that work can be found; the one *)
(* here says what the recovery pass has established about a request at     *)
(* each of its stages, and that the one thread the serving generation has  *)
(* for a request it owns will be let through every fence it meets.         *)
(***************************************************************************)
EXTENDS GatewayRecoveryProofs

(* What is true of records and threads of any generation: only unfinished  *)
(* running work carries a cancellation, running work has a full identity,  *)
(* and so has a thread past the preparation of its attempt.                *)
TurnPCs == {"turn", "opened", "starting", "prompt", "prepared", "sending", "click", "run",
            "error", "defer"}

Bound(t) == t.pc \in TurnPCs \/ (t.pc = "start" /\ t.resumed)

WellFormedRecord(rc) ==
    /\ rc.state = "queued" => ~rc.cancel
    /\ rc.state = "running" => rc.owner # NoEpoch /\ rc.worker # NoWorker /\ rc.attempt >= 1

WellFormedThread(r, t) ==
    /\ t.resumed => Bound(t) \/ t.pc \in {"timer", "sweep"}
    /\ Bound(t) => t.worker # NoWorker /\ t.attempt >= 1
    /\ (t.pc = "start" /\ t.resumed) => ~Session(r)

WellFormed(r) ==
    /\ WellFormedRecord(rec[r])
    /\ \A e \in Epochs : WellFormedThread(r, thr[e][r])

(* The handler of the submission has not handed the request to the queue.  *)
BeforeQueue == {"idle", "recorded", "admitted"}

(* The recovery pass: a request it has not reached belongs to nobody of    *)
(* this generation; one it is done with is finished, or adopted, or was    *)
(* never queued by the generation that recorded it.                        *)
Adopted(r) ==
    /\ rec[r].owner = epoch /\ scan[r].state = rec[r].state
    /\ rec[r].state = "running" => rec[r].recovery

LeftAlone(r) ==
    /\ scan[r].pc = "done" /\ scan[r].state = "absent" /\ rec[r].owner = NoEpoch
    /\ \A e \in Epochs : thr[e][r].pc \in BeforeQueue

PassKeeps(r) ==
    /\ service # "recovering" => scan[r] = Unscanned
    /\ scan[r].pc = "todo" => scan[r] = Unscanned
    /\ scan[r].pc = "repair" => ~scan[r].cancel
    /\ (scan[r].pc = "done" /\ scan[r].cancel) => ~Unfinished(r)
    /\ service = "recovering" =>
         /\ At(epoch, r, "idle")
         /\ (scan[r].pc \in {"todo", "found"} /\ Unfinished(r)) => rec[r].owner # epoch
         /\ (scan[r].pc \in {"settle", "repair", "done"} /\ Unfinished(r))
               => Adopted(r) \/ LeftAlone(r)

(* The prompt is on its way, or given.                                     *)
Submitting == {"prompt", "prepared", "sending", "click", "run"}

(* The thread t of generation e will not be refused the record rc.         *)
Holds(e, rc, t) ==
    /\ t.pc \in BeforeQueue => rc.owner = NoEpoch
    /\ t.pc = "pending" => rc.state = "queued"
    /\ (t.pc \in {"resume", "check", "claim", "timer"} /\ rc.state = "running") => rc.recovery
    /\ (t.pc = "claim" /\ rc.state = "queued") => t.revision = rc.revision
    /\ (t.pc = "start" /\ ~t.resumed) =>
         rc.state = "queued" /\ rc.owner = e /\ t.revision = rc.revision
    /\ (Bound(t) \/ t.pc = "timer") => IdentityOf(rc) = IdOf(e, t)
    /\ (t.pc \in Submitting \/ (t.pc = "start" /\ t.resumed)) => rc.state = "running"

ServingKeeps(r) ==
    (service = "serving" /\ Unfinished(r)) =>
        /\ rec[r].owner \in {NoEpoch, epoch}
        /\ rec[r].owner = NoEpoch =>
             \A e \in Epochs \ {epoch} : thr[e][r].pc \in BeforeQueue
        /\ Holds(epoch, rec[r], thr[epoch][r])

Held(r) == WellFormed(r) /\ PassKeeps(r) /\ ServingKeeps(r)

Custody == \A r \in Requests : Held(r)

(* When no generation outlives its retirement, one thread per request is   *)
(* all there is, and where it stands tells whether a prompt that no        *)
(* checkpoint guards was sent: a thread that may still send it is not an   *)
(* observer, and every turn of a running session that is taken up again    *)
(* is observed.  Only sessions resume running work: the pass settles the   *)
(* running work of a worker.                                               *)
Alone(r) == \A e \in Epochs : ~At(e, r, "idle") => e = epoch /\ service = "serving"

Given(r) == IF r \in Checkpointed THEN 0 ELSE prompt[r].sent

Unmarked(r) ==
    r \notin Checkpointed => prompt[r].stage = "none" /\ prompt[r].phase # "presubmit"

Begins == {"turn", "opened", "starting", "prompt"}
Waiting == {"recorded", "admitted", "pending", "resume", "check", "claim", "timer"}

NotYetGiven(r, rc, t, n) ==
    /\ (t.resumed \/ t.pc = "defer") => Session(r)
    /\ r \notin Checkpointed =>
         /\ (t.pc \in Begins /\ ~t.observe) => n = 0
         /\ t.pc = "prompt" => ~t.observe /\ rc.state \notin {"absent", "queued"}
         /\ t.pc = "defer" => t.observe
         /\ (Session(r) /\ t.pc \in Waiting /\ rc.state = "running") => t.observe
         /\ t.pc \notin {"prepared", "sending", "click"} /\ t.phase # "presubmit"

FreshRecord(rc, n) == rc.state \in {"absent", "queued"} => n = 0 /\ ~rc.recovery

PassSettlesWorkers(r) ==
    /\ (scan[r].pc = "found" /\ Unfinished(r)) => scan[r].state = rec[r].state
    /\ (scan[r].pc \in {"repair", "done"} /\ ~Session(r) /\ Unfinished(r)) => rec[r].state = "queued"

Once(r) ==
    /\ Alone(r)
    /\ Given(r) <= 1 /\ Unmarked(r)
    /\ FreshRecord(rec[r], Given(r))
    /\ \A e \in Epochs : NotYetGiven(r, rec[r], thr[e][r], Given(r))
    /\ (service = "serving" /\ ~Session(r) /\ rec[r].state = "running") => ~rec[r].recovery
    /\ PassSettlesWorkers(r)

OnceInv == \A r \in Requests : Once(r)

-----------------------------------------------------------------------------
(* The mutations keep records well formed.                                 *)
LEMMA NewWorker ==
    ASSUME NEW rc \in Record, NEW e \in Epochs
    PROVE  WorkerFor(rc, e) # NoWorker
  BY EpochAssumption DEF WorkerFor, NoWorker, Epochs, NoEpoch

LEMMA RecordShape ==
    ASSUME NEW rc \in Record, NEW e \in Epochs, WellFormedRecord(rc)
    PROVE  /\ WellFormedRecord(Claimed(rc, e))
           /\ rc.owner # NoEpoch => WellFormedRecord(Started(rc, e))
           /\ WellFormedRecord(Prepared(rc, e))
           /\ (rc.owner # NoEpoch /\ rc.worker # NoWorker /\ rc.attempt >= 1)
                => WellFormedRecord(TurnStarted(rc))
           /\ WellFormedRecord(CancelledOrMarked(rc))
           /\ WellFormedRecord(Deferred(rc))
           /\ \A s \in TerminalStates : WellFormedRecord(Finished(rc, s))
           /\ WellFormedRecord(Expired(rc))
           /\ WellFormedRecord(Captured(rc))
           /\ \A w \in Workers \cup {NoWorker} : WellFormedRecord(TakenOver(rc, e, w))
<1> USE DEF WellFormedRecord, Written
<1>1. e # NoEpoch /\ rc.attempt + 1 >= 1 /\ WorkerFor(rc, e) # NoWorker
  BY NewWorker, EpochAssumption DEF Epochs, NoEpoch, Record
<1>2. WellFormedRecord(Claimed(rc, e))
  BY <1>1 DEF Claimed, Record
<1>3. rc.owner # NoEpoch => WellFormedRecord(Started(rc, e))
  BY <1>1 DEF Started, Record
<1>4. WellFormedRecord(Prepared(rc, e))
  BY <1>1 DEF Prepared, Record
<1>5. (rc.owner # NoEpoch /\ rc.worker # NoWorker /\ rc.attempt >= 1)
         => WellFormedRecord(TurnStarted(rc))
  BY DEF TurnStarted, Record
<1>6. WellFormedRecord(CancelledOrMarked(rc))
  BY DEF CancelledOrMarked, CancelChanges, Record
<1>7. WellFormedRecord(Deferred(rc))
  BY DEF Deferred, Record
<1>8. \A s \in TerminalStates : WellFormedRecord(Finished(rc, s))
  BY DEF Finished, Record, TerminalStates
<1>9. WellFormedRecord(Expired(rc)) /\ WellFormedRecord(Captured(rc))
  BY DEF Expired, Captured, Record
<1>10. \A w \in Workers \cup {NoWorker} : WellFormedRecord(TakenOver(rc, e, w))
  BY <1>1 DEF TakenOver, Record
<1> QED
  BY <1>2, <1>3, <1>4, <1>5, <1>6, <1>7, <1>8, <1>9, <1>10

(* What the assignments leave in the thread, field by field.               *)
SameWork(t, u) ==
    /\ u.worker = t.worker /\ u.attempt = t.attempt
    /\ u.revision = t.revision /\ u.resumed = t.resumed

(* The same, and what the runner does with its turn.                       *)
SameTurn(t, u) == SameWork(t, u) /\ u.observe = t.observe /\ u.phase = t.phase

LEMMA GotoExact ==
    ASSUME TypeOK, NEW e \in Epochs, NEW r \in Requests, NEW pc \in PCs, Goto(e, r, pc)
    PROVE  /\ thr'[e][r].pc = pc
           /\ SameWork(thr[e][r], thr'[e][r]) /\ SameTurn(thr[e][r], thr'[e][r])
<1>1. thr'[e][r] = [thr[e][r] EXCEPT !.pc = pc] /\ thr[e][r] \in Thread
  BY DEF Goto, TypeOK
<1> QED
  BY <1>1 DEF Thread, SameWork, SameTurn

LEMMA ExitExact ==
    ASSUME TypeOK, NEW e \in Epochs, NEW r \in Requests, Exit(e, r)
    PROVE  thr'[e][r] = Idle
  BY DEF Exit, Become, TypeOK

(* A fenced terminal write succeeds, or the thread leaves.                 *)
LEMMA FinishExact ==
    ASSUME TypeOK, NEW e \in Epochs, NEW r \in Requests, NEW id, NEW state \in TerminalStates,
           FinishAs(e, r, id, state)
    PROVE  \/ /\ CanFinish(rec[r], id, state)
              /\ rec'[r] = Finished(rec[r], state) /\ rec'[r].state = state
              /\ rec'[r].owner = rec[r].owner
              /\ thr'[e][r].pc = "sweep"
           \/ /\ ~CanFinish(rec[r], id, state)
              /\ rec'[r] = rec[r] /\ thr'[e][r] = Idle
<1>1. rec[r] \in Record /\ state \in States
  BY DEF TypeOK, States
<1>2. CASE CanFinish(rec[r], id, state)
  <2>1. Write(r, Finished(rec[r], state)) /\ Goto(e, r, "sweep")
    BY <1>2 DEF FinishAs
  <2>2. /\ Finished(rec[r], state) \in Record /\ Finished(rec[r], state).state = state
        /\ Finished(rec[r], state).owner = rec[r].owner
    BY <1>1, RecordTypes, RecordEffects
  <2>3. rec'[r] = Finished(rec[r], state)
    BY <2>1, <2>2, WriteFacts
  <2>4. thr'[e][r].pc = "sweep"
    BY <2>1, GotoExact DEF PCs
  <2> QED
    BY <1>2, <2>2, <2>3, <2>4
<1>3. CASE ~CanFinish(rec[r], id, state)
  BY <1>3, ExitExact DEF FinishAs
<1> QED
  BY <1>2, <1>3

LEMMA RejectExact ==
    ASSUME TypeOK, NEW e \in Epochs, NEW r \in Requests, RejectUnfenced(e, r)
    PROVE  /\ thr'[e][r] = Idle
           /\ \/ /\ rec[r].state = "queued"
                 /\ rec'[r] = Rejected(rec[r]) /\ rec'[r].state = "rejected"
                 /\ rec'[r].owner = rec[r].owner
              \/ rec[r].state # "queued" /\ rec'[r] = rec[r]
<1>1. rec[r] \in Record /\ CanReject(rec[r]) = (rec[r].state = "queued")
  BY DEF TypeOK, Record, CanReject, TransitionAllowed, Successors, States, Nonterminal, TerminalStates
<1>2. thr'[e][r] = Idle
  BY ExitExact DEF RejectUnfenced
<1>3. CASE rec[r].state = "queued"
  <2>1. Write(r, Rejected(rec[r]))
    BY <1>1, <1>3 DEF RejectUnfenced
  <2>2. /\ Rejected(rec[r]) \in Record /\ Rejected(rec[r]).state = "rejected"
        /\ Rejected(rec[r]).owner = rec[r].owner
    BY <1>1, RecordTypes, RecordEffects
  <2>3. rec'[r] = Rejected(rec[r])
    BY <2>1, <2>2, WriteFacts
  <2> QED
    BY <1>2, <1>3, <2>2, <2>3
<1>4. CASE rec[r].state # "queued"
  BY <1>1, <1>2, <1>4 DEF RejectUnfenced
<1> QED
  BY <1>3, <1>4

(* The steps of a turn that leave the record as it is.                     *)
TurnMove(e, r) ==
    \/ OpenSession(e, r) \/ ClaimPrepared(e, r) \/ OpenRefused(e, r) \/ TurnCancelled(e, r)
    \/ TurnNeedsClaim(e, r) \/ TurnWithoutClaim(e, r) \/ StartTurnRefused(e, r)
    \/ SendUnfenced(e, r) \/ PreparePrompt(e, r) \/ DispatchPrompt(e, r)
    \/ DispatchClaimed(e, r) \/ IntendSend(e, r) \/ Click(e, r)
    \/ PromptRefused(e, r) \/ SubmitAbandoned(e, r)
    \/ PresubmitFails(e, r) \/ UnsentCleared(e, r) \/ RunDefers(e, r)

LEMMA TurnMoves ==
    ASSUME TypeOK, NEW e \in Epochs, NEW r \in Requests, TurnMove(e, r)
    PROVE  /\ UNCHANGED rec /\ SameWork(thr[e][r], thr'[e][r])
           /\ thr[e][r].pc \in TurnPCs /\ thr'[e][r].pc \in TurnPCs
           /\ thr'[e][r].pc \in Submitting => thr[e][r].pc \in Submitting \/ rec[r].state # "queued"
<1> DEFINE t == thr[e][r]
<1> USE DEF TurnPCs, Submitting
<1>1. ASSUME NEW pc \in TurnPCs, Goto(e, r, pc)
      PROVE  thr'[e][r].pc = pc /\ SameWork(t, thr'[e][r])
  BY <1>1, GotoExact DEF PCs
<1>2. UNCHANGED rec /\ t.pc \in TurnPCs
  BY DEF TurnMove, OpenSession, ClaimPrepared, OpenRefused, Opened, TurnCancelled, TurnNeedsClaim,
         TurnWithoutClaim, StartTurnRefused, SendUnfenced, PreparePrompt, DispatchPrompt,
         DispatchClaimed, IntendSend, Click, PromptRefused, SubmitAbandoned, PresubmitFails,
         UnsentCleared, RunDefers, At, durable
<1>3. CASE OpenSession(e, r) \/ ClaimPrepared(e, r)
  BY <1>2, <1>3, OpenFacts DEF OpenSession, ClaimPrepared, SameWork
<1>4. CASE PresubmitFails(e, r) \/ UnsentCleared(e, r)
  BY <1>2, <1>4, RetryFacts DEF PresubmitFails, UnsentCleared, SameWork
<1>5. CASE RunDefers(e, r)
  <2>1. PICK phase \in RecoveryPhases : Become(e, r, [t EXCEPT !.pc = "defer", !.phase = phase])
    BY <1>5 DEF RunDefers, RecoveryPhases
  <2>2. thr'[e][r] = [t EXCEPT !.pc = "defer", !.phase = phase] /\ t \in Thread
    BY <2>1 DEF Become, TypeOK
  <2>3. thr'[e][r].pc = "defer" /\ SameWork(t, thr'[e][r])
    BY <2>2 DEF Thread, SameWork
  <2> QED
    BY <1>2, <2>3
<1>6. CASE \/ OpenRefused(e, r) \/ TurnCancelled(e, r) \/ TurnNeedsClaim(e, r)
           \/ StartTurnRefused(e, r) \/ PromptRefused(e, r)
  <2>1. Goto(e, r, "error") \/ Goto(e, r, "starting")
    BY <1>6 DEF OpenRefused, TurnCancelled, TurnNeedsClaim, StartTurnRefused, PromptRefused
  <2> QED
    BY <1>1, <1>2, <2>1
<1>7. CASE TurnWithoutClaim(e, r)
  <2>1. rec[r].state # "queued" /\ (Goto(e, r, "run") \/ Goto(e, r, "prompt"))
    BY <1>7 DEF TurnWithoutClaim, TurnPC
  <2> QED
    BY <1>1, <1>2, <2>1
<1>8. CASE \/ SendUnfenced(e, r) \/ PreparePrompt(e, r) \/ DispatchPrompt(e, r)
           \/ DispatchClaimed(e, r) \/ IntendSend(e, r) \/ Click(e, r) \/ SubmitAbandoned(e, r)
  <2>1. /\ t.pc \in Submitting
        /\ \E pc \in {"run", "error", "prepared", "sending", "click"} : Goto(e, r, pc)
    BY <1>8 DEF SendUnfenced, PreparePrompt, DispatchPrompt, DispatchClaimed, IntendSend, Click,
                SubmitAbandoned, At
  <2> QED
    BY <1>1, <1>2, <2>1
<1> QED
  BY <1>3, <1>4, <1>5, <1>6, <1>7, <1>8 DEF TurnMove

(* A thread keeps what it is entitled to.                                  *)
LEMMA ThreadShape ==
    ASSUME TypeOK, NEW e \in Epochs, NEW r \in Requests, WellFormed(r), ThreadStep(e, r)
    PROVE  WellFormedRecord(rec'[r]) /\ WellFormedThread(r, thr'[e][r])
<1> DEFINE rc == rec[r]
           t == thr[e][r]
<1>1. /\ rc \in Record /\ t \in Thread /\ e # NoEpoch
      /\ WellFormedRecord(rc) /\ WellFormedThread(r, t)
  BY EpochAssumption DEF TypeOK, WellFormed, Epochs, NoEpoch
<1>2. ASSUME NEW u,
             u.pc \notin TurnPCs, u.pc # "start",
             u.resumed => u.pc \in {"timer", "sweep"}
      PROVE  WellFormedThread(r, u)
  BY <1>2 DEF WellFormedThread, Bound
<1>3. WellFormedThread(r, Idle)
  BY <1>2 DEF Idle, TurnPCs
<1>4. ASSUME NEW pc \in {"run", "prompt", "error"}, Goto(e, r, pc), Bound(t)
      PROVE  WellFormedThread(r, thr'[e][r])
  <2>1. thr'[e][r].pc = pc /\ SameWork(t, thr'[e][r])
    BY <1>4, GotoExact DEF PCs
  <2> QED
    BY <1>1, <1>4, <2>1 DEF WellFormedThread, Bound, SameWork, TurnPCs
<1>5. ASSUME NEW id, NEW state \in TerminalStates, FinishAs(e, r, id, state)
      PROVE  WellFormedRecord(rec'[r]) /\ WellFormedThread(r, thr'[e][r])
  <2>1. CASE rec'[r] = Finished(rc, state) /\ thr'[e][r].pc = "sweep"
    BY <1>1, <1>2, <2>1, RecordShape DEF TurnPCs
  <2>2. CASE rec'[r] = rc /\ thr'[e][r] = Idle
    BY <1>1, <1>3, <2>2
  <2> QED
    BY <1>5, <2>1, <2>2, FinishExact
<1>6. ASSUME RejectUnfenced(e, r)
      PROVE  WellFormedRecord(rec'[r]) /\ WellFormedThread(r, thr'[e][r])
  <2>1. WellFormedRecord(Rejected(rc))
    BY <1>1, RecordShape DEF Rejected, TerminalStates
  <2> QED
    BY <1>1, <1>3, <1>6, <2>1, RejectExact
<1>7. CASE /\ UNCHANGED rec
           /\ \/ Exit(e, r)
              \/ \E pc \in {"pending", "check", "admitted"} : Goto(e, r, pc) /\ ~t.resumed
              \/ Goto(e, r, "run") /\ Bound(t)
  <2>1. CASE Exit(e, r)
    BY <1>1, <1>3, <1>7, <2>1, ExitExact
  <2>2. ASSUME NEW pc \in {"pending", "check", "admitted"}, Goto(e, r, pc), ~t.resumed
        PROVE  WellFormedThread(r, thr'[e][r])
    <3>1. thr'[e][r].pc = pc /\ ~thr'[e][r].resumed
      BY <2>2, GotoExact DEF PCs, SameWork
    <3> QED
      BY <1>2, <3>1 DEF TurnPCs
  <2> QED
    BY <1>1, <1>4, <1>7, <2>1, <2>2
<1>8. CASE AdmitIndex(e, r) \/ Enqueue(e, r) \/ Dequeue(e, r)
  BY <1>1, <1>7, <1>8
     DEF AdmitIndex, Enqueue, Dequeue, durable, WellFormedThread, Bound, TurnPCs, At
<1>9. CASE ClaimRefused(e, r) \/ TurnStopped(e, r) \/ DeferLost(e, r) \/ Sweep(e, r)
  BY <1>7, <1>9 DEF ClaimRefused, TurnStopped, DeferLost, Sweep, durable
<1>10. CASE TurnMove(e, r)
  <2>1. /\ UNCHANGED rec /\ SameWork(t, thr'[e][r])
        /\ t.pc \in TurnPCs /\ thr'[e][r].pc \in TurnPCs /\ "start" \notin TurnPCs
    BY <1>10, TurnMoves DEF TurnPCs
  <2> QED
    BY <1>1, <2>1 DEF WellFormedThread, Bound, SameWork
<1>12. CASE EnqueueReject(e, r) \/ CheckStale(e, r)
  BY <1>6, <1>12 DEF EnqueueReject, CheckStale
<1>13. CASE \/ CheckRecoveredCancel(e, r) \/ OpenCancelled(e, r) \/ RunEnds(e, r)
            \/ RunRaises(e, r) \/ DeferExhausted(e, r)
  <2>1. \E state \in TerminalStates :
           FinishAs(e, r, Id(e, r), state) \/ FinishAs(e, r, IdentityOf(rc), state)
    BY <1>13 DEF CheckRecoveredCancel, OpenCancelled, RunEnds, RunRaises, DeferExhausted,
                 TerminalStates
  <2> QED
    BY <1>5, <2>1
<1>14. CASE CheckCancelled(e, r)
  <2>1. Exit(e, r) /\ Write(r, CancelledOrMarked(rc)) /\ CancelledOrMarked(rc) \in Record
    BY <1>1, <1>14, RecordTypes DEF CheckCancelled
  <2>2. rec'[r] = CancelledOrMarked(rc) /\ thr'[e][r] = Idle
    BY <2>1, WriteFacts, ExitExact
  <2> QED
    BY <1>1, <1>3, <2>2, RecordShape
<1>15. CASE CheckPass(e, r)
  <2>1. thr'[e][r] = [t EXCEPT !.pc = "claim", !.revision = rc.revision] /\ UNCHANGED rec
    BY <1>15 DEF CheckPass, Become, TypeOK, durable
  <2>2. thr'[e][r].pc = "claim" /\ ~thr'[e][r].resumed
    BY <1>1, <1>15, <2>1 DEF Thread, CheckPass, At, WellFormedThread, Bound, TurnPCs
  <2> QED
    BY <1>1, <1>2, <2>1, <2>2 DEF TurnPCs
<1>16. CASE ClaimRecovered(e, r)
  <2>1. thr'[e][r] = [t EXCEPT !.pc = IF Session(r) THEN "turn" ELSE "start",
                               !.worker = rc.worker, !.attempt = rc.attempt,
                               !.revision = 0, !.resumed = TRUE] /\ UNCHANGED rec
    BY <1>16 DEF ClaimRecovered, Become, TypeOK
  <2>2. /\ thr'[e][r].pc = IF Session(r) THEN "turn" ELSE "start"
        /\ thr'[e][r].worker = rc.worker /\ thr'[e][r].attempt = rc.attempt
    BY <1>1, <2>1 DEF Thread
  <2>3. rc.state = "running"
    BY <1>16 DEF ClaimRecovered, Recovered, IsRecoveredDispatch
  <2> QED
    BY <1>1, <2>1, <2>2, <2>3 DEF WellFormedThread, WellFormedRecord, Bound, TurnPCs
<1>17. CASE ClaimAgain(e, r)
  <2>1. thr'[e][r].pc = "start" /\ SameWork(t, thr'[e][r]) /\ UNCHANGED rec /\ t.pc = "claim"
    BY <1>17, GotoExact DEF ClaimAgain, PCs, At
  <2> QED
    BY <1>1, <2>1 DEF WellFormedThread, Bound, SameWork, TurnPCs
<1>18. CASE ClaimFresh(e, r)
  <2>1. /\ thr'[e][r] = [t EXCEPT !.pc = "start", !.revision = rc.revision + 1] /\ t.pc = "claim"
        /\ Write(r, Claimed(rc, e)) /\ Claimed(rc, e) \in Record
    BY <1>1, <1>18, RecordTypes DEF ClaimFresh, CanClaimFresh, Become, TypeOK, At
  <2>2. thr'[e][r].pc = "start" /\ ~thr'[e][r].resumed
    BY <1>1, <2>1 DEF Thread, WellFormedThread, Bound, TurnPCs
  <2>3. WellFormedRecord(rec'[r])
    BY <1>1, <2>1, WriteFacts, RecordShape
  <2> QED
    BY <2>2, <2>3 DEF WellFormedThread, Bound, TurnPCs
<1>19. CASE StartBound(e, r) \/ Prepare(e, r)
  <2> DEFINE new == IF Session(r) THEN Prepared(rc, e) ELSE Started(rc, e)
  <2>1. CASE Exit(e, r) /\ UNCHANGED rec
    BY <1>7, <2>1
  <2>2. CASE ~(Exit(e, r) /\ UNCHANGED rec)
    <3>1. /\ Write(r, new) /\ rc.owner = e /\ t.pc = "start"
          /\ \E pc \in {"turn", "run"} :
                Become(e, r, [t EXCEPT !.pc = pc, !.worker = new.worker, !.attempt = new.attempt,
                                       !.revision = 0])
      <4>1. CASE StartBound(e, r)
        BY <2>2, <4>1 DEF StartBound, CanStart, At
      <4>2. CASE Prepare(e, r)
        BY <2>2, <4>2 DEF Prepare, CanPrepare, At
      <4> QED
        BY <1>19, <4>1, <4>2
    <3>2. /\ new \in Record /\ WellFormedRecord(new)
          /\ new.worker # NoWorker /\ new.attempt >= 1
      <4>1. new \in Record /\ WellFormedRecord(new)
        BY <1>1, <3>1, RecordTypes, RecordShape
      <4>2. rc.attempt + 1 >= 1 /\ WorkerFor(rc, e) # NoWorker
        BY <1>1, NewWorker DEF Record
      <4>3. new.worker = WorkerFor(rc, e) /\ new.attempt = rc.attempt + 1
        BY <1>1 DEF Prepared, Started, Written, Record
      <4> QED
        BY <4>1, <4>2, <4>3
    <3> HIDE DEF new
    <3>3. rec'[r] = new
      BY <3>1, <3>2, WriteFacts
    <3>4. /\ thr'[e][r].pc \in {"turn", "run"}
          /\ thr'[e][r].worker = new.worker /\ thr'[e][r].attempt = new.attempt
      BY <1>1, <3>1 DEF Thread, Become, TypeOK
    <3> QED
      BY <3>2, <3>3, <3>4 DEF WellFormedThread, Bound, TurnPCs
  <2> QED
    BY <2>1, <2>2
<1>20. CASE StartRecovered(e, r)
  <2>1. CASE FinishAs(e, r, IdentityOf(rc), "cancelled")
    BY <1>5, <2>1 DEF TerminalStates
  <2>2. CASE ~FinishAs(e, r, IdentityOf(rc), "cancelled")
    BY <1>7, <1>20, <2>2 DEF StartRecovered, durable, Bound, At
  <2> QED
    BY <2>1, <2>2
<1>21. CASE StartTurn(e, r)
  <2>1. /\ rc.owner = e /\ rc.worker = t.worker /\ rc.attempt = t.attempt /\ t.pc = "starting"
        /\ Write(r, IF rc.state = "queued" THEN TurnStarted(rc) ELSE rc)
        /\ Goto(e, r, "run") \/ Goto(e, r, "prompt") \/ Goto(e, r, "error")
    BY <1>21 DEF StartTurn, TurnPC, CanStartTurn, TurnAlreadyStarted, FenceHolds, IdentityOf, Id,
                 IdOf, At
  <2>2. Bound(t) /\ t.worker # NoWorker /\ t.attempt >= 1
    BY <1>1, <2>1 DEF Bound, WellFormedThread, TurnPCs
  <2>3. TurnStarted(rc) \in Record /\ WellFormedRecord(TurnStarted(rc))
    BY <1>1, <2>1, <2>2, RecordTypes, RecordShape
  <2>4. rec'[r] = IF rc.state = "queued" THEN TurnStarted(rc) ELSE rc
    BY <1>1, <2>1, <2>3, WriteFacts
  <2> QED
    BY <1>1, <1>4, <2>1, <2>2, <2>3, <2>4 DEF PCs
<1>22. CASE Defer(e, r)
  <2>1. Write(r, Deferred(rc)) /\ Deferred(rc) \in Record
    BY <1>1, <1>22, RecordTypes DEF Defer
  <2>2. WellFormedRecord(rec'[r])
    BY <1>1, <2>1, WriteFacts, RecordShape
  <2>3. CASE Exit(e, r)
    BY <1>3, <2>2, <2>3, ExitExact
  <2>4. CASE Become(e, r, [t EXCEPT !.pc = "timer", !.cancelled = FALSE])
    <3>1. thr'[e][r].pc = "timer"
      BY <1>1, <2>4 DEF Become, TypeOK, Thread
    <3> QED
      BY <1>2, <2>2, <3>1 DEF TurnPCs
  <2> QED
    BY <1>22, <2>3, <2>4 DEF Defer
<1>23. CASE TimerFires(e, r)
  <2>1. CASE Exit(e, r)
    BY <1>7, <1>23, <2>1 DEF TimerFires, durable
  <2>2. CASE Become(e, r, [Idle EXCEPT !.pc = "check", !.observe = t.observe])
    <3>1. thr'[e][r].pc = "check" /\ ~thr'[e][r].resumed /\ UNCHANGED rec
      BY <1>23, <2>2 DEF TimerFires, Become, TypeOK, Idle, durable
    <3> QED
      BY <1>1, <1>2, <3>1 DEF TurnPCs
  <2> QED
    BY <1>23, <2>1, <2>2 DEF TimerFires
<1> QED
  BY <1>8, <1>9, <1>10, <1>12, <1>13, <1>14, <1>15, <1>16, <1>17, <1>18, <1>19, <1>20, <1>21,
     <1>22, <1>23 DEF ThreadStep, TurnMove

-----------------------------------------------------------------------------
(* A thread whose generation does not own the record, and which is not     *)
(* about to claim one that nobody owns, can at most cancel or reject.      *)
Cut(rc, new) ==
    \/ new = rc
    \/ new = CancelledOrMarked(rc)
    \/ rc.state = "queued" /\ new = Rejected(rc)
    \/ rc.state = "running" /\ new = Finished(rc, "cancelled")

LEMMA FencedStep ==
    ASSUME TypeOK, NEW e \in Epochs, NEW r \in Requests, ThreadStep(e, r),
           rec[r].owner # e, rec[r].owner = NoEpoch => thr[e][r].pc # "claim"
    PROVE  Cut(rec[r], rec'[r])
<1> DEFINE rc == rec[r]
<1>1. rc \in Record
  BY DEF TypeOK
<1>2. CASE rec'[r] = rc
  BY <1>2 DEF Cut
<1>3. ~FenceHolds(rc, Id(e, r)) /\ ~Recovered(e, r)
  BY DEF FenceHolds, IdentityOf, Id, IdOf, Recovered, IsRecoveredDispatch
<1>4. CASE \/ AdmitIndex(e, r) \/ Enqueue(e, r) \/ Dequeue(e, r) \/ CheckPass(e, r)
           \/ ClaimRecovered(e, r) \/ ClaimRefused(e, r) \/ ClaimAgain(e, r)
           \/ TurnStopped(e, r) \/ TurnMove(e, r)
           \/ DeferLost(e, r) \/ TimerFires(e, r) \/ Sweep(e, r)
  BY <1>2, <1>4, TurnMoves
     DEF AdmitIndex, Enqueue, Dequeue, CheckPass, ClaimRecovered, ClaimRefused, ClaimAgain,
         TurnStopped, DeferLost, TimerFires, Sweep, durable
<1>5. CASE EnqueueReject(e, r) \/ CheckStale(e, r)
  BY <1>5, RejectExact DEF EnqueueReject, CheckStale, Cut
<1>6. CASE CheckCancelled(e, r)
  <2>1. Write(r, CancelledOrMarked(rc)) /\ CancelledOrMarked(rc) \in Record
    BY <1>1, <1>6, RecordTypes DEF CheckCancelled
  <2> QED
    BY <2>1, WriteFacts DEF Cut
<1>7. CASE OpenCancelled(e, r) \/ RunEnds(e, r) \/ RunRaises(e, r) \/ DeferExhausted(e, r)
  <2>1. PICK state \in TerminalStates : FinishAs(e, r, Id(e, r), state)
    BY <1>7 DEF OpenCancelled, RunEnds, RunRaises, DeferExhausted, TerminalStates
  <2>2. ~CanFinish(rc, Id(e, r), state)
    BY <1>3 DEF CanFinish
  <2> QED
    BY <1>2, <2>1, <2>2, FinishExact
<1>8. CASE StartRecovered(e, r)
  <2>1. CASE rc.state = "running" /\ rc.cancel
    <3>1. FinishAs(e, r, IdentityOf(rc), "cancelled") /\ "cancelled" \in TerminalStates
      BY <1>8, <2>1 DEF StartRecovered, TerminalStates
    <3> QED
      BY <2>1, <3>1, FinishExact DEF Cut
  <2>2. CASE ~(rc.state = "running" /\ rc.cancel)
    BY <1>2, <1>8, <2>2 DEF StartRecovered, durable
  <2> QED
    BY <2>1, <2>2
<1>9. CASE StartBound(e, r) \/ Prepare(e, r)
  BY <1>2, <1>9 DEF StartBound, Prepare, CanStart, CanPrepare
<1>10. ~CheckRecoveredCancel(e, r) /\ ~StartTurn(e, r) /\ ~Defer(e, r)
  BY <1>3 DEF CheckRecoveredCancel, StartTurn, Defer, CanStartTurn, TurnAlreadyStarted, CanDefer
<1>11. ~ClaimFresh(e, r)
  BY DEF ClaimFresh, CanClaimFresh, CanClaim, At
<1> QED
  BY <1>4, <1>5, <1>6, <1>7, <1>8, <1>9, <1>10, <1>11 DEF ThreadStep, TurnMove

(* What a cut leaves of an unfinished record: at most a cancellation mark  *)
(* on running work.                                                        *)
Marked(rc, new) ==
    \/ new = rc
    \/ /\ rc.state = "running" /\ new.state = rc.state
       /\ IdentityOf(new) = IdentityOf(rc) /\ new.recovery = rc.recovery

LEMMA CutFacts ==
    ASSUME NEW rc \in Record, NEW new, Cut(rc, new)
    PROVE  /\ IdentityOf(new) = IdentityOf(rc)
           /\ new.state \in {rc.state, "cancelled", "rejected"}
           /\ new.state \in Nonterminal => Marked(rc, new)
<1> USE DEF IdentityOf, Marked, Written
<1>1. CASE new = rc
  BY <1>1
<1>2. CASE new = CancelledOrMarked(rc)
  BY <1>2 DEF CancelledOrMarked, CancelChanges, Record, Nonterminal
<1>3. CASE rc.state = "queued" /\ new = Rejected(rc)
  BY <1>3 DEF Rejected, Finished, Record, Nonterminal
<1>4. CASE rc.state = "running" /\ new = Finished(rc, "cancelled")
  BY <1>4 DEF Finished, Record, Nonterminal
<1> QED
  BY <1>1, <1>2, <1>3, <1>4 DEF Cut

(* A mark, or a thread that is told of the cancellation, changes nothing   *)
(* about the hold a generation has on the request.                         *)
LEMMA MarkedHolds ==
    ASSUME NEW e, NEW rc, NEW new, NEW t, NEW u, Holds(e, rc, t), Marked(rc, new),
           u.pc = t.pc, SameWork(t, u)
    PROVE  Holds(e, new, u)
<1>1. CASE new = rc
  BY <1>1 DEF Holds, Bound, SameWork, IdOf
<1>2. CASE new # rc
  <2>1. /\ rc.state = "running" /\ new.state = "running" /\ IdentityOf(new) = IdentityOf(rc)
        /\ new.recovery = rc.recovery /\ new.owner = rc.owner
    BY <1>2 DEF Marked, IdentityOf
  <2> QED
    BY <2>1 DEF Holds, Bound, SameWork, IdOf
<1> QED
  BY <1>1, <1>2

-----------------------------------------------------------------------------
(* A step of the thread that the serving generation e has for a request    *)
(* it may own, while the request stays unfinished.                         *)
LEMMA HeldStep ==
    ASSUME TypeOK, NEW e \in Epochs, NEW r \in Requests, WellFormed(r), Live(e),
           SweepAfterOutcome(r), Unfinished(r), rec[r].owner \in {NoEpoch, e},
           Holds(e, rec[r], thr[e][r]), ThreadStep(e, r), rec'[r].state \in Nonterminal
    PROVE  rec'[r].owner \in {rec[r].owner, e} /\ Holds(e, rec'[r], thr'[e][r])
<1> USE DEF TurnPCs, Submitting
<1> DEFINE rc == rec[r]
           t == thr[e][r]
<1>1. /\ rc \in Record /\ t \in Thread /\ e # NoEpoch /\ rc.state \in Nonterminal
      /\ WellFormedRecord(rc) /\ WellFormedThread(r, t)
      /\ rc.owner \in {NoEpoch, e} /\ Holds(e, rc, t)
  BY EpochAssumption DEF TypeOK, WellFormed, Epochs, NoEpoch, Unfinished
<1>2. \A s \in TerminalStates : s \notin Nonterminal
  BY DEF TerminalStates, Nonterminal
<1>3. Holds(e, rc, Idle) <=> rc.owner = NoEpoch
  BY DEF Holds, Idle, BeforeQueue, Bound
(* The thread leaves the record as it is and moves on.                     *)
<1>4. ASSUME NEW pc \in PCs, Goto(e, r, pc), UNCHANGED rec,
             \A u : (u.pc = pc /\ SameWork(t, u)) => Holds(e, rc, u)
      PROVE  rec'[r].owner \in {rc.owner, e} /\ Holds(e, rec'[r], thr'[e][r])
  BY <1>4, GotoExact
<1>5. CASE AdmitIndex(e, r)
  <2>1. \A u : (u.pc = "admitted" /\ SameWork(t, u)) => Holds(e, rc, u)
    BY <1>1, <1>5 DEF AdmitIndex, At, Holds, Bound, BeforeQueue
  <2> QED
    BY <1>4, <1>5, <2>1 DEF AdmitIndex, PCs
<1>6. CASE Enqueue(e, r)
  <2>1. rc.state = "queued"
    BY <1>1, <1>6 DEF Enqueue, At, Holds, BeforeQueue, WellFormedRecord, Nonterminal
  <2>2. \A u : (u.pc = "pending" /\ SameWork(t, u)) => Holds(e, rc, u)
    BY <2>1 DEF Holds, Bound, BeforeQueue
  <2> QED
    BY <1>4, <1>6, <2>2 DEF Enqueue, PCs, durable
<1>7. CASE Dequeue(e, r)
  <2>1. rc.state = "running" => rc.recovery
    BY <1>1, <1>7 DEF Dequeue, Holds
  <2>2. \A u : (u.pc = "check" /\ SameWork(t, u)) => Holds(e, rc, u)
    BY <2>1 DEF Holds, Bound, BeforeQueue
  <2> QED
    BY <1>4, <1>7, <2>2 DEF Dequeue, PCs, durable
<1>8. CASE CheckPass(e, r)
  <2>1. thr'[e][r] = [t EXCEPT !.pc = "claim", !.revision = rc.revision] /\ UNCHANGED rec
    BY <1>8 DEF CheckPass, Become, TypeOK, durable
  <2>2. thr'[e][r].pc = "claim" /\ thr'[e][r].revision = rc.revision
    BY <1>1, <2>1 DEF Thread
  <2>3. rc.state = "running" => rc.recovery
    BY <1>1, <1>8 DEF CheckPass, At, Holds
  <2> QED
    BY <2>1, <2>2, <2>3 DEF Holds, Bound, BeforeQueue
<1>9. CASE ClaimRecovered(e, r)
  <2>1. thr'[e][r] = [t EXCEPT !.pc = IF Session(r) THEN "turn" ELSE "start",
                               !.worker = rc.worker, !.attempt = rc.attempt,
                               !.revision = 0, !.resumed = TRUE] /\ UNCHANGED rec
    BY <1>9 DEF ClaimRecovered, Become, TypeOK
  <2>2. /\ thr'[e][r].pc = IF Session(r) THEN "turn" ELSE "start"
        /\ thr'[e][r].worker = rc.worker /\ thr'[e][r].attempt = rc.attempt
        /\ thr'[e][r].resumed
    BY <1>1, <2>1 DEF Thread
  <2>3. rc.state = "running" /\ rc.owner = e
    BY <1>9 DEF ClaimRecovered, Recovered, IsRecoveredDispatch
  <2> QED
    BY <2>1, <2>2, <2>3 DEF Holds, Bound, BeforeQueue, IdentityOf, IdOf
<1>10. CASE ClaimRefused(e, r)
  <2>1. thr'[e][r] = Idle /\ UNCHANGED rec
    BY <1>10, ExitExact DEF ClaimRefused, durable
  <2>2. rc.owner = NoEpoch
    BY <1>1, <1>10 DEF ClaimRefused, At, Holds, CanClaim, Recovered, IsRecoveredDispatch,
                       Nonterminal, WellFormedRecord
  <2> QED
    BY <1>3, <2>1, <2>2
<1>11. CASE ClaimAgain(e, r)
  <2>1. rc.state = "queued" /\ rc.owner = e /\ t.revision = rc.revision /\ ~t.resumed
    BY <1>1, <1>11 DEF ClaimAgain, CanClaim, AlreadyClaimed, At, WellFormedThread, Bound
  <2>2. \A u : (u.pc = "start" /\ SameWork(t, u)) => Holds(e, rc, u)
    BY <2>1 DEF Holds, Bound, BeforeQueue, SameWork
  <2> QED
    BY <1>4, <1>11, <2>2 DEF ClaimAgain, PCs
<1>12. CASE ClaimFresh(e, r)
  <2>1. /\ thr'[e][r] = [t EXCEPT !.pc = "start", !.revision = rc.revision + 1] /\ t.pc = "claim"
        /\ Write(r, Claimed(rc, e)) /\ Claimed(rc, e) \in Record /\ rc.state = "queued"
    BY <1>1, <1>12, RecordTypes
       DEF ClaimFresh, CanClaimFresh, CanClaim, Become, TypeOK, At
  <2>2. thr'[e][r].pc = "start" /\ ~thr'[e][r].resumed /\ thr'[e][r].revision = rc.revision + 1
    BY <1>1, <2>1 DEF Thread, WellFormedThread, Bound
  <2>3. /\ rec'[r].state = "queued" /\ rec'[r].owner = e /\ rec'[r].revision = rc.revision + 1
    <3>1. rec'[r] = Claimed(rc, e)
      BY <2>1, WriteFacts
    <3> QED
      BY <1>1, <2>1, <3>1 DEF Claimed, Written, Record
  <2> QED
    BY <2>2, <2>3 DEF Holds, Bound, BeforeQueue
<1>13. CASE EnqueueReject(e, r) \/ CheckStale(e, r)
  <2>1. rc.state = "queued"
    BY <1>1, <1>13 DEF EnqueueReject, CheckStale, At, Holds, BeforeQueue, WellFormedRecord,
                       Recovered, IsRecoveredDispatch, Nonterminal
  <2>2. rec'[r].state = "rejected"
    BY <1>13, <2>1, RejectExact DEF EnqueueReject, CheckStale
  <2> QED
    BY <2>2 DEF Nonterminal
(* A terminal write that the fence and the workflow let through.           *)
<1>14. ASSUME NEW id, NEW state \in TerminalStates, FinishAs(e, r, id, state),
              id = IdentityOf(rc), rc.owner # NoEpoch, rc.worker # NoWorker, rc.attempt >= 1,
              TransitionAllowed(rc.state, state)
       PROVE  FALSE
  <2>1. CanFinish(rc, id, state)
    BY <1>14 DEF CanFinish, FenceHolds, IdentityOf
  <2> QED
    BY <1>2, <1>14, <2>1, FinishExact
<1>15. \A state \in {"failed", "cancelled", "interrupted"} :
          state \in TerminalStates /\ TransitionAllowed(rc.state, state)
  BY <1>1 DEF TerminalStates, TransitionAllowed, Successors, Nonterminal
<1>16. CASE CheckRecoveredCancel(e, r)
  <2>1. rc.state = "running" /\ FinishAs(e, r, IdentityOf(rc), "cancelled")
    BY <1>16 DEF CheckRecoveredCancel, Recovered, IsRecoveredDispatch
  <2> QED
    BY <1>1, <1>14, <1>15, <2>1 DEF WellFormedRecord
<1>17. CASE CheckCancelled(e, r)
  <2>1. rc.state = "queued" /\ Write(r, CancelledOrMarked(rc)) /\ CancelledOrMarked(rc) \in Record
    BY <1>1, <1>17, RecordTypes
       DEF CheckCancelled, At, Holds, WellFormedRecord, Recovered, IsRecoveredDispatch, Nonterminal
  <2>2. rec'[r].state = "cancelled"
    BY <1>1, <2>1, WriteFacts, RecordEffects
  <2> QED
    BY <2>2 DEF Nonterminal
<1>18. CASE StartBound(e, r)
  <2> DEFINE new == Started(rc, e)
  <2>1. rc.state = "queued" /\ rc.owner = e /\ t.revision = rc.revision
    BY <1>1, <1>18 DEF StartBound, At, Holds
  <2>2. CanStart(rc, e, t.revision)
    BY <2>1 DEF CanStart, TransitionAllowed, Successors
  <2>3. /\ Write(r, new)
        /\ Become(e, r, [t EXCEPT !.pc = "run", !.worker = new.worker, !.attempt = new.attempt,
                                  !.revision = 0])
    BY <1>18, <2>2 DEF StartBound
  <2>4. new \in Record /\ new.state = "running" /\ new.owner = e
    BY <1>1, <2>1, RecordTypes, RecordEffects
  <2> HIDE DEF new
  <2>5. rec'[r] = new
    BY <2>3, <2>4, WriteFacts
  <2>6. /\ thr'[e][r].pc = "run"
        /\ thr'[e][r].worker = new.worker /\ thr'[e][r].attempt = new.attempt
    BY <1>1, <2>3 DEF Become, TypeOK, Thread
  <2> QED
    BY <2>4, <2>5, <2>6 DEF Holds, Bound, BeforeQueue, IdentityOf, IdOf
<1>19. CASE Prepare(e, r)
  <2> DEFINE new == Prepared(rc, e)
  <2>1. rc.state = "queued" /\ rc.owner = e /\ t.revision = rc.revision /\ ~rc.cancel
    BY <1>1, <1>19 DEF Prepare, At, Holds, WellFormedThread, WellFormedRecord
  <2>2. /\ Write(r, new)
        /\ Become(e, r, [t EXCEPT !.pc = "turn", !.worker = new.worker, !.attempt = new.attempt,
                                  !.revision = 0])
    BY <1>19, <2>1 DEF Prepare, CanPrepare
  <2>3. new \in Record /\ new.owner = e
    BY <1>1, <2>1, RecordTypes, RecordEffects
  <2> HIDE DEF new
  <2>4. rec'[r] = new
    BY <2>2, <2>3, WriteFacts
  <2>5. /\ thr'[e][r].pc = "turn"
        /\ thr'[e][r].worker = new.worker /\ thr'[e][r].attempt = new.attempt
    BY <1>1, <2>2 DEF Become, TypeOK, Thread
  <2> QED
    BY <2>3, <2>4, <2>5 DEF Holds, Bound, BeforeQueue, IdentityOf, IdOf
(* From here on the thread has an identity, and it is the record's.        *)
<1>20. ASSUME Bound(t)
       PROVE  /\ IdentityOf(rc) = Id(e, r) /\ rc.owner = e
              /\ rc.worker # NoWorker /\ rc.attempt >= 1
  <2>1. IdentityOf(rc) = IdOf(e, t) /\ t.worker # NoWorker /\ t.attempt >= 1
    BY <1>1, <1>20 DEF Holds, WellFormedThread
  <2> QED
    BY <2>1 DEF IdentityOf, IdOf, Id
<1>21. ASSUME NEW u, Bound(t), u.pc \in TurnPCs, SameWork(t, u),
              u.pc \in Submitting => rc.state = "running"
       PROVE  Holds(e, rc, u)
  BY <1>20, <1>21 DEF Holds, Bound, BeforeQueue, SameWork, IdOf, Id
<1>23. CASE StartRecovered(e, r)
  <2>1. Bound(t) /\ rc.state = "running"
    BY <1>1, <1>23 DEF StartRecovered, At, Bound, Holds
  <2>2. CASE FinishAs(e, r, IdentityOf(rc), "cancelled")
    BY <1>1, <1>14, <1>15, <2>1, <2>2 DEF WellFormedRecord
  <2>3. CASE Goto(e, r, "run") /\ UNCHANGED rec
    BY <1>4, <1>21, <2>1, <2>3 DEF PCs
  <2> QED
    BY <1>23, <2>2, <2>3 DEF StartRecovered, durable
<1>24. CASE TurnStopped(e, r) \/ Sweep(e, r)
  BY <1>1, <1>2, <1>24 DEF TurnStopped, Sweep, SweepAfterOutcome, At
<1>25. CASE TurnMove(e, r)
  <2>1. /\ UNCHANGED rec /\ SameWork(t, thr'[e][r])
        /\ t.pc \in TurnPCs /\ thr'[e][r].pc \in TurnPCs
        /\ thr'[e][r].pc \in Submitting => t.pc \in Submitting \/ rc.state # "queued"
    BY <1>25, TurnMoves
  <2>2. t.pc \in Submitting \/ rc.state # "queued" => rc.state = "running"
    BY <1>1 DEF Holds, Nonterminal
  <2> QED
    BY <1>21, <2>1, <2>2 DEF Bound
<1>27. CASE StartTurn(e, r)
  <2>1. /\ Bound(t) /\ Write(r, IF rc.state = "queued" THEN TurnStarted(rc) ELSE rc)
        /\ Goto(e, r, "run") \/ Goto(e, r, "prompt") \/ Goto(e, r, "error")
    BY <1>27 DEF StartTurn, TurnPC, Bound, At
  <2>2. /\ TurnStarted(rc) \in Record /\ TurnStarted(rc).state = "running"
        /\ IdentityOf(TurnStarted(rc)) = IdentityOf(rc)
    <3>1. IdentityOf(TurnStarted(rc)) = IdentityOf(rc)
      BY <1>1 DEF TurnStarted, Written, IdentityOf, Record
    <3> QED
      BY <1>1, <3>1, RecordTypes, RecordEffects
  <2>3. rec'[r].state = "running" /\ IdentityOf(rec'[r]) = IdentityOf(rc)
    <3>1. rec'[r] = IF rc.state = "queued" THEN TurnStarted(rc) ELSE rc
      BY <1>1, <2>1, <2>2, WriteFacts
    <3> QED
      BY <1>1, <2>2, <3>1 DEF Nonterminal
  <2>4. rec'[r].owner = e /\ IdentityOf(rec'[r]) = IdOf(e, t)
    BY <1>20, <2>1, <2>3 DEF IdentityOf, Id
  <2>5. thr'[e][r].pc \in {"run", "prompt", "error"} /\ SameWork(t, thr'[e][r])
    BY <2>1, GotoExact DEF PCs
  <2> QED
    BY <2>3, <2>4, <2>5 DEF Holds, Bound, BeforeQueue, SameWork, IdOf
<1>28. CASE OpenCancelled(e, r) \/ RunRaises(e, r) \/ DeferExhausted(e, r)
  <2>1. /\ Bound(t)
        /\ \E state \in {"failed", "cancelled", "interrupted"} : FinishAs(e, r, Id(e, r), state)
    BY <1>28 DEF OpenCancelled, RunRaises, DeferExhausted, Bound, At
  <2> QED
    BY <1>1, <1>14, <1>15, <1>20, <2>1
<1>29. CASE RunEnds(e, r)
  <2>1. Bound(t) /\ rc.state = "running"
    BY <1>1, <1>29 DEF RunEnds, At, Bound, Holds
  <2>2. PICK state \in {"completed", "failed", "cancelled"} : FinishAs(e, r, Id(e, r), state)
    BY <1>29 DEF RunEnds
  <2>3. state \in TerminalStates /\ TransitionAllowed(rc.state, state)
    BY <2>1 DEF TerminalStates, TransitionAllowed, Successors
  <2> QED
    BY <1>1, <1>14, <1>20, <2>1, <2>2, <2>3
<1>30. CASE Defer(e, r)
  <2>1. /\ Bound(t) /\ Write(r, Deferred(rc))
        /\ Become(e, r, [t EXCEPT !.pc = "timer", !.cancelled = FALSE])
    BY <1>30 DEF Defer, Bound, At
  <2>2. rec'[r] = Deferred(rc)
    BY <1>1, <2>1, RecordTypes, WriteFacts
  <2>3. /\ IdentityOf(rec'[r]) = IdentityOf(rc) /\ rec'[r].owner = rc.owner
        /\ rec'[r].state = "running" => rec'[r].recovery
    BY <1>1, <2>2 DEF Deferred, Written, IdentityOf, Record
  <2>4. thr'[e][r].pc = "timer" /\ SameWork(t, thr'[e][r])
    BY <1>1, <2>1 DEF Become, TypeOK, Thread, SameWork
  <2> QED
    BY <1>20, <2>1, <2>3, <2>4 DEF Holds, Bound, BeforeQueue, SameWork, IdOf, Id
<1>31. CASE DeferLost(e, r)
  <2>1. Bound(t) /\ ~CanDefer(rc, Id(e, r))
    BY <1>31 DEF DeferLost, Bound, At
  <2> QED
    BY <1>1, <1>20, <2>1 DEF CanDefer, FenceHolds
<1>32. CASE TimerFires(e, r)
  <2>1. t.pc = "timer" /\ IdentityOf(rc) = Id(e, r) /\ (rc.state = "running" => rc.recovery)
    BY <1>1, <1>32 DEF TimerFires, At, Holds, Id
  <2>2. Become(e, r, [Idle EXCEPT !.pc = "check", !.observe = t.observe]) /\ UNCHANGED rec
    BY <1>1, <1>32, <2>1 DEF TimerFires, FenceHolds, durable
  <2>3. thr'[e][r].pc = "check"
    BY <2>2 DEF Become, TypeOK, Idle
  <2> QED
    BY <2>1, <2>2, <2>3 DEF Holds, Bound, BeforeQueue
<1> QED
  BY <1>5, <1>6, <1>7, <1>8, <1>9, <1>10, <1>11, <1>12, <1>13, <1>16, <1>17, <1>18, <1>19, <1>23,
     <1>24, <1>25, <1>27, <1>28, <1>29, <1>30, <1>31, <1>32 DEF ThreadStep, TurnMove

-----------------------------------------------------------------------------
(* Every step keeps custody.                                               *)
SameService == epoch' = epoch /\ service' = service

LEMMA EpochServes ==
    ASSUME IInv
    PROVE  /\ TypeOK /\ epoch \in Nat
           /\ service # "down" => epoch \in Epochs
           /\ \A r \in Requests : WorkTracked(r) /\ rec[r] \in Record
           /\ \A e \in Epochs : e \in Nat /\ e # NoEpoch
  BY EpochAssumption DEF IInv, TypeOK, Generations, ServiceHasEpoch, Epochs, NoEpoch

LEMMA HeldFrame ==
    ASSUME IInv, NEW r \in Requests, Local(r), SameService, Custody, Held(r)'
    PROVE  Custody'
<1> SUFFICES ASSUME NEW q \in Requests, q # r PROVE Held(q)'
  BY DEF Custody
<1>1. /\ rec'[q] = rec[q] /\ scan'[q] = scan[q]
      /\ \A f \in Epochs : thr'[f][q] = thr[f][q]
      /\ epoch' = epoch /\ service' = service
      /\ service # "down" => epoch \in Epochs
  BY EpochServes DEF Local, SameService
<1>2. WellFormed(q) /\ PassKeeps(q) /\ ServingKeeps(q)
  BY DEF Custody, Held
<1>3. WellFormed(q)'
  BY <1>1, <1>2 DEF WellFormed
<1>4. PassKeeps(q)'
  BY <1>1, <1>2 DEF PassKeeps, Adopted, LeftAlone, Unfinished, At
<1>5. ServingKeeps(q)'
  BY <1>1, <1>2 DEF ServingKeeps, Unfinished
<1> QED
  BY <1>3, <1>4, <1>5 DEF Held

(* A submission that is not yet queued stays so once its generation ended. *)
LEMMA EarlyStep ==
    ASSUME TypeOK, NEW e \in Epochs, NEW r \in Requests, ThreadStep(e, r), ~Live(e),
           thr[e][r].pc \in BeforeQueue
    PROVE  thr'[e][r].pc \in BeforeQueue
<1>1. AdmitIndex(e, r) \/ Enqueue(e, r) \/ EnqueueReject(e, r)
  <2>1. ~TurnMove(e, r)
    BY TurnMoves DEF BeforeQueue, TurnPCs
  <2> QED
    BY <2>1
       DEF ThreadStep, TurnMove, BeforeQueue, At, Dequeue, CheckRecoveredCancel, CheckCancelled,
           CheckStale, CheckPass, ClaimRecovered, ClaimRefused, ClaimAgain, ClaimFresh,
           CanClaimFresh, StartBound, StartRecovered, Prepare, TurnStopped, OpenCancelled,
           StartTurn, RunEnds, RunRaises, DeferExhausted, Defer, DeferLost, TimerFires, Sweep
<1>2. Goto(e, r, "admitted") \/ Exit(e, r)
  BY <1>1 DEF AdmitIndex, Enqueue, EnqueueReject, RejectUnfenced
<1>3. thr'[e][r].pc \in {"admitted", "idle"}
  BY <1>2, GotoExact, ExitExact DEF PCs, Idle
<1> QED
  BY <1>3 DEF BeforeQueue

LEMMA ThreadStepKeeps ==
    ASSUME IInv, Custody, NEW e \in Epochs, NEW r \in Requests, ThreadStep(e, r)
    PROVE  Custody'
<1>1. /\ TypeOK /\ rec[r] \in Record /\ epoch \in Nat /\ e # NoEpoch
      /\ service # "down" => epoch \in Epochs
      /\ WellFormed(r) /\ PassKeeps(r) /\ ServingKeeps(r) /\ SweepAfterOutcome(r)
  BY EpochServes DEF Custody, Held, WorkTracked
<1>2. /\ RecordEffect(e, r) /\ WorkEffect(e, r) /\ OtherThreadsSame(e, r) /\ ~At(e, r, "idle")
      /\ epoch' = epoch /\ service' = service /\ scan' = scan
  BY <1>1, ThreadStepEffect DEF Effect, ThreadEffect, lifeVars
<1>3. Local(r) /\ SameService
  BY <1>2 DEF Local, SameService, RecordEffect, WorkEffect, OtherThreadsSame
<1>4. \A f \in Epochs \ {e} : thr'[f][r] = thr[f][r]
  BY <1>2 DEF OtherThreadsSame
<1>5. /\ Unfinished(r)' => Unfinished(r)
      /\ rec'[r].owner = rec[r].owner \/ rec'[r].owner = e
  BY <1>2 DEF RecordEffect, Kept, ClaimedBy, Begun, Resolved, Unfinished, Nonterminal, TerminalStates
<1>6. WellFormed(r)'
  BY <1>1, <1>4, ThreadShape DEF WellFormed
(* A thread that does not own the record leaves it, but for a mark.        *)
<1>7. ASSUME Unfinished(r)', rec[r].owner # e, rec[r].owner = NoEpoch => thr[e][r].pc # "claim"
      PROVE  /\ Marked(rec[r], rec'[r]) /\ rec'[r].owner = rec[r].owner
             /\ rec'[r].state = rec[r].state /\ rec'[r].recovery = rec[r].recovery
  <2>1. Cut(rec[r], rec'[r])
    BY <1>1, <1>7, FencedStep
  <2>2. Marked(rec[r], rec'[r]) /\ IdentityOf(rec'[r]) = IdentityOf(rec[r])
    BY <1>1, <1>7, <2>1, CutFacts DEF Unfinished
  <2> QED
    BY <2>2 DEF Marked, IdentityOf
<1>8. PassKeeps(r)'
  <2>1. CASE service # "recovering"
    BY <1>1, <1>2, <1>5, <2>1 DEF PassKeeps
  <2>2. CASE service = "recovering"
    <3>1. e # epoch /\ ~Live(e) /\ epoch \in Epochs /\ At(epoch, r, "idle")'
      BY <1>1, <1>2, <1>4, <2>2 DEF PassKeeps, Live, At
    <3>2. (scan[r].pc \in {"todo", "found"} /\ Unfinished(r)') => rec'[r].owner # epoch
      BY <1>1, <1>5, <2>2, <3>1 DEF PassKeeps
    <3>3. ASSUME scan[r].pc \in {"settle", "repair", "done"}, Unfinished(r)'
          PROVE  Adopted(r)' \/ LeftAlone(r)'
      <4>1. CASE Adopted(r)
        <5>1. rec[r].owner # e /\ rec[r].owner # NoEpoch
          BY <1>1, <2>2, <3>1, <4>1, EpochServes DEF Adopted
        <5> QED
          BY <1>2, <1>7, <3>3, <4>1, <5>1 DEF Adopted
      <4>2. CASE LeftAlone(r)
        <5>1. /\ rec[r].owner = NoEpoch /\ thr[e][r].pc \in BeforeQueue
              /\ thr'[e][r].pc \in BeforeQueue
          BY <1>1, <3>1, <4>2, EarlyStep DEF LeftAlone
        <5>2. rec'[r].owner = NoEpoch
          BY <1>1, <1>7, <3>3, <5>1 DEF BeforeQueue
        <5> QED
          BY <1>2, <1>4, <4>2, <5>1, <5>2 DEF LeftAlone
      <4> QED
        BY <1>1, <1>5, <2>2, <3>3, <4>1, <4>2 DEF PassKeeps
    <3> QED
      BY <1>1, <1>2, <1>5, <2>2, <3>1, <3>2, <3>3 DEF PassKeeps
  <2> QED
    BY <2>1, <2>2
<1>9. ServingKeeps(r)'
  <2> SUFFICES ASSUME service = "serving", Unfinished(r)'
               PROVE  /\ rec'[r].owner \in {NoEpoch, epoch}
                      /\ rec'[r].owner = NoEpoch =>
                           \A f \in Epochs \ {epoch} : thr'[f][r].pc \in BeforeQueue
                      /\ Holds(epoch, rec'[r], thr'[epoch][r])
    BY <1>2 DEF ServingKeeps
  <2>1. /\ epoch \in Epochs /\ rec[r].owner \in {NoEpoch, epoch} /\ Unfinished(r)
        /\ rec[r].owner = NoEpoch =>
             \A f \in Epochs \ {epoch} : thr[f][r].pc \in BeforeQueue
        /\ Holds(epoch, rec[r], thr[epoch][r])
    BY <1>1, <1>5 DEF ServingKeeps
  <2>2. CASE e = epoch
    <3>1. rec'[r].owner \in {rec[r].owner, e} /\ Holds(e, rec'[r], thr'[e][r])
      BY <1>1, <2>1, <2>2, HeldStep DEF Live, Unfinished
    <3> QED
      BY <1>1, <1>4, <2>1, <2>2, <3>1
  <2>3. CASE e # epoch
    <3>1. /\ Marked(rec[r], rec'[r]) /\ rec'[r].owner = rec[r].owner
      BY <1>1, <1>7, <2>1, <2>3 DEF BeforeQueue
    <3>2. thr'[epoch][r] = thr[epoch][r]
      BY <1>4, <2>1, <2>3
    <3>3. Holds(epoch, rec'[r], thr'[epoch][r])
      BY <2>1, <3>1, <3>2, MarkedHolds DEF SameWork
    <3>4. rec[r].owner = NoEpoch => thr'[e][r].pc \in BeforeQueue
      BY <1>1, <2>1, <2>3, EarlyStep DEF Live
    <3> QED
      BY <1>4, <2>1, <3>1, <3>3, <3>4
  <2> QED
    BY <2>2, <2>3
<1> QED
  BY <1>3, <1>6, <1>8, <1>9, HeldFrame DEF Held

(* Writes from outside the queue: what stays unfinished is at most marked, *)
(* and its threads go on where they were.                                  *)
LEMMA OutsideKeeps ==
    ASSUME IInv, Custody, NEW r \in Requests, Local(r), SameService, scan' = scan,
           WellFormed(r)',
           service = "recovering" => thr'[epoch][r] = thr[epoch][r],
           rec'[r].state \in Nonterminal =>
               /\ Unfinished(r) /\ Marked(rec[r], rec'[r])
               /\ \A f \in Epochs : thr'[f][r].pc = thr[f][r].pc /\ SameWork(thr[f][r], thr'[f][r])
    PROVE  Custody'
<1>1. /\ PassKeeps(r) /\ ServingKeeps(r) /\ epoch' = epoch /\ service' = service
      /\ service # "down" => epoch \in Epochs
  BY EpochServes DEF Custody, Held, SameService
<1>2. Unfinished(r)' =>
         /\ Unfinished(r) /\ rec'[r].owner = rec[r].owner /\ rec'[r].state = rec[r].state
         /\ rec'[r].recovery = rec[r].recovery
         /\ \A f \in Epochs : thr'[f][r].pc = thr[f][r].pc
  BY DEF Unfinished, Marked, IdentityOf
<1>3. PassKeeps(r)'
  BY <1>1, <1>2 DEF PassKeeps, Adopted, LeftAlone, At
<1>4. ServingKeeps(r)'
  <2> SUFFICES ASSUME service = "serving", Unfinished(r)'
               PROVE  /\ rec'[r].owner \in {NoEpoch, epoch}
                      /\ rec'[r].owner = NoEpoch =>
                           \A f \in Epochs \ {epoch} : thr'[f][r].pc \in BeforeQueue
                      /\ Holds(epoch, rec'[r], thr'[epoch][r])
    BY <1>1 DEF ServingKeeps
  <2>1. epoch \in Epochs /\ Holds(epoch, rec[r], thr[epoch][r])
    BY <1>1, <1>2 DEF ServingKeeps
  <2>2. /\ Marked(rec[r], rec'[r])
        /\ thr'[epoch][r].pc = thr[epoch][r].pc /\ SameWork(thr[epoch][r], thr'[epoch][r])
    BY <2>1 DEF Unfinished
  <2>3. Holds(epoch, rec'[r], thr'[epoch][r])
    BY <2>1, <2>2, MarkedHolds
  <2> QED
    BY <1>1, <1>2, <2>3 DEF ServingKeeps
<1> QED
  BY <1>3, <1>4, HeldFrame DEF Held

LEMMA AdmitKeeps ==
    ASSUME IInv, Custody, NEW r \in Requests, Admit(r)
    PROVE  Custody'
<1>1. /\ TypeOK /\ epoch \in Epochs /\ service = "serving" /\ WorkTracked(r)
      /\ WellFormed(r) /\ PassKeeps(r)
      /\ UNCHANGED <<marker, index, epoch, service, scan, prompt>>
  BY EpochServes DEF Admit, Custody, Held, lifeVars
<1>2. /\ Admitted \in Record /\ Admitted.state = "queued" /\ Admitted.owner = NoEpoch
      /\ ~Admitted.cancel
  BY DEF Admitted, NoRecord, Record, States, Nonterminal, NoEpoch, NoWorker
<1>3. rec'[r] = Admitted /\ \A q \in Requests \ {r} : rec'[q] = rec[q]
  BY <1>1, <1>2, WriteFacts DEF Admit
<1>4. /\ thr'[epoch][r].pc = "recorded" /\ OtherThreadsSame(epoch, r)
      /\ thr'[epoch][r].resumed = thr[epoch][r].resumed
  BY <1>1, GotoFacts, GotoExact DEF Admit, PCs, SameWork
<1>5. \A f \in Epochs : thr[f][r].pc = "idle" /\ ~thr[f][r].resumed
  BY <1>1 DEF Admit, NoRecord, WorkTracked, AbsentIsUntouched, At, WellFormed, WellFormedThread,
              Bound, TurnPCs
<1>6. WellFormed(r)'
  <2>1. WellFormedThread(r, thr'[epoch][r])
    BY <1>1, <1>4, <1>5 DEF WellFormedThread, Bound, TurnPCs
  <2> QED
    BY <1>1, <1>2, <1>3, <1>4, <2>1 DEF WellFormed, WellFormedRecord, OtherThreadsSame
<1>7. PassKeeps(r)'
  BY <1>1 DEF PassKeeps, Unscanned
<1>8. ServingKeeps(r)'
  <2>1. Holds(epoch, rec'[r], thr'[epoch][r])
    BY <1>2, <1>3, <1>4 DEF Holds, Bound, TurnPCs, Submitting, BeforeQueue
  <2>2. \A f \in Epochs \ {epoch} : thr'[f][r].pc = "idle"
    BY <1>4, <1>5 DEF OtherThreadsSame
  <2> QED
    BY <1>1, <1>2, <1>3, <2>1, <2>2 DEF ServingKeeps, BeforeQueue
<1>9. Local(r) /\ SameService
  BY <1>1, <1>3, <1>4 DEF Local, OtherThreadsSame, SameService
<1> QED
  BY <1>6, <1>7, <1>8, <1>9, HeldFrame DEF Held

LEMMA CancelKeeps ==
    ASSUME IInv, Custody, NEW r \in Requests, CancelByClient(r) \/ CancelRemote(r)
    PROVE  Custody'
<1> DEFINE rc == rec[r]
           new == CancelledOrMarked(rc)
<1>1. /\ TypeOK /\ rc \in Record /\ 1 \in Epochs
      /\ service # "down" => epoch \in Epochs
      /\ WellFormed(r) /\ ServingKeeps(r)
  BY EpochServes, EpochAssumption DEF Custody, Held, Epochs
<1>2. /\ Write(r, new) /\ UNCHANGED <<marker, index>> /\ SameService /\ scan' = scan
  BY DEF CancelByClient, CancelRemote, lifeVars, SameService
<1>3. /\ new \in Record /\ WellFormedRecord(new)
      /\ new.state = IF rc.state = "queued" THEN "cancelled" ELSE rc.state
  BY <1>1, RecordTypes, RecordShape, RecordEffects DEF WellFormed
<1>4. rec'[r] = new /\ \A q \in Requests \ {r} : rec'[q] = rec[q]
  BY <1>1, <1>2, <1>3, WriteFacts
<1>5. new.state \in Nonterminal => Marked(rc, new) /\ Unfinished(r) /\ rc.state # "queued"
  <2>1. Cut(rc, new)
    BY DEF Cut
  <2> HIDE DEF new
  <2>2. new.state \in Nonterminal => Marked(rc, new)
    BY <1>1, <2>1, CutFacts
  <2> QED
    BY <1>3, <2>2 DEF Unfinished, Nonterminal
<1> HIDE DEF new
<1>6. /\ \A f \in Epochs : WellFormedThread(r, thr'[f][r])
      /\ \A f \in Epochs, q \in Requests \ {r} : thr'[f][q] = thr[f][q]
      /\ service = "recovering" => thr'[epoch][r] = thr[epoch][r]
      /\ rec'[r].state \in Nonterminal =>
           \A f \in Epochs : thr'[f][r].pc = thr[f][r].pc /\ SameWork(thr[f][r], thr'[f][r])
  <2>1. CASE CancelRemote(r)
    BY <1>1, <2>1 DEF CancelRemote, WellFormed, SameWork
  <2>2. CASE CancelByClient(r)
    <3> DEFINE t == thr[epoch][r]
               u == CASE t.pc = "pending" -> Idle
                      [] t.pc \in Tracked -> [t EXCEPT !.cancelled = TRUE]
                      [] OTHER -> t
               marked == [t EXCEPT !.cancelled = TRUE]
    <3>1. epoch \in Epochs /\ t \in Thread /\ service = "serving" /\ Become(epoch, r, u)
      BY <1>1, <2>2 DEF CancelByClient, TypeOK
    <3>2. marked \in Thread /\ marked.pc = t.pc /\ SameWork(t, marked)
      BY <3>1 DEF Thread, SameWork
    <3>3. (u = Idle /\ t.pc = "pending") \/ u = marked \/ u = t
      OBVIOUS
    <3> HIDE DEF u, marked
    <3>4. u \in Thread /\ WellFormedThread(r, u)
      <4>1. WellFormedThread(r, Idle) /\ Idle \in Thread
        BY IdleIsThread DEF WellFormedThread, Bound, TurnPCs, Idle
      <4>2. WellFormedThread(r, t)
        BY <1>1, <3>1 DEF WellFormed
      <4>3. WellFormedThread(r, marked)
        BY <3>2, <4>2 DEF WellFormedThread, Bound, TurnPCs, SameWork
      <4> QED
        BY <3>1, <3>2, <3>3, <4>1, <4>2, <4>3
    <3>5. thr'[epoch][r] = u /\ OtherThreadsSame(epoch, r)
      BY <1>1, <3>1, <3>4, BecomeFacts
    <3>6. new.state \in Nonterminal => u.pc = t.pc /\ SameWork(t, u)
      <4>1. t.pc = "pending" /\ Unfinished(r) => rc.state = "queued"
        BY <1>1, <3>1 DEF ServingKeeps, Holds
      <4> QED
        BY <1>5, <3>2, <3>3, <4>1 DEF SameWork
    <3>7. \A f \in Epochs : WellFormedThread(r, thr'[f][r])
      BY <1>1, <3>4, <3>5 DEF WellFormed, OtherThreadsSame
    <3>8. \A f \in Epochs : f # epoch => thr'[f][r] = thr[f][r]
      BY <3>5 DEF OtherThreadsSame
    <3>9. \A f \in Epochs, q \in Requests \ {r} : thr'[f][q] = thr[f][q]
      BY <3>5 DEF OtherThreadsSame
    <3> QED
      BY <1>4, <3>1, <3>5, <3>6, <3>7, <3>8, <3>9 DEF SameWork
  <2> QED
    BY <2>1, <2>2
<1>7. WellFormed(r)'
  BY <1>3, <1>4, <1>6 DEF WellFormed
<1>8. Local(r)
  BY <1>2, <1>4, <1>6 DEF Local
<1>9. rec'[r].state \in Nonterminal => Unfinished(r) /\ Marked(rec[r], rec'[r])
  BY <1>4, <1>5
<1> QED
  BY <1>2, <1>6, <1>7, <1>8, <1>9, OutsideKeeps

LEMMA OutcomesKeep ==
    ASSUME IInv, Custody, NEW r \in Requests, Supervisor(r) \/ ExpireSession(r) \/ OperatorComplete(r)
    PROVE  Custody'
<1>1. /\ TypeOK /\ rec[r] \in Record /\ 1 \in Epochs /\ WellFormed(r)
  BY EpochServes, EpochAssumption DEF Custody, Held, Epochs
<1>2. PICK new \in Record : Write(r, new) /\ WellFormedRecord(new) /\ new.state \notin Nonterminal
  <2>1. CASE Supervisor(r)
    <3>1. PICK state \in {"failed", "interrupted", "cancelled"} : Write(r, Finished(rec[r], state))
      BY <2>1 DEF Supervisor
    <3>2. state \in States /\ state \in TerminalStates /\ state \notin Nonterminal
      BY DEF States, TerminalStates, Nonterminal
    <3>3. /\ Finished(rec[r], state) \in Record /\ Finished(rec[r], state).state = state
          /\ WellFormedRecord(Finished(rec[r], state))
      BY <1>1, <3>2, RecordTypes, RecordEffects, RecordShape DEF WellFormed
    <3> QED
      BY <3>1, <3>2, <3>3
  <2>2. CASE ExpireSession(r)
    <3>1. /\ Expired(rec[r]) \in Record /\ Expired(rec[r]).state = "interrupted"
          /\ WellFormedRecord(Expired(rec[r]))
      BY <1>1, RecordTypes, RecordEffects, RecordShape DEF WellFormed
    <3> QED
      BY <2>2, <3>1 DEF ExpireSession, Nonterminal
  <2>3. CASE OperatorComplete(r)
    <3>1. /\ Captured(rec[r]) \in Record /\ Captured(rec[r]).state = "completed"
          /\ WellFormedRecord(Captured(rec[r]))
      BY <1>1, RecordTypes, RecordEffects, RecordShape DEF WellFormed
    <3> QED
      BY <2>3, <3>1 DEF OperatorComplete, Nonterminal
  <2> QED
    BY <2>1, <2>2, <2>3
<1>3. /\ thr' = thr /\ scan' = scan /\ SameService
      /\ \A q \in Requests \ {r} : marker'[q] = marker[q] /\ index'[q] = index[q]
  BY <1>1 DEF Supervisor, ExpireSession, OperatorComplete, lifeVars, SameService, ClearWork, TypeOK
<1>4. rec'[r] = new /\ \A q \in Requests \ {r} : rec'[q] = rec[q]
  BY <1>1, <1>2, WriteFacts
<1>5. Local(r) /\ WellFormed(r)'
  BY <1>1, <1>2, <1>3, <1>4 DEF Local, WellFormed
<1> QED
  BY <1>2, <1>3, <1>4, <1>5, OutsideKeeps

-----------------------------------------------------------------------------
(* The recovery pass, one request at a time.                               *)
LEMMA ScanStepKeeps ==
    ASSUME IInv, Custody, NEW r \in Requests,
           ScanClear(r) \/ ScanRead(r) \/ TakeOver(r) \/ Settle(r) \/ Repair(r)
    PROVE  Custody'
<1> DEFINE rc == rec[r]
<1>1. /\ TypeOK /\ rc \in Record /\ scan[r] \in Scan /\ epoch \in Epochs /\ WorkTracked(r)
      /\ service = "recovering" /\ epoch # NoEpoch
      /\ WellFormed(r) /\ PassKeeps(r)
  <2>1. service = "recovering"
    BY DEF ScanClear, ScanRead, TakeOver, Settle, Repair, Scanning
  <2> QED
    BY <2>1, EpochServes DEF TypeOK, Custody, Held
<1>2. UNCHANGED <<epoch, service, thr>>
  BY DEF ScanClear, ScanRead, TakeOver, Settle, Repair
<1>3. /\ At(epoch, r, "idle")' /\ service' = "recovering" /\ SameService
  BY <1>1, <1>2 DEF PassKeeps, At, SameService
(* What each step writes.                                                  *)
<1>4. ASSUME WellFormedRecord(rec'[r]),
             scan'[r].pc # "todo",
             scan'[r].pc = "repair" => ~scan'[r].cancel,
             (scan'[r].pc = "done" /\ scan'[r].cancel) => ~Unfinished(r)',
             (scan'[r].pc = "found" /\ Unfinished(r)') => rec'[r].owner # epoch,
             (scan'[r].pc # "found" /\ Unfinished(r)') => Adopted(r)' \/ LeftAlone(r)',
             Local(r)
      PROVE  Custody'
  <2>1. WellFormed(r)'
    BY <1>1, <1>2, <1>4 DEF WellFormed
  <2>2. PassKeeps(r)'
    BY <1>2, <1>3, <1>4 DEF PassKeeps
  <2>3. ServingKeeps(r)'
    BY <1>3 DEF ServingKeeps
  <2> QED
    BY <1>3, <1>4, <2>1, <2>2, <2>3, HeldFrame DEF Held
<1>5. CASE ScanClear(r)
  <2>1. scan[r] = Unscanned /\ scan' = [scan EXCEPT ![r].pc = "done"] /\ rec' = rec
    BY <1>1, <1>5 DEF ScanClear, ScanTo, PassKeeps
  <2>2. /\ scan'[r].pc = "done" /\ scan'[r].state = "absent" /\ ~scan'[r].cancel
        /\ \A q \in Requests \ {r} : scan'[q] = scan[q]
    BY <1>1, <2>1 DEF TypeOK, Unscanned
  <2>3. Unfinished(r) => ~Found(r)
    BY <1>1, <1>5 DEF ScanClear, WorkTracked, MarkerHasOwner, Unfinished
  <2>4. Unfinished(r) => LeftAlone(r)'
    BY <1>1, <1>2, <2>1, <2>2, <2>3
       DEF LeftAlone, WorkTracked, TrackedByThread, TrackedByOwner, Owned, At, BeforeQueue
  <2>5. Local(r)
    BY <1>1, <1>2, <1>5, <2>1, <2>2 DEF Local, ScanClear, ClearWork, TypeOK
  <2> QED
    BY <1>1, <1>4, <2>1, <2>2, <2>4, <2>5 DEF WellFormed, Unfinished
<1>6. CASE ScanRead(r)
  <2>1. /\ scan'[r].pc = "found" /\ \A q \in Requests \ {r} : scan'[q] = scan[q]
        /\ rec' = rec /\ scan[r].pc = "todo"
    BY <1>1, <1>6 DEF ScanRead, durable, TypeOK
  <2>2. Local(r)
    BY <1>2, <1>6, <2>1 DEF Local, ScanRead, durable
  <2>3. Unfinished(r) => rc.owner # epoch
    BY <1>1, <2>1 DEF PassKeeps
  <2> QED
    BY <1>1, <1>4, <2>1, <2>2, <2>3 DEF WellFormed, Unfinished
<1>7. CASE TakeOver(r)
  <2> DEFINE w == TakeoverWorker(r)
             new == TakenOver(rc, epoch, w)
             next == IF MustSettle(r) THEN "settle" ELSE "repair"
  <2>1. w \in Workers \cup {NoWorker}
    BY <1>1 DEF TakeoverWorker, Workers
  <2>2. /\ Write(r, new) /\ scan[r].pc = "found"
        /\ scan' = [scan EXCEPT ![r] = [scan[r] EXCEPT !.pc = next, !.state = rc.state]]
    BY <1>7 DEF TakeOver
  <2>3. /\ scan'[r].pc = next /\ scan'[r].state = rc.state /\ scan'[r].cancel = scan[r].cancel
        /\ \A q \in Requests \ {r} : scan'[q] = scan[q]
    BY <1>1, <2>2 DEF TypeOK, Scan
  <2>4. next = "repair" => ~scan[r].cancel
    BY DEF MustSettle
  <2>5. next \in {"settle", "repair"}
    OBVIOUS
  <2>6. /\ new \in Record /\ WellFormedRecord(new) /\ new.state = rc.state
    BY <1>1, <2>1, RecordTypes, RecordShape, TakeoverEffect DEF WellFormed
  <2>7. Unfinished(r) => new.owner = epoch /\ (new.state = "running" => new.recovery)
    <3>1. Unfinished(r) => rc.owner # epoch
      BY <1>1, <2>2 DEF PassKeeps
    <3> QED
      BY <1>1, <3>1 DEF TakenOver, Written, Unfinished, Record
  <2> HIDE DEF new, next
  <2>8. rec'[r] = new /\ \A q \in Requests \ {r} : rec'[q] = rec[q]
    BY <1>1, <2>2, <2>6, WriteFacts
  <2>9. Unfinished(r)' => Adopted(r)'
    BY <1>2, <2>3, <2>6, <2>7, <2>8 DEF Unfinished, Adopted
  <2>10. Local(r)
    BY <1>2, <1>7, <2>3, <2>8 DEF Local, TakeOver
  <2> QED
    BY <1>4, <2>3, <2>4, <2>5, <2>6, <2>8, <2>9, <2>10
<1>8. CASE Settle(r)
  <2> DEFINE outcome == IF scan[r].cancel THEN "cancelled" ELSE "interrupted"
  <2>1. outcome \in States /\ outcome \in TerminalStates /\ outcome \notin Nonterminal
    BY DEF States, TerminalStates, Nonterminal
  <2>2. Write(r, Finished(rc, outcome)) /\ ClearWork(r)
    BY <1>8 DEF Settle
  <2> HIDE DEF outcome
  <2>3. /\ Finished(rc, outcome) \in Record /\ Finished(rc, outcome).state = outcome
        /\ WellFormedRecord(Finished(rc, outcome))
    BY <1>1, <2>1, RecordTypes, RecordEffects, RecordShape DEF WellFormed
  <2>4. rec'[r] = Finished(rc, outcome) /\ \A q \in Requests \ {r} : rec'[q] = rec[q]
    BY <1>1, <2>2, <2>3, WriteFacts
  <2>5. ~Unfinished(r)'
    BY <2>1, <2>3, <2>4 DEF Unfinished
  <2>6. scan'[r].pc = "done" /\ \A q \in Requests \ {r} : scan'[q] = scan[q]
    BY <1>1, <1>8 DEF Settle, TypeOK, Scan
  <2>7. Local(r)
    BY <1>1, <1>2, <2>2, <2>4, <2>6 DEF Local, ClearWork, TypeOK
  <2> QED
    BY <1>4, <2>3, <2>4, <2>5, <2>6, <2>7
<1>9. CASE Repair(r)
  <2>1. rec' = rec /\ scan[r].pc = "repair"
    BY <1>9 DEF Repair
  <2>2. /\ scan'[r].pc = "done" /\ scan'[r].state = scan[r].state /\ scan'[r].cancel = scan[r].cancel
        /\ \A q \in Requests \ {r} : scan'[q] = scan[q]
    BY <1>1, <1>9 DEF Repair, ScanTo, TypeOK, Scan
  <2>3. ~scan[r].cancel /\ (Unfinished(r) => Adopted(r))
    BY <1>1, <2>1 DEF PassKeeps, LeftAlone
  <2>4. Unfinished(r)' => Adopted(r)'
    BY <1>2, <2>1, <2>2, <2>3 DEF Unfinished, Adopted
  <2>5. \A q \in Requests \ {r} : index'[q] = index[q] /\ marker'[q] = marker[q]
    BY <1>1, <1>9, RepairIndexFacts DEF Repair, TypeOK
  <2>6. Local(r)
    BY <1>2, <2>1, <2>2, <2>5 DEF Local
  <2> QED
    BY <1>1, <1>4, <2>1, <2>2, <2>3, <2>4, <2>6 DEF WellFormed
<1> QED
  BY <1>5, <1>6, <1>7, <1>8, <1>9

-----------------------------------------------------------------------------
(* The life of the service.                                                *)

(* With no service there is nothing to hold; the threads are fewer.        *)
LEMMA DownKeeps ==
    ASSUME IInv, Custody, service' = "down",
           \A q \in Requests : WellFormedRecord(rec'[q]) /\ scan'[q] = Unscanned,
           \A f \in Epochs, q \in Requests : thr'[f][q] = thr[f][q] \/ thr'[f][q] = Idle
    PROVE  Custody'
<1> SUFFICES ASSUME NEW q \in Requests PROVE Held(q)'
  BY DEF Custody
<1>1. WellFormedThread(q, Idle)
  BY DEF WellFormedThread, Bound, TurnPCs, Idle
<1>2. WellFormed(q)'
  BY <1>1 DEF WellFormed, Custody, Held
<1>3. PassKeeps(q)'
  <2>1. scan'[q] = Unscanned /\ Unscanned.pc = "todo"
    BY DEF Unscanned
  <2> QED
    BY <2>1 DEF PassKeeps
<1>4. ServingKeeps(q)'
  BY DEF ServingKeeps
<1> QED
  BY <1>2, <1>3, <1>4 DEF Held

(* The death of an older generation only takes threads away.               *)
LEMMA OldDeathThreads ==
    ASSUME TypeOK, NEW e \in Epochs, e # epoch, Die(e)
    PROVE  epoch \in Epochs => thr'[epoch] = thr[epoch]
<1>1. thr' = [thr EXCEPT ![e] = [r \in Requests |-> Idle]]
  BY DEF Die
<1> QED
  BY <1>1 DEF TypeOK

LEMMA OldDeathKeeps ==
    ASSUME IInv, Custody, NEW e \in Epochs, e # epoch, Die(e), NEW q \in Requests, rec'[q] = rec[q]
    PROVE  Held(q)'
<1>1. /\ service' = service /\ epoch' = epoch /\ scan' = scan
      /\ service # "down" => epoch \in Epochs
      /\ WellFormed(q) /\ PassKeeps(q) /\ ServingKeeps(q)
  BY EpochServes DEF Die, Custody, Held
<1>2. /\ \A f \in Epochs : thr'[f][q] = thr[f][q] \/ thr'[f][q] = Idle
      /\ epoch \in Epochs => thr'[epoch][q] = thr[epoch][q]
  BY EpochServes, OldDeathThreads, DieFacts
<1>3. WellFormedThread(q, Idle) /\ Idle.pc \in BeforeQueue
  BY DEF WellFormedThread, Bound, TurnPCs, Idle, BeforeQueue
<1>4. WellFormed(q)'
  BY <1>1, <1>2, <1>3 DEF WellFormed
<1>5. PassKeeps(q)'
  BY <1>1, <1>2, <1>3 DEF PassKeeps, Adopted, LeftAlone, Unfinished, At
<1>6. ServingKeeps(q)'
  BY <1>1, <1>2, <1>3 DEF ServingKeeps, Unfinished
<1> QED
  BY <1>4, <1>5, <1>6 DEF Held

LEMMA CrashKeeps ==
    ASSUME IInv, Custody, NEW e \in Epochs, Die(e),
           UNCHANGED rec \/ \E r \in Requests : CrashInClaim(e, r)
    PROVE  Custody'
<1>1. /\ TypeOK /\ epoch \in Nat /\ e # NoEpoch
      /\ service # "down" => epoch \in Epochs /\ epoch # NoEpoch
      /\ \A q \in Requests : Held(q) /\ rec[q] \in Record
  BY EpochServes DEF Custody
<1>2. PICK r : UNCHANGED rec \/ (r \in Requests /\ CrashInClaim(e, r))
  OBVIOUS
<1>3. ASSUME r \in Requests, CrashInClaim(e, r)
      PROVE  /\ rec'[r] = Claimed(rec[r], e) /\ \A q \in Requests \ {r} : rec'[q] = rec[q]
             /\ rec[r].state = "queued" /\ rec[r].owner \in {NoEpoch, e} /\ thr[e][r].pc = "claim"
             /\ rec'[r].owner = e /\ WellFormedRecord(rec'[r])
  <2>1. /\ Claimed(rec[r], e) \in Record /\ Claimed(rec[r], e).owner = e
        /\ WellFormedRecord(Claimed(rec[r], e))
    BY <1>1, <1>3, RecordTypes, RecordEffects, RecordShape DEF Held, WellFormed
  <2>2. /\ Write(r, Claimed(rec[r], e)) /\ rec[r].state = "queued"
        /\ rec[r].owner \in {NoEpoch, e} /\ thr[e][r].pc = "claim"
    BY <1>3 DEF CrashInClaim, CanClaimFresh, CanClaim, At
  <2>3. rec'[r] = Claimed(rec[r], e) /\ \A q \in Requests \ {r} : rec'[q] = rec[q]
    BY <1>1, <1>3, <2>1, <2>2, WriteFacts
  <2> QED
    BY <2>1, <2>2, <2>3
<1>4. CASE e = epoch
  <2>1. /\ service' = "down" /\ \A q \in Requests : scan'[q] = Unscanned
        /\ \A f \in Epochs, q \in Requests : thr'[f][q] = thr[f][q] \/ thr'[f][q] = Idle
    BY <1>4, DieFacts DEF Die
  <2>2. \A q \in Requests : WellFormedRecord(rec'[q])
    BY <1>1, <1>2, <1>3 DEF Held, WellFormed
  <2> QED
    BY <2>1, <2>2, DownKeeps
<1>5. CASE e # epoch
  <2> SUFFICES ASSUME NEW q \in Requests PROVE Held(q)'
    BY DEF Custody
  <2>1. CASE rec'[q] = rec[q]
    BY <1>5, <2>1, OldDeathKeeps
  <2>2. CASE rec'[q] # rec[q]
    <3>1. q = r /\ CrashInClaim(e, r)
      BY <1>2, <1>3, <2>2
    <3>2. /\ rec[q].state = "queued" /\ rec[q].owner \in {NoEpoch, e} /\ thr[e][q].pc = "claim"
          /\ rec'[q].owner = e /\ WellFormedRecord(rec'[q]) /\ Unfinished(q)
      BY <1>3, <3>1 DEF Unfinished, Nonterminal
    <3>3. /\ service' = service /\ epoch' = epoch /\ scan' = scan
          /\ \A f \in Epochs : thr'[f][q] = thr[f][q] \/ thr'[f][q] = Idle
          /\ epoch \in Epochs => thr'[epoch][q] = thr[epoch][q]
      <4>1. service' = service /\ epoch' = epoch /\ scan' = scan
        BY <1>5 DEF Die
      <4> QED
        BY <1>1, <1>5, <4>1, OldDeathThreads, DieFacts
    <3>4. WellFormed(q) /\ PassKeeps(q) /\ ServingKeeps(q)
      BY <1>1 DEF Held
    <3>5. service # "serving"
      BY <1>1, <1>5, <3>2, <3>4 DEF ServingKeeps, BeforeQueue
    <3>6. service = "recovering" => scan[q].pc \notin {"settle", "repair", "done"}
      BY <1>1, <1>5, <3>2, <3>4 DEF PassKeeps, Adopted, LeftAlone, BeforeQueue
    <3>7. WellFormed(q)'
      <4>1. WellFormedThread(q, Idle)
        BY DEF WellFormedThread, Bound, TurnPCs, Idle
      <4> QED
        BY <3>2, <3>3, <3>4, <4>1 DEF WellFormed
    <3>8. PassKeeps(q)'
      <4>1. service # "recovering" => scan[q].pc = "todo"
        BY <3>4 DEF PassKeeps, Unscanned
      <4> QED
        BY <1>1, <1>5, <3>2, <3>3, <3>4, <3>6, <4>1 DEF PassKeeps, At
    <3>9. ServingKeeps(q)'
      BY <3>3, <3>5 DEF ServingKeeps
    <3> QED
      BY <3>7, <3>8, <3>9 DEF Held
  <2> QED
    BY <2>1, <2>2
<1> QED
  BY <1>4, <1>5

LEMMA ServiceKeeps ==
    ASSUME IInv, Custody, StartService \/ Retire \/ \E r \in Requests : RecoveryFails(r)
    PROVE  Custody'
<1>1. /\ TypeOK /\ epoch \in Nat
      /\ \A q \in Requests : Held(q) /\ rec[q] \in Record
      /\ \A e \in Epochs : e \in Nat
  BY EpochServes DEF Custody
<1>2. CASE Retire \/ \E r \in Requests : RecoveryFails(r)
  <2>1. service' = "down" /\ rec' = rec
    BY <1>2 DEF Retire, RecoveryFails, durable
  <2>2. \A q \in Requests : scan'[q] = Unscanned
    <3>1. CASE Retire
      BY <1>1, <3>1 DEF Retire, Held, PassKeeps
    <3>2. CASE \E r \in Requests : RecoveryFails(r)
      BY <3>2 DEF RecoveryFails
    <3> QED
      BY <1>2, <3>1, <3>2
  <2>3. \A f \in Epochs, q \in Requests : thr'[f][q] = thr[f][q] \/ thr'[f][q] = Idle
    <3>1. CASE Retire
      <4> DEFINE ts == [r \in Requests |->
                          IF ~Overlap \/ thr[epoch][r].pc \in {"pending", "resume", "timer"}
                            THEN Idle ELSE thr[epoch][r]]
      <4>1. epoch \in Epochs
        BY <3>1, EpochServes DEF Retire
      <4>2. thr' = [thr EXCEPT ![epoch] = ts]
        BY <1>1, <3>1, <4>1 DEF Retire, TypeOK
      <4>3. \A q \in Requests : ts[q] = thr[epoch][q] \/ ts[q] = Idle
        OBVIOUS
      <4> HIDE DEF ts
      <4> QED
        BY <1>1, <4>1, <4>2, <4>3 DEF TypeOK
    <3>2. CASE \E r \in Requests : RecoveryFails(r)
      BY <3>2 DEF RecoveryFails
    <3> QED
      BY <1>2, <3>1, <3>2
  <2>4. \A q \in Requests : WellFormedRecord(rec'[q])
    BY <1>1, <2>1 DEF Held, WellFormed
  <2> QED
    BY <2>1, <2>2, <2>3, <2>4, DownKeeps
<1>3. CASE StartService
  <2>1. /\ service = "down" /\ service' = "recovering" /\ epoch' = epoch + 1 /\ epoch' \in Epochs
        /\ rec' = rec /\ thr' = thr /\ scan' = scan
    BY <1>1, <1>3, EpochAssumption DEF StartService, durable, Epochs
  <2> SUFFICES ASSUME NEW q \in Requests PROVE Held(q)'
    BY DEF Custody
  <2>2. /\ WellFormed(q) /\ scan[q] = Unscanned /\ Unscanned.pc = "todo"
    BY <1>1, <2>1 DEF Held, PassKeeps, Unscanned
  <2>3. thr[epoch'][q].pc = "idle"
    BY <1>1, <2>1 DEF IInv, Generations, ThreadsNotAhead, At
  <2>4. rec[q].owner # epoch'
    <3>1. rec[q].owner <= epoch /\ rec[q].owner \in Nat
      BY <1>1 DEF IInv, Generations, OwnerNotAhead, Record, Epochs, NoEpoch
    <3> QED
      BY <1>1, <2>1, <3>1
  <2>5. WellFormed(q)'
    BY <2>1, <2>2 DEF WellFormed
  <2>6. PassKeeps(q)'
    BY <2>1, <2>2, <2>3, <2>4 DEF PassKeeps, At
  <2>7. ServingKeeps(q)'
    BY <2>1 DEF ServingKeeps
  <2> QED
    BY <2>5, <2>6, <2>7 DEF Held
<1> QED
  BY <1>2, <1>3

(* The threads the service rebuilds hold what the pass adopted.            *)
LEMMA ServeKeeps ==
    ASSUME IInv, Custody, Serve
    PROVE  Custody'
<1>1. /\ TypeOK /\ epoch \in Epochs /\ epoch # NoEpoch /\ service = "recovering"
      /\ rec' = rec /\ epoch' = epoch /\ service' = "serving"
      /\ scan' = [r \in Requests |-> Unscanned]
  BY EpochServes DEF Serve, durable
<1>2. PICK ts \in [Requests -> UNION {RebuiltThreads(r) : r \in Requests}] :
          (\A r \in Requests : ts[r] \in RebuiltThreads(r)) /\ thr' = [thr EXCEPT ![epoch] = ts]
  BY DEF Serve
<1>3. \A f \in Epochs : thr'[f] = IF f = epoch THEN ts ELSE thr[f]
  BY <1>1, <1>2 DEF TypeOK
<1> SUFFICES ASSUME NEW q \in Requests PROVE Held(q)'
  BY DEF Custody
<1> DEFINE resume == [Idle EXCEPT !.pc = "resume", !.observe = Session(q) /\ ~ProvenUnsent(q)]
           pending == [Idle EXCEPT !.pc = "pending"]
           timer == [resume EXCEPT !.pc = "timer", !.worker = rec[q].worker, !.attempt = rec[q].attempt]
<1>4. \/ ts[q] \in {resume, timer} /\ scan[q].state = "running"
      \/ ts[q] = pending /\ scan[q].state = "queued" /\ rec[q].state = "queued"
      \/ /\ ts[q] = Idle /\ scan[q].state # "running"
         /\ ~(scan[q].state = "queued" /\ rec[q].state = "queued" /\ rec[q].owner = epoch)
  <2>1. ts[q] \in RebuiltThreads(q)
    BY <1>2
  <2> QED
    BY <2>1, Zenon DEF RebuiltThreads
<1>5. /\ resume.pc = "resume" /\ ~resume.resumed /\ pending.pc = "pending" /\ ~pending.resumed
      /\ timer.pc = "timer" /\ ~timer.resumed
      /\ timer.worker = rec[q].worker /\ timer.attempt = rec[q].attempt
      /\ Idle.pc = "idle" /\ ~Idle.resumed
  BY DEF Idle
<1> HIDE DEF resume, pending, timer
<1>6. WellFormed(q) /\ PassKeeps(q) /\ scan[q].pc = "done"
  BY DEF Custody, Held, Serve
<1>7. WellFormed(q)'
  <2>1. ts[q].pc \in {"idle", "resume", "pending", "timer"} /\ ~ts[q].resumed
    BY <1>4, <1>5
  <2>2. WellFormedThread(q, ts[q])
    BY <2>1 DEF WellFormedThread, Bound, TurnPCs
  <2> QED
    BY <1>1, <1>3, <1>6, <2>2 DEF WellFormed
<1>8. PassKeeps(q)'
  <2>1. scan'[q] = Unscanned /\ Unscanned.pc = "todo"
    BY <1>1 DEF Unscanned
  <2> QED
    BY <1>1, <2>1 DEF PassKeeps
<1>9. ServingKeeps(q)'
  <2> SUFFICES ASSUME Unfinished(q)
               PROVE  /\ rec[q].owner \in {NoEpoch, epoch}
                      /\ rec[q].owner = NoEpoch =>
                           \A f \in Epochs \ {epoch} : thr'[f][q].pc \in BeforeQueue
                      /\ Holds(epoch, rec[q], ts[q])
    BY <1>1, <1>3 DEF ServingKeeps, Unfinished
  <2>1. CASE Adopted(q)
    <3>1. rec[q].owner = epoch /\ scan[q].state = rec[q].state /\ rec[q].state \in Nonterminal
      BY <2>1 DEF Adopted, Unfinished
    <3>2. \/ ts[q] = resume /\ rec[q].state = "running" /\ rec[q].recovery
          \/ ts[q] = timer /\ rec[q].state = "running" /\ rec[q].recovery
          \/ ts[q] = pending /\ rec[q].state = "queued"
      BY <1>4, <2>1, <3>1 DEF Adopted, Nonterminal
    <3>3. Holds(epoch, rec[q], ts[q])
      BY <1>5, <3>1, <3>2 DEF Holds, Bound, TurnPCs, Submitting, BeforeQueue, IdentityOf, IdOf
    <3> QED
      BY <1>1, <3>1, <3>3
  <2>2. CASE LeftAlone(q)
    <3>1. ts[q] = Idle /\ rec[q].owner = NoEpoch
      BY <1>4, <2>2 DEF LeftAlone
    <3>2. Holds(epoch, rec[q], Idle)
      BY <1>5, <3>1 DEF Holds, Bound, TurnPCs, Submitting, BeforeQueue
    <3> QED
      BY <1>3, <2>2, <3>1, <3>2 DEF LeftAlone
  <2> QED
    BY <1>1, <1>6, <2>1, <2>2 DEF PassKeeps
<1> QED
  BY <1>7, <1>8, <1>9 DEF Held

-----------------------------------------------------------------------------
LEMMA InitCustody == Init => Custody
<1> SUFFICES ASSUME Init, NEW r \in Requests PROVE Held(r)
  BY DEF Custody
<1>1. /\ rec[r] = NoRecord /\ scan[r] = Unscanned /\ service = "down"
      /\ \A e \in Epochs : thr[e][r] = Idle
  BY DEF Init
<1>2. WellFormedRecord(NoRecord) /\ WellFormedThread(r, Idle) /\ Unscanned.pc = "todo"
  BY DEF WellFormedRecord, NoRecord, WellFormedThread, Bound, TurnPCs, Idle, Unscanned
<1> QED
  BY <1>1, <1>2 DEF Held, WellFormed, PassKeeps, ServingKeeps

LEMMA NextCustody ==
    ASSUME IInv, Custody, [Next]_vars
    PROVE  Custody'
<1>1. CASE UNCHANGED vars
  <2>1. /\ UNCHANGED <<rec, epoch, service, thr, scan>>
    BY <1>1 DEF vars
  <2> QED
    BY <2>1 DEF Custody, Held, WellFormed, PassKeeps, ServingKeeps, Adopted, LeftAlone, Unfinished, At
<1>2. ASSUME NEW e \in Epochs, NEW r \in Requests, ThreadStep(e, r) \/ CrashInClaim(e, r)
      PROVE  Custody'
  <2>1. CASE ThreadStep(e, r)
    BY <2>1, ThreadStepKeeps
  <2>2. CASE CrashInClaim(e, r)
    BY <2>2, CrashKeeps DEF CrashInClaim
  <2> QED
    BY <1>2, <2>1, <2>2
<1>3. ASSUME NEW r \in Requests, ScanStep(r)
      PROVE  Custody'
  BY <1>3, ScanStepKeeps, ServiceKeeps DEF ScanStep
<1>4. ASSUME NEW r \in Requests, OutsideStep(r)
      PROVE  Custody'
  BY <1>4, AdmitKeeps, CancelKeeps, OutcomesKeep DEF OutsideStep
<1>5. ASSUME NEW r \in Requests, CrashInRepair(r)
      PROVE  Custody'
  <2>1. epoch \in Epochs /\ Die(epoch) /\ UNCHANGED rec
    BY <1>5, EpochServes DEF CrashInRepair, Scanning
  <2> QED
    BY <2>1, CrashKeeps
<1>6. ASSUME NEW e \in Epochs, Crash(e)
      PROVE  Custody'
  BY <1>6, CrashKeeps DEF Crash, durable
<1>7. CASE StartService \/ Retire
  BY <1>7, ServiceKeeps
<1>8. CASE Serve
  BY <1>8, ServeKeeps
<1> QED
  BY <1>1, <1>2, <1>3, <1>4, <1>5, <1>6, <1>7, <1>8 DEF Next

LEMMA CustodyInvariant == Spec => []Custody
<1>1. IInv /\ Custody /\ [Next]_vars => Custody'
  BY NextCustody
<1> QED
  BY InitCustody, Invariance, <1>1, PTL DEF Spec

(* While a generation serves, every claimed unfinished request belongs to  *)
(* it and one of its threads is working on it: no takeover leaves work     *)
(* with a dead generation, and no refused fence, lost timer or error path  *)
(* of the serving one drops a request.                                     *)
THEOREM ServedRequestsHaveAThread == Spec => []NoOrphans
<1>1. Custody => NoOrphans
  <2> SUFFICES ASSUME Custody, service = "serving", NEW r \in Requests, Owned(r)
               PROVE  rec[r].owner = epoch /\ ~At(epoch, r, "idle")
    BY DEF NoOrphans
  <2> QED
    BY DEF Custody, Held, ServingKeeps, Owned, Holds, BeforeQueue, At
<1> QED
  BY CustodyInvariant, <1>1, PTL

(* A cancellation the recovery pass read is settled before the service     *)
(* serves, whatever else is written to the record in between.              *)
THEOREM CancelSeenIsSettled == Spec => []RestartCancelSettled
<1>1. Custody => RestartCancelSettled
  BY DEF Custody, Held, PassKeeps, RestartCancelSettled
<1> QED
  BY CustodyInvariant, <1>1, PTL

(* A retired generation that is still running cannot start, resume, finish *)
(* or take back a request a newer generation owns; all its threads can     *)
(* still do to the record is cancel or reject it.                          *)
THEOREM OldThreadsAreHarmless == Spec => OldGenerationHarmless
<1>1. IInv /\ [Next]_vars =>
        [\A e \in Epochs, r \in Requests :
           (e < epoch /\ Owned(r) /\ rec[r].owner = epoch /\ thr'[e][r] # thr[e][r]) =>
               /\ IdentityOf(rec'[r]) = IdentityOf(rec[r])
               /\ rec'[r].state \in {rec[r].state, "cancelled", "rejected"}]_vars
  <2> SUFFICES ASSUME IInv, [Next]_vars, NEW e \in Epochs, NEW r \in Requests,
                      e < epoch, rec[r].owner = epoch, Owned(r), thr'[e][r] # thr[e][r]
               PROVE  /\ IdentityOf(rec'[r]) = IdentityOf(rec[r])
                      /\ rec'[r].state \in {rec[r].state, "cancelled", "rejected"}
    OBVIOUS
  <2>1. /\ TypeOK /\ rec[r] \in Record /\ e # epoch /\ epoch # NoEpoch /\ epoch \in Epochs
    BY EpochServes DEF Owned, TypeOK
  <2>2. CASE rec'[r] = rec[r]
    BY <2>2
  <2>3. CASE \E f \in Epochs, q \in Requests : ThreadStep(f, q)
    <3>1. PICK f \in Epochs, q \in Requests : ThreadStep(f, q)
      BY <2>3
    <3>2. f = e /\ q = r
      BY <2>1, <3>1, ThreadStepEffect DEF Effect, ThreadEffect, OtherThreadsSame
    <3>3. Cut(rec[r], rec'[r])
      BY <2>1, <3>1, <3>2, FencedStep
    <3> QED
      BY <2>1, <3>3, CutFacts
  <2>4. CASE \E f \in Epochs, q \in Requests : CrashInClaim(f, q)
    <3>1. PICK f \in Epochs, q \in Requests : CrashInClaim(f, q)
      BY <2>4
    <3>2. /\ CanClaimFresh(f, q) /\ Write(q, Claimed(rec[q], f)) /\ Die(f)
      BY <3>1 DEF CrashInClaim
    <3>3. CASE q = r
      <4>1. f = epoch
        BY <2>1, <3>2, <3>3 DEF CanClaimFresh, CanClaim
      <4>2. thr'[e] = thr[e]
        BY <2>1, <3>2, <4>1 DEF Die, TypeOK
      <4> QED
        BY <4>2
    <3>4. CASE q # r
      BY <2>1, <2>2, <3>2, <3>4 DEF Write, TypeOK
    <3> QED
      BY <3>3, <3>4
  <2>5. CASE \E q \in Requests : Admit(q) \/ CancelByClient(q)
    <3>1. PICK q \in Requests : Admit(q) \/ CancelByClient(q)
      BY <2>5
    <3>2. thr'[e] = thr[e]
      BY <2>1, <3>1 DEF Admit, CancelByClient, Goto, Become, TypeOK
    <3> QED
      BY <3>2
  <2>6. CASE \E q \in Requests : ScanStep(q) \/ CancelRemote(q) \/ Supervisor(q)
                                 \/ ExpireSession(q) \/ OperatorComplete(q)
    BY <2>6 DEF ScanStep, ScanClear, ScanRead, TakeOver, Settle, Repair, RecoveryFails,
                CancelRemote, Supervisor, ExpireSession, OperatorComplete
  <2>7. CASE \/ \E q \in Requests : CrashInRepair(q)
             \/ \E f \in Epochs : Crash(f)
             \/ StartService \/ Serve \/ Retire \/ UNCHANGED vars
    BY <2>2, <2>7 DEF CrashInRepair, Crash, StartService, Serve, Retire, durable, vars
  <2> QED
    BY <2>3, <2>4, <2>5, <2>6, <2>7 DEF Next, OutsideStep
<1> QED
  BY <1>1, Invariance, PTL DEF Spec, OldGenerationHarmless

-----------------------------------------------------------------------------
(* One sending per request, when generations do not overlap.               *)

LEMMA OnceFrame ==
    ASSUME OnceInv, NEW r \in Requests, Local(r), SameService,
           OtherPromptsSame(r), Once(r)'
    PROVE  OnceInv'
<1> SUFFICES ASSUME NEW q \in Requests, q # r PROVE Once(q)'
  BY DEF OnceInv
<1>1. /\ rec'[q] = rec[q] /\ scan'[q] = scan[q] /\ prompt'[q] = prompt[q]
      /\ \A f \in Epochs : thr'[f][q] = thr[f][q]
      /\ epoch' = epoch /\ service' = service
  BY DEF Local, SameService, OtherPromptsSame
<1>2. Once(q) /\ Given(q)' = Given(q) /\ Unmarked(q)' = Unmarked(q)
  BY <1>1 DEF OnceInv, Given, Unmarked
<1> QED
  BY <1>1, <1>2 DEF Once, Alone, At, PassSettlesWorkers, Unfinished

(* A thread step by what it leaves.                                        *)
OnceAfter(r, rc, t, n) ==
    /\ n <= 1 /\ FreshRecord(rc, n) /\ NotYetGiven(r, rc, t, n)
    /\ (~Session(r) /\ rc.state = "running") => ~rc.recovery

LEMMA OnceQuiet ==
    ASSUME NEW r, NEW rc, NEW t, NEW new, NEW u, NEW n, OnceAfter(r, rc, t, n),
           \/ new.state \in TerminalStates
           \/ new.state = rc.state /\ (new.recovery => rc.recovery),
           u.pc \notin Begins \cup {"prepared", "sending", "click", "defer"},
           u.pc \in Waiting => t.pc \in Waiting /\ u.observe = t.observe,
           u.resumed => t.resumed, u.phase \in {"none", t.phase}
    PROVE  OnceAfter(r, new, u, n)
<1>1. new.state = "running" => rc.state = "running" /\ (new.recovery => rc.recovery)
  BY DEF TerminalStates
<1>2. NotYetGiven(r, new, u, n)
  BY <1>1 DEF NotYetGiven, Begins, OnceAfter
<1> QED
  BY <1>1, <1>2 DEF OnceAfter, FreshRecord, TerminalStates

(* A finishing write, or the loss of the fence.                            *)
LEMMA OnceFinish ==
    ASSUME TypeOK, NEW e \in Epochs, NEW r \in Requests, NEW id, NEW state \in TerminalStates,
           FinishAs(e, r, id, state), OnceAfter(r, rec[r], thr[e][r], Given(r))
    PROVE  OnceAfter(r, rec'[r], thr'[e][r], Given(r)')
<1>1. Given(r)' = Given(r)
  BY DEF FinishAs, Given
<1>2. CASE CanFinish(rec[r], id, state)
  <2>1. rec'[r].state = state
    BY <1>2, FinishExact
  <2>2. /\ thr'[e][r].pc = "sweep" /\ thr'[e][r].resumed = thr[e][r].resumed
        /\ thr'[e][r].phase = thr[e][r].phase
    BY <1>2, GotoExact DEF FinishAs, PCs, SameWork, SameTurn
  <2> QED
    BY <1>1, <2>1, <2>2, OnceQuiet DEF Begins, Waiting
<1>3. CASE ~CanFinish(rec[r], id, state)
  <2>1. rec'[r] = rec[r] /\ thr'[e][r] = Idle
    BY <1>3, FinishExact
  <2> QED
    BY <1>1, <2>1, OnceQuiet DEF Begins, Waiting, Idle
<1> QED
  BY <1>2, <1>3

(* What the steps of a turn do to the prompt.                              *)
LEMMA TurnPrompts ==
    ASSUME TypeOK, NEW e \in Epochs, NEW r \in Requests, TurnMove(e, r)
    PROVE  /\ OtherPromptsSame(r) /\ prompt'[r].phase = prompt[r].phase
           /\ SendUnfenced(e, r) \/ Click(e, r) \/ prompt'[r].sent = prompt[r].sent
<1>1. CASE prompt' = prompt
  BY <1>1 DEF OtherPromptsSame
<1>2. CASE \E stage \in Stages : Checkpoint(r, stage)
  BY <1>2, CheckpointFacts
<1>3. CASE SendUnfenced(e, r) \/ Click(e, r)
  BY <1>3, SendFacts DEF SendUnfenced, Click
<1> QED
  BY <1>1, <1>2, <1>3
     DEF TurnMove, OpenSession, ClaimPrepared, OpenRefused, TurnCancelled, TurnNeedsClaim,
         TurnWithoutClaim, StartTurnRefused, PreparePrompt, DispatchPrompt, DispatchClaimed,
         IntendSend, PromptRefused, SubmitAbandoned, PresubmitFails, UnsentCleared, RunDefers,
         Stages

(* A turn of a request with a checkpoint.                                  *)
LEMMA CheckpointedTurnOnce ==
    ASSUME TypeOK, NEW e \in Epochs, NEW r \in Checkpointed, TurnMove(e, r),
           OnceAfter(r, rec[r], thr[e][r], Given(r))
    PROVE  OnceAfter(r, rec'[r], thr'[e][r], Given(r)') /\ Unmarked(r)' /\ OtherPromptsSame(r)
<1>1. r \in Requests /\ Session(r)
  BY GatewayAssumption DEF Session
<1>2. rec' = rec /\ OtherPromptsSame(r) /\ Given(r)' = Given(r) /\ Unmarked(r)'
  BY <1>1, TurnMoves, TurnPrompts DEF Given, Unmarked
<1> QED
  BY <1>1, <1>2 DEF OnceAfter, NotYetGiven

(* One without: only a runner that is not an observer sends.               *)
LEMMA PlainTurnOnce ==
    ASSUME TypeOK, NEW e \in Epochs, NEW r \in Requests, r \notin Checkpointed, TurnMove(e, r),
           AbsentIsUntouched(r), OnceAfter(r, rec[r], thr[e][r], Given(r)), Unmarked(r)
    PROVE  OnceAfter(r, rec'[r], thr'[e][r], Given(r)') /\ Unmarked(r)' /\ OtherPromptsSame(r)
<1> DEFINE rc == rec[r]
           t == thr[e][r]
           n == Given(r)
           Goal == OnceAfter(r, rec'[r], thr'[e][r], Given(r)') /\ Unmarked(r)' /\ OtherPromptsSame(r)
<1>1. /\ t \in Thread /\ prompt[r].stage = "none" /\ n = prompt[r].sent
      /\ Given(r)' = prompt'[r].sent /\ OnceAfter(r, rc, t, n)
      /\ t.pc \notin {"prepared", "sending", "click"} /\ t.phase # "presubmit"
  BY DEF TypeOK, Given, Unmarked, OnceAfter, NotYetGiven
<1>2. /\ rec' = rec /\ SameWork(t, thr'[e][r])
      /\ OtherPromptsSame(r) /\ prompt'[r].phase = prompt[r].phase
  BY TurnMoves, TurnPrompts
<1>3. rc.state # "absent"
  <2>1. t.pc \in TurnPCs
    BY TurnMoves
  <2> QED
    BY <2>1 DEF AbsentIsUntouched, At, TurnPCs
<1>4. ASSUME prompt' = prompt, NotYetGiven(r, rc, thr'[e][r], n)
      PROVE  Goal
  BY <1>1, <1>2, <1>4 DEF OnceAfter, Unmarked, Given
<1>5. CASE OpenSession(e, r)
  <2>1. /\ thr'[e][r].pc = "opened" /\ (thr'[e][r].observe \/ ~t.observe) /\ t.pc = "turn"
        /\ thr'[e][r].phase = t.phase /\ prompt' = prompt
    BY <1>1, <1>5, OpenFacts DEF OpenSession, Observing, Thread
  <2>2. NotYetGiven(r, rc, thr'[e][r], n)
    BY <1>1, <1>2, <2>1 DEF OnceAfter, NotYetGiven, Begins, Waiting, SameWork
  <2> QED
    BY <1>4, <2>1, <2>2
<1>6. CASE \/ TurnCancelled(e, r) \/ TurnNeedsClaim(e, r) \/ TurnWithoutClaim(e, r)
           \/ StartTurnRefused(e, r) \/ OpenRefused(e, r) \/ PromptRefused(e, r)
  <2>1. PICK pc \in {"error", "starting", "run", "prompt"} :
          /\ Goto(e, r, pc) /\ prompt' = prompt
          /\ pc = "starting" => t.pc = "opened"
          /\ pc = "prompt" => t.pc = "opened" /\ ~t.observe /\ rc.state # "queued"
    BY <1>6 DEF TurnCancelled, TurnNeedsClaim, TurnWithoutClaim, TurnPC, StartTurnRefused,
                OpenRefused, PromptRefused, At
  <2>2. thr'[e][r].pc = pc /\ SameTurn(t, thr'[e][r])
    BY <2>1, GotoExact DEF PCs
  <2>3. NotYetGiven(r, rc, thr'[e][r], n)
    BY <1>1, <1>3, <2>1, <2>2 DEF OnceAfter, NotYetGiven, Begins, Waiting, SameWork, SameTurn
  <2> QED
    BY <1>4, <2>1, <2>3
<1>7. CASE SendUnfenced(e, r)
  <2>1. t.pc = "prompt" /\ Goto(e, r, "run") /\ Send(r)
    BY <1>7 DEF SendUnfenced, At
  <2>2. thr'[e][r].pc = "run" /\ SameTurn(t, thr'[e][r])
    BY <2>1, GotoExact DEF PCs
  <2>3. n = 0 /\ rc.state \notin {"absent", "queued"}
    BY <1>1, <2>1 DEF OnceAfter, NotYetGiven, Begins
  <2>4. Given(r)' = 1 /\ prompt'[r].stage = "none"
    <3>1. prompt'[r].stage = prompt[r].stage /\ prompt'[r].sent = prompt[r].sent + 1
      BY <2>1, SendFacts
    <3>2. prompt[r].sent = 0
      BY <1>1, <2>3
    <3> QED
      BY <1>1, <3>1, <3>2
  <2>5. NotYetGiven(r, rc, thr'[e][r], 1)
    BY <1>1, <2>2 DEF OnceAfter, NotYetGiven, Begins, Waiting, SameWork, SameTurn
  <2> QED
    BY <1>1, <1>2, <2>3, <2>4, <2>5 DEF OnceAfter, FreshRecord, Unmarked
<1>8. CASE RunDefers(e, r)
  <2>1. PICK phase \in {"other", "followup"} :
             Become(e, r, [t EXCEPT !.pc = "defer", !.phase = phase])
    BY <1>8 DEF RunDefers
  <2>2. thr'[e][r] = [t EXCEPT !.pc = "defer", !.phase = phase]
    BY <2>1 DEF Become, TypeOK
  <2>3. thr'[e][r].pc = "defer" /\ thr'[e][r].phase = phase /\ thr'[e][r].observe = t.observe
    BY <1>1, <2>2 DEF Thread
  <2>4. Session(r) /\ t.observe /\ prompt' = prompt
    BY <1>8 DEF RunDefers
  <2>5. NotYetGiven(r, rc, thr'[e][r], n)
    BY <1>1, <2>3, <2>4 DEF NotYetGiven, Begins, Waiting
  <2> QED
    BY <1>4, <2>4, <2>5
<1>9. ~ClaimPrepared(e, r) /\ ~PreparePrompt(e, r) /\ ~DispatchPrompt(e, r) /\ ~DispatchClaimed(e, r)
  BY <1>1 DEF ClaimPrepared, Reclaimable, PreparePrompt, DispatchPrompt, DispatchClaimed, At
<1>10. /\ ~IntendSend(e, r) /\ ~Click(e, r) /\ ~SubmitAbandoned(e, r)
       /\ ~PresubmitFails(e, r) /\ ~UnsentCleared(e, r)
  BY <1>1 DEF IntendSend, Click, SubmitAbandoned, PresubmitFails, UnsentCleared, At
<1> HIDE DEF Goal
<1> QED
  BY <1>5, <1>6, <1>7, <1>8, <1>9, <1>10 DEF TurnMove, Goal

LEMMA OnceStep ==
    ASSUME TypeOK, NEW e \in Epochs, NEW r \in Requests, WellFormed(r), AbsentIsUntouched(r),
           ThreadStep(e, r), OnceAfter(r, rec[r], thr[e][r], Given(r)), Unmarked(r)
    PROVE  OnceAfter(r, rec'[r], thr'[e][r], Given(r)') /\ Unmarked(r)' /\ OtherPromptsSame(r)
<1> DEFINE rc == rec[r]
           t == thr[e][r]
           n == Given(r)
           Goal == OnceAfter(r, rec'[r], thr'[e][r], Given(r)') /\ Unmarked(r)' /\ OtherPromptsSame(r)
<1>1. /\ rc \in Record /\ t \in Thread /\ prompt[r].sent \in Nat
      /\ WellFormedRecord(rc) /\ WellFormedThread(r, t) /\ OnceAfter(r, rc, t, n)
  BY DEF TypeOK, WellFormed, Prompt
<1>0. ASSUME prompt' = prompt
      PROVE  Given(r)' = n /\ Unmarked(r)' /\ OtherPromptsSame(r)
  BY <1>0 DEF Given, Unmarked, OtherPromptsSame
(* The thread moves and writes nothing.                                    *)
<1>2. ASSUME UNCHANGED <<rec, prompt>>,
             Exit(e, r) \/ (t.pc \in Waiting /\ \E pc \in Waiting : Goto(e, r, pc))
      PROVE  Goal
  <2>1. CASE Exit(e, r)
    BY <1>0, <1>1, <1>2, <2>1, ExitExact, OnceQuiet DEF Begins, Waiting, Idle
  <2>2. ASSUME t.pc \in Waiting, NEW pc \in Waiting, Goto(e, r, pc)
        PROVE  Goal
    <3>1. thr'[e][r].pc = pc /\ SameTurn(t, thr'[e][r])
      BY <2>2, GotoExact DEF PCs, Waiting
    <3> QED
      BY <1>0, <1>1, <1>2, <2>2, <3>1, OnceQuiet DEF Begins, Waiting, SameTurn, SameWork
  <2> QED
    BY <1>2, <2>1, <2>2
<1>3. CASE \/ AdmitIndex(e, r) \/ Enqueue(e, r) \/ Dequeue(e, r) \/ ClaimRefused(e, r)
           \/ TurnStopped(e, r) \/ DeferLost(e, r) \/ Sweep(e, r)
  BY <1>2, <1>3
     DEF AdmitIndex, Enqueue, Dequeue, ClaimRefused, TurnStopped, DeferLost, Sweep, durable, At,
         Waiting
<1>4. CASE \/ CheckRecoveredCancel(e, r) \/ OpenCancelled(e, r) \/ RunEnds(e, r)
           \/ RunRaises(e, r) \/ DeferExhausted(e, r)
  <2>1. PICK state \in TerminalStates : \E id \in {IdentityOf(rc), Id(e, r)} : FinishAs(e, r, id, state)
    BY <1>4 DEF CheckRecoveredCancel, OpenCancelled, RunEnds, RunRaises, DeferExhausted, TerminalStates
  <2>2. prompt' = prompt
    BY <2>1 DEF FinishAs
  <2> QED
    BY <1>0, <2>1, <2>2, OnceFinish
<1>5. CASE EnqueueReject(e, r) \/ CheckStale(e, r)
  <2>1. RejectUnfenced(e, r) /\ prompt' = prompt
    BY <1>5 DEF EnqueueReject, CheckStale, RejectUnfenced
  <2>2. thr'[e][r] = Idle /\ (rec'[r].state \in TerminalStates \/ rec'[r] = rc)
    BY <2>1, RejectExact DEF TerminalStates
  <2> QED
    BY <1>0, <1>1, <2>1, <2>2, OnceQuiet DEF Begins, Waiting, Idle
<1>6. CASE CheckCancelled(e, r)
  <2>1. /\ Write(r, CancelledOrMarked(rc)) /\ CancelledOrMarked(rc) \in Record
        /\ prompt' = prompt /\ thr'[e][r] = Idle
    BY <1>1, <1>6, RecordTypes, ExitExact DEF CheckCancelled
  <2>2. \/ CancelledOrMarked(rc).state \in TerminalStates
        \/ /\ CancelledOrMarked(rc).state = rc.state
           /\ CancelledOrMarked(rc).recovery = rc.recovery
    BY <1>1 DEF CancelledOrMarked, Written, Record, TerminalStates
  <2>3. rec'[r] = CancelledOrMarked(rc)
    BY <2>1, WriteFacts
  <2> QED
    BY <1>0, <1>1, <2>1, <2>2, <2>3, OnceQuiet DEF Begins, Waiting, Idle
<1>7. CASE CheckPass(e, r)
  <2>1. thr'[e][r] = [t EXCEPT !.pc = "claim", !.revision = rc.revision] /\ UNCHANGED <<rec, prompt>>
    BY <1>7 DEF CheckPass, Become, TypeOK, durable
  <2>2. /\ thr'[e][r].pc = "claim" /\ thr'[e][r].resumed = t.resumed /\ t.pc = "check"
        /\ thr'[e][r].observe = t.observe /\ thr'[e][r].phase = t.phase
    BY <1>1, <1>7, <2>1 DEF Thread, CheckPass, At
  <2>3. OnceAfter(r, rc, thr'[e][r], n)
    BY <1>1, <2>2 DEF OnceAfter, NotYetGiven, Begins, Waiting
  <2> QED
    BY <1>0, <2>1, <2>3
<1>8. CASE ClaimRecovered(e, r)
  <2>1. /\ Session(r) /\ UNCHANGED <<rec, prompt>>
        /\ r \notin Checkpointed => t.observe /\ t.phase # "presubmit"
    BY <1>1, <1>8
       DEF ClaimRecovered, Recovered, IsRecoveredDispatch, OnceAfter, NotYetGiven, At, Waiting
  <2>2. thr'[e][r] = [t EXCEPT !.pc = "turn", !.worker = rc.worker, !.attempt = rc.attempt,
                               !.revision = 0, !.resumed = TRUE]
    BY <1>8, <2>1 DEF ClaimRecovered, Become, TypeOK
  <2>3. /\ thr'[e][r].pc = "turn" /\ thr'[e][r].resumed
        /\ thr'[e][r].observe = t.observe /\ thr'[e][r].phase = t.phase
    BY <1>1, <2>2 DEF Thread
  <2> QED
    BY <1>0, <1>1, <2>1, <2>3 DEF OnceAfter, NotYetGiven, Begins, Waiting
<1>9. CASE ClaimAgain(e, r)
  <2>1. /\ rc.state = "queued" /\ t.pc = "claim" /\ UNCHANGED <<rec, prompt>>
        /\ Goto(e, r, "start")
    BY <1>9 DEF ClaimAgain, CanClaim, At
  <2>2. thr'[e][r].pc = "start" /\ thr'[e][r].resumed = t.resumed /\ thr'[e][r].phase = t.phase
    BY <2>1, GotoExact DEF PCs, SameWork, SameTurn
  <2> QED
    BY <1>0, <1>1, <2>1, <2>2 DEF OnceAfter, NotYetGiven, Begins, Waiting
<1>10. CASE ClaimFresh(e, r)
  <2>1. /\ rc.state = "queued" /\ t.pc = "claim" /\ prompt' = prompt
        /\ Write(r, Claimed(rc, e))
        /\ thr'[e][r] = [t EXCEPT !.pc = "start", !.revision = rc.revision + 1]
    BY <1>10 DEF ClaimFresh, CanClaimFresh, CanClaim, At, Become, TypeOK
  <2>2. thr'[e][r].pc = "start" /\ thr'[e][r].resumed = t.resumed /\ thr'[e][r].phase = t.phase
    BY <1>1, <2>1 DEF Thread
  <2>3. /\ Claimed(rc, e) \in Record /\ Claimed(rc, e).state = "queued"
        /\ Claimed(rc, e).recovery = rc.recovery
    <3>1. Claimed(rc, e) \in Record
      BY <1>1, RecordTypes
    <3>2. Claimed(rc, e).state = "queued"
      BY <1>1, <2>1, RecordEffects
    <3>3. Claimed(rc, e).recovery = rc.recovery
      BY <1>1 DEF Claimed, Written, Record
    <3> QED
      BY <3>1, <3>2, <3>3
  <2>4. rec'[r] = Claimed(rc, e)
    BY <2>1, <2>3, WriteFacts
  <2>5. n = 0 /\ ~rc.recovery
    BY <1>1, <2>1 DEF OnceAfter, FreshRecord
  <2> QED
    BY <1>0, <1>1, <2>1, <2>2, <2>3, <2>4, <2>5
       DEF OnceAfter, NotYetGiven, FreshRecord, Begins, Waiting
<1>11. CASE StartBound(e, r)
  <2>1. CASE ~CanStart(rc, e, t.revision)
    BY <1>2, <1>11, <2>1 DEF StartBound
  <2>2. CASE CanStart(rc, e, t.revision)
    <3>1. /\ rc.state = "queued"
      BY <1>1, <2>2 DEF CanStart, TransitionAllowed, Successors, Record, States, Nonterminal, TerminalStates
    <3>2. /\ Write(r, Started(rc, e)) /\ Send(r) /\ ~Session(r)
          /\ thr'[e][r] = [t EXCEPT !.pc = "run", !.worker = Started(rc, e).worker,
                                    !.attempt = Started(rc, e).attempt, !.revision = 0]
          /\ ~t.resumed
      BY <1>11, <2>2 DEF StartBound, Become, TypeOK
    <3>3. thr'[e][r].pc = "run" /\ ~thr'[e][r].resumed /\ thr'[e][r].phase = t.phase
      BY <1>1, <3>2 DEF Thread
    <3>4. /\ Started(rc, e) \in Record /\ Started(rc, e).state = "running"
          /\ Started(rc, e).recovery = rc.recovery
      BY <1>1, RecordTypes, ZenonT(30) DEF Started, Written, Record
    <3>5. rec'[r] = Started(rc, e)
      BY <3>2, <3>4, WriteFacts
    <3>6. n = 0 /\ ~rc.recovery
      BY <1>1, <3>1 DEF OnceAfter, FreshRecord
    <3>7. Given(r)' = 1 /\ OtherPromptsSame(r) /\ Unmarked(r)'
      BY <1>1, <3>2, <3>6, SendFacts, GatewayAssumption DEF Given, Unmarked, Session
    <3>8. NotYetGiven(r, rec'[r], thr'[e][r], 1)
      BY <1>1, <3>3 DEF OnceAfter, NotYetGiven, Begins, Waiting
    <3> QED
      BY <3>4, <3>5, <3>6, <3>7, <3>8 DEF OnceAfter, FreshRecord
  <2> QED
    BY <2>1, <2>2
<1>12. ~StartRecovered(e, r)
  BY <1>1 DEF StartRecovered, At, OnceAfter, NotYetGiven, WellFormedThread
<1>13. CASE Prepare(e, r)
  <2>1. CASE ~CanPrepare(rc, e, t.revision)
    BY <1>2, <1>13, <2>1 DEF Prepare
  <2>2. CASE CanPrepare(rc, e, t.revision)
    <3>1. /\ rc.state = "queued" /\ Write(r, Prepared(rc, e)) /\ prompt' = prompt
          /\ thr'[e][r] = [t EXCEPT !.pc = "turn", !.worker = Prepared(rc, e).worker,
                                    !.attempt = Prepared(rc, e).attempt, !.revision = 0]
          /\ Session(r)
      BY <1>13, <2>2 DEF Prepare, CanPrepare, Become, TypeOK
    <3>2. thr'[e][r].pc = "turn" /\ thr'[e][r].phase = t.phase
      BY <1>1, <3>1 DEF Thread
    <3>3. /\ Prepared(rc, e) \in Record /\ Prepared(rc, e).state = "queued"
          /\ Prepared(rc, e).recovery = rc.recovery
      BY <1>1, <3>1, RecordTypes, ZenonT(30) DEF Prepared, Written, Record
    <3>4. rec'[r] = Prepared(rc, e)
      BY <3>1, <3>3, WriteFacts
    <3>5. n = 0 /\ ~rc.recovery
      BY <1>1, <3>1 DEF OnceAfter, FreshRecord
    <3> QED
      BY <1>0, <1>1, <3>1, <3>2, <3>3, <3>4, <3>5
         DEF OnceAfter, NotYetGiven, FreshRecord, Begins, Waiting
  <2> QED
    BY <2>1, <2>2
<1>14. CASE TurnMove(e, r)
  BY <1>14, CheckpointedTurnOnce, PlainTurnOnce
<1>17. CASE StartTurn(e, r)
  <2>1. /\ t.pc = "starting" /\ rc.state \in Nonterminal /\ prompt' = prompt
        /\ Write(r, IF rc.state = "queued" THEN TurnStarted(rc) ELSE rc)
    BY <1>17 DEF StartTurn, At, CanStartTurn, TurnAlreadyStarted, Nonterminal
  <2>2. /\ TurnStarted(rc) \in Record /\ TurnStarted(rc).state = "running"
        /\ TurnStarted(rc).recovery = rc.recovery
    BY <1>1, EpochAssumption, RecordTypes, ZenonT(30) DEF TurnStarted, Written, Record
  <2>3. rec'[r] = IF rc.state = "queued" THEN TurnStarted(rc) ELSE rc
    BY <1>1, <2>1, <2>2, WriteFacts
  <2>4. rec'[r].state = "running" /\ rec'[r].recovery = rc.recovery
    BY <2>1, <2>2, <2>3 DEF Nonterminal
  <2>5. PICK pc \in {"run", "prompt", "error"} :
          Goto(e, r, pc) /\ (pc = "prompt" => ~t.observe)
    BY <1>17 DEF StartTurn, TurnPC
  <2>6. thr'[e][r].pc = pc /\ SameTurn(t, thr'[e][r])
    BY <2>5, GotoExact DEF PCs
  <2>7. rc.state = "queued" => ~rc.recovery
    BY <1>1 DEF OnceAfter, FreshRecord
  <2>8. NotYetGiven(r, rec'[r], thr'[e][r], n)
    BY <1>1, <2>1, <2>4, <2>5, <2>6
       DEF OnceAfter, NotYetGiven, SameWork, SameTurn, Begins, Waiting
  <2>9. (~Session(r) /\ rec'[r].state = "running") => ~rec'[r].recovery
    BY <1>1, <2>1, <2>4, <2>7 DEF OnceAfter, Nonterminal
  <2> QED
    BY <1>0, <1>1, <2>1, <2>4, <2>8, <2>9 DEF OnceAfter, FreshRecord
<1>19. CASE Defer(e, r)
  <2>1. /\ t.pc = "defer" /\ Write(r, Deferred(rc)) /\ RecordPhase(e, r)
        /\ \/ thr'[e][r] = [t EXCEPT !.pc = "timer", !.cancelled = FALSE]
           \/ thr'[e][r] = Idle
    BY <1>19, ExitExact DEF Defer, At, Become, TypeOK
  <2>2. Session(r) /\ (r \notin Checkpointed => t.observe /\ t.phase # "presubmit")
    BY <1>1, <2>1 DEF OnceAfter, NotYetGiven
  <2>3. \/ /\ thr'[e][r].pc = "timer" /\ thr'[e][r].observe = t.observe
           /\ thr'[e][r].phase = t.phase
        \/ thr'[e][r].pc = "idle" /\ thr'[e][r].phase = "none"
    <3> DEFINE u == [t EXCEPT !.pc = "timer", !.cancelled = FALSE]
    <3>1. u.pc = "timer" /\ u.observe = t.observe /\ u.phase = t.phase
      BY <1>1 DEF Thread
    <3>2. Idle.pc = "idle" /\ Idle.phase = "none"
      BY DEF Idle
    <3>3. thr'[e][r] = u \/ thr'[e][r] = Idle
      BY <2>1
    <3> HIDE DEF u
    <3> QED
      BY <3>1, <3>2, <3>3
  <2>4. /\ Deferred(rc) \in Record /\ Deferred(rc).state = rc.state
        /\ Deferred(rc).recovery = (rc.state = "running")
    BY <1>1, RecordTypes, ZenonT(30) DEF Deferred, Written, Record
  <2>5. rec'[r] = Deferred(rc)
    BY <2>1, <2>4, WriteFacts
  <2>6. Given(r)' = n /\ Unmarked(r)' /\ OtherPromptsSame(r)
    BY <2>1, <2>2, PhaseFacts DEF Given, Unmarked
  <2>7. NotYetGiven(r, rec'[r], thr'[e][r], n)
    BY <2>2, <2>3 DEF NotYetGiven, Begins, Waiting
  <2> QED
    BY <1>1, <2>1, <2>2, <2>4, <2>5, <2>6, <2>7 DEF OnceAfter, FreshRecord
<1>20. CASE TimerFires(e, r)
  <2>1. UNCHANGED <<rec, prompt>>
    BY <1>20 DEF TimerFires, durable
  <2>2. \/ thr'[e][r] = [Idle EXCEPT !.pc = "check", !.observe = t.observe]
        \/ thr'[e][r] = Idle
    BY <1>20, ExitExact DEF TimerFires, Become, TypeOK
  <2>3. /\ thr'[e][r].pc \in {"check", "idle"} /\ ~thr'[e][r].resumed /\ thr'[e][r].phase = "none"
        /\ thr'[e][r].pc = "check" => thr'[e][r].observe = t.observe
    <3> DEFINE u == [Idle EXCEPT !.pc = "check", !.observe = t.observe]
    <3>1. u.pc = "check" /\ ~u.resumed /\ u.phase = "none" /\ u.observe = t.observe
      BY DEF Idle
    <3>2. Idle.pc = "idle" /\ ~Idle.resumed /\ Idle.phase = "none"
      BY DEF Idle
    <3>3. thr'[e][r] = u \/ thr'[e][r] = Idle
      BY <2>2
    <3> HIDE DEF u
    <3> QED
      BY <3>1, <3>2, <3>3
  <2>4. t.pc = "timer"
    BY <1>20 DEF TimerFires, At
  <2>5. NotYetGiven(r, rc, thr'[e][r], n)
    <3> DEFINE u == thr'[e][r]
    <3>1. NotYetGiven(r, rc, t, n)
      BY <1>1 DEF OnceAfter
    <3>2. (Session(r) /\ r \notin Checkpointed /\ rc.state = "running") => t.observe
      BY <2>4, <3>1 DEF NotYetGiven, Waiting
    <3> HIDE DEF t, u, n, rc
    <3> QED
      BY <2>3, <3>2 DEF NotYetGiven, Begins, Waiting, u
  <2>6. OnceAfter(r, rc, thr'[e][r], n)
    BY <1>1, <2>5 DEF OnceAfter
  <2> QED
    BY <1>0, <2>1, <2>6
<1> HIDE DEF rc, t, n, Goal
<1> QED
  BY <1>3, <1>4, <1>5, <1>6, <1>7, <1>8, <1>9, <1>10, <1>11, <1>12, <1>13, <1>14, <1>17, <1>19,
     <1>20, Zenon DEF ThreadStep, TurnMove, Goal

LEMMA ThreadStepOnce ==
    ASSUME IInv, Custody, OnceInv, NEW e \in Epochs, NEW r \in Requests, ThreadStep(e, r)
    PROVE  OnceInv'
<1>1. /\ TypeOK /\ WellFormed(r) /\ PassKeeps(r) /\ AbsentIsUntouched(r) /\ Once(r)
  BY EpochServes DEF Custody, Held, WorkTracked, OnceInv
<1>2. /\ RecordEffect(e, r) /\ WorkEffect(e, r) /\ OtherThreadsSame(e, r) /\ ~At(e, r, "idle")
      /\ epoch' = epoch /\ service' = service /\ scan' = scan
  BY <1>1, ThreadStepEffect DEF Effect, ThreadEffect, lifeVars
<1>3. Local(r) /\ SameService
  BY <1>2 DEF Local, SameService, RecordEffect, WorkEffect, OtherThreadsSame
<1>4. e = epoch /\ service = "serving"
  BY <1>1, <1>2 DEF Once, Alone
<1>5. \A f \in Epochs \ {e} : thr'[f][r] = thr[f][r] /\ thr[f][r].pc = "idle" /\ ~thr[f][r].resumed
  BY <1>1, <1>2, <1>4 DEF OtherThreadsSame, Once, Alone, At, WellFormed, WellFormedThread, Bound, TurnPCs
<1>6. OnceAfter(r, rec[r], thr[e][r], Given(r)) /\ Unmarked(r)
  BY <1>1, <1>4 DEF Once, OnceAfter
<1>7. OnceAfter(r, rec'[r], thr'[e][r], Given(r)') /\ Unmarked(r)' /\ OtherPromptsSame(r)
  BY <1>1, <1>6, OnceStep
<1>8. \A f \in Epochs \ {e} : NotYetGiven(r, rec'[r], thr'[f][r], Given(r)')
  BY <1>1, <1>5 DEF Once, NotYetGiven, Begins, Waiting
<1>9. Alone(r)'
  BY <1>2, <1>4, <1>5 DEF Alone, At
<1>10. PassSettlesWorkers(r)'
  BY <1>1, <1>2, <1>4 DEF PassSettlesWorkers, PassKeeps, Unscanned
<1>11. Once(r)'
  BY <1>7, <1>8, <1>9, <1>10 DEF Once, OnceAfter
<1> QED
  BY <1>3, <1>7, <1>11, OnceFrame

(* A record that keeps its state, or is finished, with the threads where   *)
(* they were or gone.                                                      *)
LEMMA OnceKept ==
    ASSUME NEW r \in Requests, Once(r), WellFormed(r),
           \/ rec'[r].state \in TerminalStates
           \/ rec'[r].state = rec[r].state /\ rec'[r].recovery = rec[r].recovery,
           prompt'[r] = prompt[r],
           service' = service /\ epoch' = epoch /\ scan' = scan,
           \A f \in Epochs : \/ thr'[f][r] = Idle
                             \/ thr'[f][r].pc = thr[f][r].pc /\ SameTurn(thr[f][r], thr'[f][r])
    PROVE  Once(r)'
<1>1. /\ Idle.pc = "idle" /\ ~Idle.resumed /\ Idle.phase = "none"
      /\ Given(r)' = Given(r) /\ Unmarked(r)' = Unmarked(r)
  BY DEF Idle, Given, Unmarked
<1>2. Alone(r)'
  BY <1>1 DEF Once, Alone, At
<1>3. rec'[r].state \in TerminalStates => rec'[r].state \notin Nonterminal \cup {"absent"}
  BY DEF TerminalStates, Nonterminal
<1>4. \A f \in Epochs : NotYetGiven(r, rec'[r], thr'[f][r], Given(r)')
  <2> SUFFICES ASSUME NEW f \in Epochs PROVE NotYetGiven(r, rec'[r], thr'[f][r], Given(r)')
    OBVIOUS
  <2>1. NotYetGiven(r, rec[r], thr[f][r], Given(r))
    BY DEF Once
  <2> QED
    BY <1>1, <1>3, <2>1 DEF NotYetGiven, SameWork, SameTurn, Begins, Waiting, Nonterminal
<1>5. PassSettlesWorkers(r)'
  BY <1>3 DEF Once, PassSettlesWorkers, Unfinished
<1>6. FreshRecord(rec'[r], Given(r)')
  BY <1>1, <1>3 DEF Once, FreshRecord, Nonterminal
<1>7. (service = "serving" /\ ~Session(r) /\ rec'[r].state = "running") => ~rec'[r].recovery
  BY <1>3 DEF Once, Nonterminal
<1> QED
  BY <1>1, <1>2, <1>4, <1>5, <1>6, <1>7 DEF Once

LEMMA OutsideOnce ==
    ASSUME IInv, Custody, OnceInv, NEW r \in Requests, OutsideStep(r)
    PROVE  OnceInv'
<1> DEFINE rc == rec[r]
<1>1. /\ TypeOK /\ rc \in Record /\ 1 \in Epochs /\ WorkTracked(r) /\ WellFormed(r) /\ Once(r)
      /\ service # "down" => epoch \in Epochs
  BY EpochServes, EpochAssumption DEF OnceInv, Custody, Held, Epochs
<1>2. prompt' = prompt /\ epoch' = epoch /\ service' = service /\ scan' = scan
  BY DEF OutsideStep, Admit, CancelByClient, CancelRemote, Supervisor, ExpireSession,
         OperatorComplete, lifeVars
<1>3. CASE Admit(r)
  <2>1. /\ Admitted \in Record /\ Admitted.state = "queued" /\ ~Admitted.recovery
    BY DEF Admitted, NoRecord, Record, States, Nonterminal, NoEpoch, NoWorker
  <2>2. /\ epoch \in Epochs /\ service = "serving" /\ rc = NoRecord /\ Write(r, Admitted)
        /\ Goto(epoch, r, "recorded") /\ UNCHANGED <<marker, index>>
    BY <1>1, <1>3 DEF Admit
  <2>3. rec'[r] = Admitted /\ \A q \in Requests \ {r} : rec'[q] = rec[q]
    BY <1>1, <2>1, <2>2, WriteFacts
  <2>4. /\ thr'[epoch][r].pc = "recorded" /\ OtherThreadsSame(epoch, r)
        /\ thr'[epoch][r].resumed = thr[epoch][r].resumed
        /\ thr'[epoch][r].phase = thr[epoch][r].phase
    BY <1>1, <2>2, GotoFacts, GotoExact DEF PCs, SameWork, SameTurn
  <2>5. \A f \in Epochs : /\ thr[f][r].pc = "idle" /\ ~thr[f][r].resumed
                          /\ r \notin Checkpointed => thr[f][r].phase # "presubmit"
    BY <1>1, <2>2 DEF NoRecord, WorkTracked, AbsentIsUntouched, At, WellFormed, WellFormedThread,
                      Bound, TurnPCs, Once, NotYetGiven
  <2>6. \A f \in Epochs : /\ thr'[f][r].pc \in {"idle", "recorded"} /\ ~thr'[f][r].resumed
                          /\ r \notin Checkpointed => thr'[f][r].phase # "presubmit"
                          /\ f # epoch => thr'[f][r].pc = "idle"
    BY <2>4, <2>5 DEF OtherThreadsSame
  <2>7. Given(r)' = 0 /\ Unmarked(r)'
    BY <1>1, <1>2, <2>2 DEF Once, FreshRecord, NoRecord, Given, Unmarked
  <2>8. scan[r] = Unscanned /\ Unscanned.pc = "todo"
    BY <2>2 DEF Custody, Held, PassKeeps, Unscanned
  <2>9. Alone(r)'
    BY <1>2, <2>2, <2>6 DEF Alone, At
  <2>10. PassSettlesWorkers(r)'
    BY <1>2, <2>8 DEF PassSettlesWorkers
  <2>11. \A f \in Epochs : NotYetGiven(r, rec'[r], thr'[f][r], Given(r)')
    BY <2>1, <2>3, <2>6 DEF NotYetGiven, Begins, Waiting
  <2>12. Once(r)'
    BY <2>1, <2>3, <2>7, <2>9, <2>10, <2>11 DEF Once, FreshRecord
  <2>13. Local(r) /\ SameService
    BY <1>2, <2>2, <2>3, <2>4 DEF Local, OtherThreadsSame, SameService
  <2> QED
    BY <1>2, <2>12, <2>13, OnceFrame DEF OtherPromptsSame
<1>4. ASSUME NEW new \in Record, Write(r, new),
             \/ new.state \in TerminalStates
             \/ new.state = rc.state /\ new.recovery = rc.recovery,
             \A q \in Requests \ {r} : marker'[q] = marker[q] /\ index'[q] = index[q],
             \A f \in Epochs, q \in Requests \ {r} : thr'[f][q] = thr[f][q],
             \A f \in Epochs : \/ thr'[f][r] = Idle
                               \/ thr'[f][r].pc = thr[f][r].pc /\ SameTurn(thr[f][r], thr'[f][r])
      PROVE  OnceInv'
  <2>1. rec'[r] = new /\ \A q \in Requests \ {r} : rec'[q] = rec[q]
    BY <1>1, <1>4, WriteFacts
  <2>2. Once(r)'
    BY <1>1, <1>2, <1>4, <2>1, OnceKept
  <2>3. Local(r) /\ SameService
    BY <1>2, <1>4, <2>1 DEF Local, SameService
  <2> QED
    BY <1>2, <2>2, <2>3, OnceFrame DEF OtherPromptsSame
<1>5. CASE CancelByClient(r) \/ CancelRemote(r)
  <2> DEFINE new == CancelledOrMarked(rc)
  <2>1. new \in Record /\ Write(r, new) /\ UNCHANGED <<marker, index>>
    BY <1>1, <1>5, RecordTypes DEF CancelByClient, CancelRemote
  <2>2. \/ new.state \in TerminalStates
        \/ new.state = rc.state /\ new.recovery = rc.recovery
    BY <1>1 DEF CancelledOrMarked, Written, Record, TerminalStates
  <2> HIDE DEF new
  <2>3. CASE CancelRemote(r)
    BY <1>4, <2>1, <2>2, <2>3 DEF CancelRemote, SameWork, SameTurn
  <2>4. CASE CancelByClient(r)
    <3> DEFINE t == thr[epoch][r]
               u == CASE t.pc = "pending" -> Idle
                      [] t.pc \in Tracked -> [t EXCEPT !.cancelled = TRUE]
                      [] OTHER -> t
               marked == [t EXCEPT !.cancelled = TRUE]
    <3>1. epoch \in Epochs /\ t \in Thread /\ Become(epoch, r, u)
      BY <1>1, <2>4 DEF CancelByClient, TypeOK
    <3>2. marked \in Thread /\ marked.pc = t.pc /\ SameTurn(t, marked)
      BY <3>1 DEF Thread, SameWork, SameTurn
    <3>3. u = Idle \/ u = marked \/ u = t
      OBVIOUS
    <3> HIDE DEF u, marked
    <3>4. u \in Thread /\ (u = Idle \/ (u.pc = t.pc /\ SameTurn(t, u)))
      BY <3>1, <3>2, <3>3, IdleIsThread DEF SameWork, SameTurn
    <3>5. thr'[epoch][r] = u /\ OtherThreadsSame(epoch, r)
      BY <1>1, <3>1, <3>4, BecomeFacts
    <3>6. \A f \in Epochs : \/ thr'[f][r] = Idle
                            \/ thr'[f][r].pc = thr[f][r].pc /\ SameTurn(thr[f][r], thr'[f][r])
      BY <3>4, <3>5 DEF OtherThreadsSame, SameWork, SameTurn
    <3>7. \A f \in Epochs, q \in Requests \ {r} : thr'[f][q] = thr[f][q]
      BY <3>5 DEF OtherThreadsSame
    <3> QED
      BY <1>4, <2>1, <2>2, <3>6, <3>7
  <2> QED
    BY <1>5, <2>3, <2>4
<1>6. CASE Supervisor(r) \/ ExpireSession(r) \/ OperatorComplete(r)
  <2>1. PICK new \in Record : Write(r, new) /\ new.state \in TerminalStates
    <3>1. CASE Supervisor(r)
      <4>1. PICK state \in {"failed", "interrupted", "cancelled"} : Write(r, Finished(rc, state))
        BY <3>1 DEF Supervisor
      <4>2. state \in States /\ state \in TerminalStates
        BY DEF States, TerminalStates
      <4>3. Finished(rc, state) \in Record /\ Finished(rc, state).state = state
        BY <1>1, <4>2, RecordTypes, RecordEffects
      <4> QED
        BY <4>1, <4>2, <4>3
    <3>2. CASE ExpireSession(r)
      <4>1. Expired(rc) \in Record /\ Expired(rc).state = "interrupted"
        BY <1>1, RecordTypes, RecordEffects
      <4> QED
        BY <3>2, <4>1 DEF ExpireSession, TerminalStates
    <3>3. CASE OperatorComplete(r)
      <4>1. Captured(rc) \in Record /\ Captured(rc).state = "completed"
        BY <1>1, RecordTypes, RecordEffects
      <4> QED
        BY <3>3, <4>1 DEF OperatorComplete, TerminalStates
    <3> QED
      BY <1>6, <3>1, <3>2, <3>3
  <2>2. /\ thr' = thr
        /\ \A q \in Requests \ {r} : marker'[q] = marker[q] /\ index'[q] = index[q]
    BY <1>1, <1>6 DEF Supervisor, ExpireSession, OperatorComplete, ClearWork, TypeOK
  <2> QED
    BY <1>4, <2>1, <2>2 DEF SameWork, SameTurn
<1> QED
  BY <1>3, <1>5, <1>6 DEF OutsideStep

(* While the pass runs nobody has a thread.                                *)
LEMMA ScanOnce ==
    ASSUME IInv, Custody, Custody', OnceInv, NEW r \in Requests,
           ScanClear(r) \/ ScanRead(r) \/ TakeOver(r) \/ Settle(r) \/ Repair(r)
    PROVE  OnceInv'
<1> DEFINE rc == rec[r]
<1>1. /\ TypeOK /\ rc \in Record /\ scan[r] \in Scan /\ epoch \in Epochs
      /\ service = "recovering" /\ Once(r) /\ WellFormed(r) /\ PassKeeps(r)
      /\ WellFormed(r)' /\ PassKeeps(r)'
  <2>1. service = "recovering"
    BY DEF ScanClear, ScanRead, TakeOver, Settle, Repair, Scanning
  <2> QED
    BY <2>1, EpochServes DEF TypeOK, Custody, Held, OnceInv
<1>2. UNCHANGED <<epoch, service, thr, prompt>>
  BY DEF ScanClear, ScanRead, TakeOver, Settle, Repair
<1>3. \A f \in Epochs : /\ thr[f][r].pc = "idle" /\ ~thr[f][r].resumed
                        /\ r \notin Checkpointed => thr[f][r].phase # "presubmit"
  BY <1>1 DEF Once, Alone, At, WellFormed, WellFormedThread, Bound, TurnPCs, NotYetGiven
<1>4. /\ \A new, n : \A f \in Epochs : NotYetGiven(r, new, thr[f][r], n)
      /\ Given(r)' = Given(r) /\ Unmarked(r)' = Unmarked(r)
  BY <1>2, <1>3 DEF NotYetGiven, Begins, Waiting, Given, Unmarked
<1>5. ASSUME FreshRecord(rec'[r], Given(r)), PassSettlesWorkers(r)', Local(r)
      PROVE  OnceInv'
  <2>1. Alone(r)'
    BY <1>2, <1>3 DEF Alone, At
  <2>2. Once(r)'
    BY <1>1, <1>2, <1>4, <1>5, <2>1 DEF Once
  <2> QED
    BY <1>2, <1>5, <2>2, OnceFrame DEF SameService, OtherPromptsSame
<1>6. FreshRecord(rc, Given(r)) /\ PassSettlesWorkers(r)
  BY <1>1 DEF Once
<1>7. CASE ScanClear(r)
  <2>1. rec' = rec /\ scan'[r].pc = "done" /\ \A q \in Requests \ {r} : scan'[q] = scan[q]
    BY <1>1, <1>7 DEF ScanClear, ScanTo, TypeOK, Scan
  <2>2. scan[r] = Unscanned /\ scan'[r].state = "absent"
    BY <1>1, <1>7 DEF ScanClear, ScanTo, TypeOK, Scan, PassKeeps, Unscanned
  <2>3. Unfinished(r)' => rec'[r].state = "queued"
    <3>1. Unfinished(r)' => Adopted(r)' \/ LeftAlone(r)'
      BY <1>1, <1>2, <2>1 DEF PassKeeps
    <3>2. Unfinished(r)' => ~Adopted(r)'
      BY <2>2 DEF Adopted, Unfinished, Nonterminal
    <3> QED
      BY <1>1, <3>1, <3>2 DEF LeftAlone, WellFormed, WellFormedRecord, Unfinished, Nonterminal
  <2>4. Local(r)
    BY <1>1, <1>2, <1>7, <2>1 DEF Local, ScanClear, ClearWork, TypeOK
  <2> QED
    BY <1>5, <1>6, <2>1, <2>3, <2>4 DEF PassSettlesWorkers
<1>8. CASE ScanRead(r)
  <2>1. /\ scan'[r].pc = "found" /\ scan'[r].state = rc.state
        /\ \A q \in Requests \ {r} : scan'[q] = scan[q]
    BY <1>1, <1>8 DEF ScanRead, TypeOK
  <2>2. UNCHANGED <<rec, marker, index>>
    BY <1>8 DEF ScanRead, durable
  <2>3. Local(r)
    BY <1>2, <2>1, <2>2 DEF Local
  <2> QED
    BY <1>5, <1>6, <2>1, <2>2, <2>3 DEF PassSettlesWorkers
<1>9. CASE TakeOver(r)
  <2> DEFINE w == TakeoverWorker(r)
             new == TakenOver(rc, epoch, w)
             next == IF MustSettle(r) THEN "settle" ELSE "repair"
  <2>1. w \in Workers \cup {NoWorker}
    BY <1>1 DEF TakeoverWorker, Workers
  <2>2. /\ Write(r, new) /\ scan[r].pc = "found"
        /\ scan' = [scan EXCEPT ![r] = [scan[r] EXCEPT !.pc = next, !.state = rc.state]]
        /\ UNCHANGED <<marker, index>>
    BY <1>9 DEF TakeOver
  <2>3. scan'[r].pc = next /\ \A q \in Requests \ {r} : scan'[q] = scan[q]
    BY <1>1, <2>2 DEF TypeOK, Scan
  <2>4. next = "repair" => (scan[r].state # "running" \/ Session(r))
    BY DEF MustSettle
  <2>5. next \in {"settle", "repair"}
    OBVIOUS
  <2>6. new \in Record /\ new.state = rc.state
    BY <1>1, <2>1, RecordTypes, TakeoverEffect
  <2>7. new.state \in {"absent", "queued"} => (new.recovery => rc.recovery)
    BY <1>1 DEF TakenOver, Written, Record
  <2> HIDE DEF new, next
  <2>8. rec'[r] = new /\ \A q \in Requests \ {r} : rec'[q] = rec[q]
    BY <1>1, <2>2, <2>6, WriteFacts
  <2>9. (next = "repair" /\ ~Session(r) /\ Unfinished(r)) => rc.state = "queued"
    BY <1>6, <2>2, <2>4 DEF PassSettlesWorkers, Unfinished, Nonterminal
  <2>10. PassSettlesWorkers(r)'
    BY <2>3, <2>5, <2>6, <2>8, <2>9 DEF PassSettlesWorkers, Unfinished
  <2>11. Local(r)
    BY <1>2, <2>2, <2>3, <2>8 DEF Local
  <2>12. FreshRecord(rec'[r], Given(r))
    BY <1>6, <2>6, <2>7, <2>8 DEF FreshRecord
  <2> QED
    BY <1>5, <2>10, <2>11, <2>12
<1>10. CASE Settle(r)
  <2> DEFINE outcome == IF scan[r].cancel THEN "cancelled" ELSE "interrupted"
  <2>1. outcome \in States /\ outcome \notin Nonterminal /\ outcome # "absent"
    BY DEF States, TerminalStates, Nonterminal
  <2>2. Write(r, Finished(rc, outcome)) /\ ClearWork(r)
    BY <1>10 DEF Settle
  <2> HIDE DEF outcome
  <2>3. Finished(rc, outcome) \in Record /\ Finished(rc, outcome).state = outcome
    BY <1>1, <2>1, RecordTypes, RecordEffects
  <2>4. rec'[r] = Finished(rc, outcome) /\ \A q \in Requests \ {r} : rec'[q] = rec[q]
    BY <1>1, <2>2, <2>3, WriteFacts
  <2>5. \A q \in Requests \ {r} : scan'[q] = scan[q]
    BY <1>1, <1>10 DEF Settle, TypeOK
  <2>6. Local(r)
    BY <1>1, <1>2, <2>2, <2>4, <2>5 DEF Local, ClearWork, TypeOK
  <2>7. FreshRecord(rec'[r], Given(r)) /\ PassSettlesWorkers(r)'
    BY <2>1, <2>3, <2>4 DEF FreshRecord, PassSettlesWorkers, Unfinished, Nonterminal
  <2> QED
    BY <1>5, <2>6, <2>7
<1>11. CASE Repair(r)
  <2>1. rec' = rec /\ scan[r].pc = "repair"
    BY <1>11 DEF Repair
  <2>2. /\ scan'[r].pc = "done" /\ \A q \in Requests \ {r} : scan'[q] = scan[q]
    BY <1>1, <1>11 DEF Repair, ScanTo, TypeOK, Scan
  <2>3. \A q \in Requests \ {r} : index'[q] = index[q] /\ marker'[q] = marker[q]
    BY <1>1, <1>11, RepairIndexFacts DEF Repair, TypeOK
  <2>4. Local(r)
    BY <1>2, <2>1, <2>2, <2>3 DEF Local
  <2>5. PassSettlesWorkers(r)'
    BY <1>6, <2>1, <2>2 DEF PassSettlesWorkers, Unfinished
  <2> QED
    BY <1>5, <1>6, <2>1, <2>4, <2>5
<1> QED
  BY <1>7, <1>8, <1>9, <1>10, <1>11

(* The end of a generation takes its threads, and so all there are.        *)
LEMMA EndOnce ==
    ASSUME Custody, OnceInv, service' # "serving", prompt' = prompt,
           \A q \in Requests :
              /\ rec'[q].state = rec[q].state /\ rec'[q].recovery = rec[q].recovery
              /\ scan'[q] = Unscanned
              /\ \A f \in Epochs : \/ thr'[f][q] = Idle
                                   \/ /\ thr'[f][q].pc = "idle" /\ ~thr'[f][q].resumed
                                      /\ thr'[f][q] = thr[f][q]
    PROVE  OnceInv'
<1> SUFFICES ASSUME NEW q \in Requests PROVE Once(q)'
  BY DEF OnceInv
<1>1. /\ Once(q) /\ Unscanned.pc = "todo" /\ Given(q)' = Given(q) /\ Unmarked(q)' = Unmarked(q)
      /\ Idle.pc = "idle" /\ ~Idle.resumed /\ Idle.phase = "none"
  BY DEF OnceInv, Unscanned, Given, Unmarked, Idle
<1>2. Alone(q)'
  BY <1>1 DEF Alone, At
<1>3. \A f \in Epochs : NotYetGiven(q, rec'[q], thr'[f][q], Given(q)')
  BY <1>1 DEF Once, NotYetGiven, Begins, Waiting
<1>4. PassSettlesWorkers(q)'
  BY <1>1 DEF PassSettlesWorkers
<1> QED
  BY <1>1, <1>2, <1>3, <1>4 DEF Once, FreshRecord

LEMMA CrashOnce ==
    ASSUME IInv, Custody, OnceInv, NEW e \in Epochs, Die(e),
           UNCHANGED rec \/ \E r \in Requests : CrashInClaim(e, r)
    PROVE  OnceInv'
<1>1. /\ TypeOK /\ prompt' = prompt /\ epoch' = epoch
      /\ \A q \in Requests : Once(q) /\ WellFormed(q) /\ rec[q] \in Record
      /\ \A q \in Requests : thr'[e][q] = Idle
      /\ \A f \in Epochs, q \in Requests : thr'[f][q] = thr[f][q] \/ thr'[f][q] = Idle
  BY EpochServes, DieFacts DEF Custody, Held, OnceInv
<1>2. \A q \in Requests : rec'[q].state = rec[q].state /\ rec'[q].recovery = rec[q].recovery
  <2>1. ASSUME NEW r \in Requests, CrashInClaim(e, r)
        PROVE  \A q \in Requests : rec'[q].state = rec[q].state /\ rec'[q].recovery = rec[q].recovery
    <3>1. /\ Claimed(rec[r], e) \in Record /\ Claimed(rec[r], e).state = rec[r].state
          /\ Claimed(rec[r], e).recovery = rec[r].recovery
      <4>1. Claimed(rec[r], e) \in Record /\ Claimed(rec[r], e).state = rec[r].state
        BY <1>1, RecordTypes, RecordEffects
      <4>2. Claimed(rec[r], e).recovery = rec[r].recovery
        BY <1>1 DEF Claimed, Written, Record
      <4> QED
        BY <4>1, <4>2
    <3>2. Write(r, Claimed(rec[r], e))
      BY <2>1 DEF CrashInClaim
    <3>3. rec'[r] = Claimed(rec[r], e) /\ \A q \in Requests \ {r} : rec'[q] = rec[q]
      BY <1>1, <3>1, <3>2, WriteFacts
    <3> QED
      BY <3>1, <3>3
  <2> QED
    BY <2>1
<1>3. Idle.pc = "idle" /\ ~Idle.resumed
  BY DEF Idle
<1>4. CASE e = epoch
  <2>1. service' = "down" /\ \A q \in Requests : scan'[q] = Unscanned
    BY <1>4 DEF Die
  <2>2. \A f \in Epochs, q \in Requests :
           \/ thr'[f][q] = Idle
           \/ thr'[f][q].pc = "idle" /\ ~thr'[f][q].resumed /\ thr'[f][q] = thr[f][q]
    <3> SUFFICES ASSUME NEW f \in Epochs, NEW q \in Requests, thr'[f][q] # Idle
                 PROVE  thr'[f][q].pc = "idle" /\ ~thr'[f][q].resumed /\ thr'[f][q] = thr[f][q]
      OBVIOUS
    <3>1. f # e => thr[f][q].pc = "idle" /\ ~thr[f][q].resumed
      BY <1>1, <1>4 DEF Once, Alone, At, WellFormed, WellFormedThread, Bound, TurnPCs
    <3> QED
      BY <1>1, <1>3, <3>1
  <2> QED
    BY <1>1, <1>2, <2>1, <2>2, EndOnce
<1>5. CASE e # epoch
  <2> SUFFICES ASSUME NEW q \in Requests PROVE Once(q)'
    BY DEF OnceInv
  <2>1. service' = service /\ scan' = scan
    BY <1>5 DEF Die
  <2>2. \A f \in Epochs : \/ thr'[f][q] = Idle
                          \/ thr'[f][q].pc = thr[f][q].pc /\ SameTurn(thr[f][q], thr'[f][q])
    BY <1>1 DEF SameWork, SameTurn
  <2> QED
    BY <1>1, <1>2, <2>1, <2>2, OnceKept
<1> QED
  BY <1>4, <1>5

LEMMA ServiceOnce ==
    ASSUME ~Overlap, IInv, Custody, OnceInv,
           StartService \/ Retire \/ \E r \in Requests : RecoveryFails(r)
    PROVE  OnceInv'
<1>1. /\ TypeOK
      /\ \A q \in Requests : Once(q) /\ WellFormed(q) /\ PassKeeps(q)
      /\ service # "down" => epoch \in Epochs
  BY EpochServes DEF Custody, Held, OnceInv
<1>2. rec' = rec /\ prompt' = prompt /\ service' # "serving"
  BY DEF StartService, Retire, RecoveryFails, durable
<1>3. \A q \in Requests : scan'[q] = Unscanned
  BY <1>1 DEF StartService, Retire, RecoveryFails, PassKeeps
<1>4. \A f \in Epochs, q \in Requests :
         \/ thr'[f][q] = Idle
         \/ thr'[f][q].pc = "idle" /\ ~thr'[f][q].resumed /\ thr'[f][q] = thr[f][q]
  <2> SUFFICES ASSUME NEW f \in Epochs, NEW q \in Requests, thr'[f][q] # Idle
               PROVE  thr'[f][q].pc = "idle" /\ ~thr'[f][q].resumed /\ thr'[f][q] = thr[f][q]
    OBVIOUS
  <2>1. (f # epoch \/ service # "serving") => thr[f][q].pc = "idle" /\ ~thr[f][q].resumed
    BY <1>1 DEF Once, Alone, At, WellFormed, WellFormedThread, Bound, TurnPCs
  <2>2. CASE ~Retire
    BY <2>1, <2>2 DEF StartService, RecoveryFails, Scanning
  <2>3. CASE Retire
    <3> DEFINE ts == [r \in Requests |->
                        IF ~Overlap \/ thr[epoch][r].pc \in {"pending", "resume", "timer"}
                          THEN Idle ELSE thr[epoch][r]]
    <3>1. epoch \in Epochs
      BY <1>1, <2>3 DEF Retire
    <3>2. thr' = [thr EXCEPT ![epoch] = ts]
      BY <1>1, <2>3, <3>1 DEF Retire, TypeOK
    <3>3. ts[q] = Idle
      OBVIOUS
    <3> HIDE DEF ts
    <3>4. thr'[f][q] = Idle \/ (f # epoch /\ thr'[f][q] = thr[f][q])
      BY <1>1, <3>1, <3>2, <3>3 DEF TypeOK
    <3> QED
      BY <2>1, <3>4
  <2> QED
    BY <2>2, <2>3
<1> QED
  BY <1>2, <1>3, <1>4, EndOnce

LEMMA ServeOnce ==
    ASSUME IInv, Custody, OnceInv, Serve
    PROVE  OnceInv'
<1>1. /\ TypeOK /\ epoch \in Epochs /\ service = "recovering"
      /\ rec' = rec /\ epoch' = epoch /\ service' = "serving" /\ prompt' = prompt
      /\ scan' = [r \in Requests |-> Unscanned]
  BY EpochServes DEF Serve, durable
<1>2. PICK ts \in [Requests -> UNION {RebuiltThreads(r) : r \in Requests}] :
          (\A r \in Requests : ts[r] \in RebuiltThreads(r)) /\ thr' = [thr EXCEPT ![epoch] = ts]
  BY DEF Serve
<1>3. \A f \in Epochs : thr'[f] = IF f = epoch THEN ts ELSE thr[f]
  BY <1>1, <1>2 DEF TypeOK
<1> SUFFICES ASSUME NEW q \in Requests PROVE Once(q)'
  BY DEF OnceInv
<1>4. /\ Once(q) /\ WellFormed(q) /\ scan[q].pc = "done" /\ scan'[q] = Unscanned
      /\ Unscanned.pc = "todo" /\ Given(q)' = Given(q) /\ Unmarked(q)' = Unmarked(q)
  BY <1>1 DEF Custody, Held, OnceInv, Serve, Unscanned, Given, Unmarked
(* A running session without a checkpoint is only observed.                *)
<1>5. /\ ts[q].pc \in {"idle", "resume", "pending", "timer"} /\ ~ts[q].resumed
      /\ ts[q].phase = "none"
      /\ (q \notin Checkpointed /\ Session(q) /\ ts[q].pc # "idle" /\ rec[q].state = "running")
           => ts[q].observe
  <2> DEFINE observe == Session(q) /\ ~ProvenUnsent(q)
             resume == [Idle EXCEPT !.pc = "resume", !.observe = observe]
             pending == [Idle EXCEPT !.pc = "pending"]
             timer == [resume EXCEPT !.pc = "timer", !.worker = rec[q].worker, !.attempt = rec[q].attempt]
  <2>1. ts[q] \in RebuiltThreads(q)
    BY <1>2
  <2>2. \/ ts[q] \in {resume, timer, Idle}
        \/ ts[q] = pending /\ rec[q].state = "queued"
    BY <2>1, Zenon DEF RebuiltThreads
  <2>3. (q \notin Checkpointed /\ Session(q)) => observe
    BY <1>4 DEF Once, Unmarked, ProvenUnsent
  <2> HIDE DEF observe
  <2>4. /\ resume.pc = "resume" /\ ~resume.resumed /\ pending.pc = "pending" /\ ~pending.resumed
        /\ timer.pc = "timer" /\ ~timer.resumed /\ Idle.pc = "idle" /\ ~Idle.resumed
        /\ resume.phase = "none" /\ pending.phase = "none" /\ timer.phase = "none"
        /\ Idle.phase = "none" /\ resume.observe = observe /\ timer.observe = observe
    BY DEF Idle
  <2> HIDE DEF resume, pending, timer
  <2> QED
    BY <2>2, <2>3, <2>4
<1>6. \A f \in Epochs \ {epoch} :
         /\ thr[f][q].pc = "idle" /\ ~thr[f][q].resumed
         /\ q \notin Checkpointed => thr[f][q].phase # "presubmit"
  BY <1>1, <1>4 DEF Once, Alone, At, WellFormed, WellFormedThread, Bound, TurnPCs, NotYetGiven
<1>7. Alone(q)'
  BY <1>1, <1>3, <1>5, <1>6 DEF Alone, At
<1>8. \A f \in Epochs : NotYetGiven(q, rec'[q], thr'[f][q], Given(q)')
  <2>1. NotYetGiven(q, rec[q], ts[q], Given(q))
    BY <1>5 DEF NotYetGiven, Begins, Waiting
  <2>2. \A f \in Epochs \ {epoch} : NotYetGiven(q, rec[q], thr[f][q], Given(q))
    BY <1>6 DEF NotYetGiven, Begins, Waiting
  <2> QED
    BY <1>1, <1>3, <1>4, <2>1, <2>2
<1>9. (~Session(q) /\ rec'[q].state = "running") => ~rec'[q].recovery
  BY <1>1, <1>4 DEF Once, PassSettlesWorkers, Unfinished, Nonterminal
<1>10. PassSettlesWorkers(q)'
  BY <1>4 DEF PassSettlesWorkers
<1> QED
  BY <1>1, <1>4, <1>7, <1>8, <1>9, <1>10 DEF Once

LEMMA InitOnce == Init => OnceInv
<1> SUFFICES ASSUME Init, NEW r \in Requests PROVE Once(r)
  BY DEF OnceInv
<1>1. /\ rec[r] = NoRecord /\ scan[r] = Unscanned /\ service = "down" /\ prompt[r] = NotSent
      /\ \A e \in Epochs : thr[e][r] = Idle
  BY DEF Init
<1>2. /\ ~NoRecord.recovery /\ Unscanned.pc = "todo"
      /\ Idle.pc = "idle" /\ ~Idle.resumed /\ Idle.phase = "none"
      /\ NotSent.stage = "none" /\ NotSent.phase = "none" /\ NotSent.sent = 0
  BY DEF NoRecord, Idle, Unscanned, NotSent
<1>3. Given(r) = 0 /\ Unmarked(r)
  BY <1>1, <1>2 DEF Given, Unmarked
<1> QED
  BY <1>1, <1>2, <1>3
     DEF Once, Alone, At, FreshRecord, NotYetGiven, PassSettlesWorkers, Begins, Waiting, NoRecord

LEMMA NextOnce ==
    ASSUME ~Overlap, IInv, Custody, OnceInv, [Next]_vars
    PROVE  OnceInv'
<1>1. CASE UNCHANGED vars
  <2>1. /\ UNCHANGED <<rec, epoch, service, thr, scan, prompt>>
    BY <1>1 DEF vars
  <2> QED
    BY <2>1 DEF OnceInv, Once, Alone, PassSettlesWorkers, Unfinished, At, Given, Unmarked
<1>2. ASSUME NEW e \in Epochs, NEW r \in Requests, ThreadStep(e, r) \/ CrashInClaim(e, r)
      PROVE  OnceInv'
  <2>1. CASE ThreadStep(e, r)
    BY <2>1, ThreadStepOnce
  <2>2. CASE CrashInClaim(e, r)
    BY <2>2, CrashOnce DEF CrashInClaim
  <2> QED
    BY <1>2, <2>1, <2>2
<1>3. ASSUME NEW r \in Requests, ScanStep(r)
      PROVE  OnceInv'
  BY <1>3, NextCustody, ScanOnce, ServiceOnce DEF ScanStep
<1>4. ASSUME NEW r \in Requests, OutsideStep(r)
      PROVE  OnceInv'
  BY <1>4, OutsideOnce
<1>5. ASSUME NEW r \in Requests, CrashInRepair(r)
      PROVE  OnceInv'
  <2>1. epoch \in Epochs /\ Die(epoch) /\ UNCHANGED rec
    BY <1>5, EpochServes DEF CrashInRepair, Scanning
  <2> QED
    BY <2>1, CrashOnce
<1>6. ASSUME NEW e \in Epochs, Crash(e)
      PROVE  OnceInv'
  BY <1>6, CrashOnce DEF Crash, durable
<1>7. CASE StartService \/ Retire
  BY <1>7, ServiceOnce
<1>8. CASE Serve
  BY <1>8, ServeOnce
<1> QED
  BY <1>1, <1>2, <1>3, <1>4, <1>5, <1>6, <1>7, <1>8 DEF Next

-----------------------------------------------------------------------------
(* The submission checkpoint, with generations that overlap.  A thread may *)
(* still send when it is past the recorded intent, or when it is about to  *)
(* record it and its generation owns the running request.  There is at     *)
(* most one such thread, nothing was sent before it, and every write of    *)
(* the checkpoint is made by the owner.  That an older generation does not *)
(* get the request back is what makes the owner unique.                    *)
Acting == TurnPCs \cup {"start"}

Sender(e, r) ==
    \/ At(e, r, "click")
    \/ At(e, r, "sending") /\ rec[r].state = "running" /\ rec[r].owner = e

ActsBehindOwner(r) ==
    \A e \in Epochs : (thr[e][r].pc \in Acting /\ Unfinished(r)) => rec[r].owner >= e

SubmitsStarted(r) ==
    \A e \in Epochs : thr[e][r].pc \in Submitting => rec[r].state \notin {"absent", "queued"}

SenderAlone(r) ==
    /\ \A e \in Epochs :
         /\ Sender(e, r) => prompt[r].sent = 0 /\ prompt[r].stage \in {"dispatching", "committed"}
         /\ At(e, r, "click") => prompt[r].stage = "committed"
    /\ \A e, f \in Epochs : Sender(e, r) /\ Sender(f, r) => e = f

SentIsCommitted(r) ==
    prompt[r].sent <= 1 /\ (prompt[r].sent > 0 => prompt[r].stage = "committed")

Fenced(r) == ActsBehindOwner(r) /\ SubmitsStarted(r) /\ SenderAlone(r) /\ SentIsCommitted(r)

FencedInv == \A r \in Checkpointed : Fenced(r)

(* What no step undoes: a request that left the queue does not return to   *)
(* it, and its owner is never an older generation again.                   *)
Onward(rc, new) ==
    /\ new.state \in {"absent", "queued"} => rc.state \in {"absent", "queued"}
    /\ (new.state \in Nonterminal /\ rc.state # "absent") =>
         rc.state \in Nonterminal /\ new.owner >= rc.owner

LEMMA RecordOnward ==
    ASSUME IInv, [Next]_vars, NEW q \in Requests
    PROVE  Onward(rec[q], rec'[q])
<1>1. rec[q].owner \in Nat /\ rec[q].state \in States
  BY EpochAssumption DEF IInv, TypeOK, Record, Epochs, NoEpoch
<1>2. CASE rec'[q] = rec[q]
  BY <1>1, <1>2 DEF Onward
<1>3. CASE RecordStep(q)
  <2>1. \A s \in TerminalStates : s \notin Nonterminal /\ s \notin {"absent", "queued"}
    BY DEF TerminalStates, Nonterminal
  <2>2. CASE Kept(q) \/ Acquired(q) \/ Begun(q)
    BY <1>1, <2>2 DEF Kept, Acquired, Begun, Onward, Epochs, Nonterminal
  <2>3. CASE Submitted(q)
    BY <2>3 DEF Submitted, Onward
  <2>4. CASE Resolved(q) \/ CapturedNow(q)
    BY <2>1, <2>4 DEF Resolved, CapturedNow, Onward, TerminalStates
  <2> QED
    BY <1>3, <2>2, <2>3, <2>4 DEF RecordStep
<1>4. UNCHANGED rec \/ \E r \in Requests : RecordStep(r)
  BY NextPreserves
<1>5. ASSUME NEW r \in Requests, r # q, RecordStep(r)
      PROVE  rec'[q] = rec[q]
  BY <1>5 DEF RecordStep
<1> QED
  BY <1>2, <1>3, <1>4, <1>5

(* A thread that stays where it is does not become a sender.              *)
LEMMA SenderStays ==
    ASSUME IInv, [Next]_vars, NEW q \in Requests, Fenced(q), NEW f \in Epochs,
           thr'[f][q].pc = thr[f][q].pc, Sender(f, q)'
    PROVE  Sender(f, q)
<1>1. CASE At(f, q, "click")'
  BY <1>1 DEF Sender, At
<1>2. CASE ~At(f, q, "click")'
  <2>1. /\ thr[f][q].pc = "sending" /\ rec'[q].state = "running" /\ rec'[q].owner = f
    BY <1>2 DEF Sender, At
  <2>2. rec[q].state \notin {"absent", "queued"}
    BY <2>1 DEF Fenced, SubmitsStarted, Submitting
  <2>3. Onward(rec[q], rec'[q])
    BY RecordOnward
  <2>4. rec[q].state = "running" /\ rec[q].owner <= f
    BY <2>1, <2>2, <2>3 DEF Onward, Nonterminal
  <2>5. rec[q].owner >= f
    BY <2>1, <2>4 DEF Fenced, ActsBehindOwner, Acting, TurnPCs, Unfinished, Nonterminal
  <2>6. rec[q].owner \in Nat /\ f \in Nat
    BY EpochAssumption DEF IInv, TypeOK, Record, Epochs, NoEpoch
  <2>7. rec[q].owner = f
    BY <2>4, <2>5, <2>6
  <2> QED
    BY <2>1, <2>4, <2>7 DEF Sender, At
<1> QED
  BY <1>1, <1>2

(* The owner of the request of an acting thread stays ahead of it.         *)
LEMMA OwnerStaysAhead ==
    ASSUME IInv, [Next]_vars, NEW q \in Requests, ActsBehindOwner(q), NEW f \in Epochs,
           thr[f][q].pc \in Acting, Unfinished(q)'
    PROVE  rec'[q].owner >= f
<1>1. IInv'
  BY NextPreserves
<1>2. rec[q] \in Record /\ rec'[q] \in Record
  BY <1>1 DEF IInv, TypeOK
<1>3. rec[q].owner \in Nat /\ rec'[q].owner \in Nat /\ f \in Nat
  BY <1>2, EpochAssumption DEF Record, Epochs, NoEpoch
<1>4. AbsentIsUntouched(q)
  BY DEF IInv, WorkTracked
<1>5. rec[q].state # "absent"
  BY <1>4 DEF AbsentIsUntouched, At, Acting, TurnPCs
<1>6. Onward(rec[q], rec'[q])
  BY RecordOnward
<1>7. Unfinished(q) /\ rec'[q].owner >= rec[q].owner
  BY <1>5, <1>6 DEF Onward, Unfinished
<1>8. rec[q].owner >= f
  BY <1>7 DEF ActsBehindOwner
<1> QED
  BY <1>3, <1>7, <1>8

(* Steps that leave the checkpoint alone and make no thread act.           *)
LEMMA FenceFrame ==
    ASSUME IInv, [Next]_vars, NEW q \in Requests, Fenced(q),
           prompt'[q] = prompt[q],
           \A f \in Epochs : thr'[f][q].pc \in Acting => thr'[f][q].pc = thr[f][q].pc
    PROVE  Fenced(q)'
<1>1. ActsBehindOwner(q)'
  BY OwnerStaysAhead DEF Fenced, ActsBehindOwner
<1>2. SubmitsStarted(q)'
  <2>1. Onward(rec[q], rec'[q])
    BY RecordOnward
  <2> QED
    BY <2>1 DEF Fenced, SubmitsStarted, Onward, Submitting, Acting, TurnPCs
<1>3. \A f \in Epochs : Sender(f, q)' => thr'[f][q].pc \in Acting
  BY DEF Sender, At, Acting, TurnPCs
<1>4. \A f \in Epochs : Sender(f, q)' => Sender(f, q)
  BY <1>3, SenderStays
<1>5. SenderAlone(q)'
  BY <1>4 DEF Fenced, SenderAlone, At, Acting, TurnPCs
<1> QED
  BY <1>1, <1>2, <1>5 DEF Fenced, SentIsCommitted

(* The steps of a thread that are not moves of its turn.                   *)
LEMMA QuietStep ==
    ASSUME TypeOK, NEW e \in Epochs, NEW r \in Requests, Session(r), WellFormed(r),
           ThreadStep(e, r), ~TurnMove(e, r)
    PROVE  /\ prompt'[r].stage = prompt[r].stage /\ prompt'[r].sent = prompt[r].sent
           /\ OtherPromptsSame(r)
           /\ thr'[e][r].pc \notin {"sending", "click"}
           /\ thr'[e][r].pc \in Acting => thr[e][r].pc \in Acting \/ rec'[r].owner = e
           /\ thr'[e][r].pc \in Submitting => rec'[r].state = "running"
<1> DEFINE rc == rec[r]
           t == thr[e][r]
           Goal == /\ prompt'[r].stage = prompt[r].stage /\ prompt'[r].sent = prompt[r].sent
                   /\ OtherPromptsSame(r)
                   /\ thr'[e][r].pc \notin {"sending", "click"}
                   /\ thr'[e][r].pc \in Acting => thr[e][r].pc \in Acting \/ rec'[r].owner = e
                   /\ thr'[e][r].pc \in Submitting => rec'[r].state = "running"
<1>1. /\ rc \in Record /\ t \in Thread /\ WellFormedThread(r, t)
  BY DEF TypeOK, WellFormed
<1>2. ASSUME prompt' = prompt, thr'[e][r].pc \notin Acting
      PROVE  Goal
  BY <1>2 DEF OtherPromptsSame, Acting, TurnPCs, Submitting
<1>3. Idle.pc \notin Acting
  BY DEF Idle, Acting, TurnPCs
(* The thread leaves, or goes on before or after its turn.                 *)
<1>4. ASSUME prompt' = prompt,
             Exit(e, r) \/ \E pc \in Waiting : Goto(e, r, pc)
      PROVE  Goal
  <2>1. CASE Exit(e, r)
    BY <1>2, <1>3, <1>4, <2>1, ExitExact
  <2>2. ASSUME NEW pc \in Waiting, Goto(e, r, pc)
        PROVE  Goal
    BY <1>2, <1>4, <2>2, GotoExact DEF PCs, Waiting, Acting, TurnPCs
  <2> QED
    BY <1>4, <2>1, <2>2
<1>5. CASE \/ AdmitIndex(e, r) \/ Enqueue(e, r) \/ Dequeue(e, r) \/ ClaimRefused(e, r)
           \/ TurnStopped(e, r) \/ DeferLost(e, r) \/ Sweep(e, r) \/ CheckCancelled(e, r)
           \/ EnqueueReject(e, r) \/ CheckStale(e, r)
  <2>1. prompt' = prompt
    BY <1>5 DEF AdmitIndex, Enqueue, Dequeue, ClaimRefused, TurnStopped, DeferLost, Sweep,
                CheckCancelled, EnqueueReject, CheckStale, RejectUnfenced
  <2>2. Exit(e, r) \/ \E pc \in Waiting : Goto(e, r, pc)
    BY <1>5 DEF AdmitIndex, Enqueue, Dequeue, ClaimRefused, TurnStopped, DeferLost, Sweep,
                CheckCancelled, EnqueueReject, CheckStale, RejectUnfenced, Waiting
  <2> QED
    BY <1>4, <2>1, <2>2
<1>6. CASE \/ CheckRecoveredCancel(e, r) \/ OpenCancelled(e, r) \/ RunEnds(e, r)
           \/ RunRaises(e, r) \/ DeferExhausted(e, r)
  <2>1. PICK state \in TerminalStates : \E id \in {IdentityOf(rc), Id(e, r)} : FinishAs(e, r, id, state)
    BY <1>6 DEF CheckRecoveredCancel, OpenCancelled, RunEnds, RunRaises, DeferExhausted, TerminalStates
  <2>2. prompt' = prompt /\ (thr'[e][r].pc = "sweep" \/ thr'[e][r] = Idle)
    BY <2>1, FinishExact DEF FinishAs
  <2> QED
    BY <1>2, <1>3, <2>2 DEF Acting, TurnPCs
<1>7. CASE CheckPass(e, r)
  <2>1. thr'[e][r] = [t EXCEPT !.pc = "claim", !.revision = rc.revision] /\ prompt' = prompt
    BY <1>7 DEF CheckPass, Become, TypeOK
  <2>2. thr'[e][r].pc = "claim"
    BY <1>1, <2>1 DEF Thread
  <2> QED
    BY <1>2, <2>1, <2>2 DEF Acting, TurnPCs
<1>8. CASE ClaimRecovered(e, r) \/ ClaimAgain(e, r) \/ ClaimFresh(e, r)
  <2>1. prompt' = prompt
    BY <1>8 DEF ClaimRecovered, ClaimAgain, ClaimFresh
  <2>2. rec'[r].owner = e
    <3>1. CASE ClaimRecovered(e, r) \/ ClaimAgain(e, r)
      BY <3>1 DEF ClaimRecovered, ClaimAgain, Recovered, IsRecoveredDispatch, AlreadyClaimed
    <3>2. CASE ClaimFresh(e, r)
      <4>1. Claimed(rc, e) \in Record /\ Claimed(rc, e).owner = e
        BY <1>1, RecordTypes, RecordEffects
      <4> QED
        BY <3>2, <4>1, WriteFacts DEF ClaimFresh
    <3> QED
      BY <1>8, <3>1, <3>2
  <2>3. thr'[e][r].pc \in {"turn", "start"}
    <3>1. CASE ClaimAgain(e, r)
      BY <3>1, GotoExact DEF ClaimAgain, PCs
    <3>2. CASE ClaimRecovered(e, r)
      <4>1. thr'[e][r] = [t EXCEPT !.pc = IF Session(r) THEN "turn" ELSE "start",
                                   !.worker = rc.worker, !.attempt = rc.attempt,
                                   !.revision = 0, !.resumed = TRUE]
        BY <3>2 DEF ClaimRecovered, Become, TypeOK
      <4> QED
        BY <1>1, <4>1 DEF Thread
    <3>3. CASE ClaimFresh(e, r)
      <4>1. thr'[e][r] = [t EXCEPT !.pc = "start", !.revision = rc.revision + 1]
        BY <3>3 DEF ClaimFresh, Become, TypeOK
      <4> QED
        BY <1>1, <4>1 DEF Thread
    <3> QED
      BY <1>8, <3>1, <3>2, <3>3
  <2> QED
    BY <2>1, <2>2, <2>3 DEF OtherPromptsSame, Submitting
<1>9. ~StartBound(e, r) /\ ~StartRecovered(e, r)
  BY <1>1 DEF StartBound, StartRecovered, At, WellFormedThread
<1>10. CASE Prepare(e, r)
  <2>1. prompt' = prompt /\ t.pc = "start"
    BY <1>10 DEF Prepare, At
  <2>2. CASE CanPrepare(rc, e, t.revision)
    <3>1. thr'[e][r] = [t EXCEPT !.pc = "turn", !.worker = Prepared(rc, e).worker,
                                 !.attempt = Prepared(rc, e).attempt, !.revision = 0]
      BY <1>10, <2>2 DEF Prepare, Become, TypeOK
    <3>2. thr'[e][r].pc = "turn"
      BY <1>1, <3>1 DEF Thread
    <3> QED
      BY <2>1, <3>2 DEF OtherPromptsSame, Acting, Submitting
  <2>3. CASE ~CanPrepare(rc, e, t.revision)
    BY <1>4, <1>10, <2>1, <2>3 DEF Prepare
  <2> QED
    BY <2>2, <2>3
<1>11. CASE StartTurn(e, r)
  <2>1. /\ t.pc = "starting" /\ rc.state \in Nonterminal /\ prompt' = prompt
        /\ Write(r, IF rc.state = "queued" THEN TurnStarted(rc) ELSE rc)
    BY <1>11 DEF StartTurn, At, CanStartTurn, TurnAlreadyStarted, Nonterminal
  <2>2. TurnStarted(rc) \in Record /\ TurnStarted(rc).state = "running"
    BY <1>1, RecordTypes, RecordEffects
  <2>3. rec'[r] = IF rc.state = "queued" THEN TurnStarted(rc) ELSE rc
    BY <1>1, <2>1, <2>2, WriteFacts
  <2>4. rec'[r].state = "running"
    BY <2>1, <2>2, <2>3 DEF Nonterminal
  <2>5. thr'[e][r].pc \in {"run", "prompt", "error"}
    BY <1>11, GotoExact DEF StartTurn, TurnPC, PCs
  <2> QED
    BY <2>1, <2>4, <2>5 DEF OtherPromptsSame, Acting, TurnPCs
<1>12. CASE Defer(e, r)
  <2>1. /\ RecordPhase(e, r)
        /\ \/ thr'[e][r] = [t EXCEPT !.pc = "timer", !.cancelled = FALSE]
           \/ thr'[e][r] = Idle
    BY <1>12, ExitExact DEF Defer, Become, TypeOK
  <2>2. thr'[e][r].pc \notin Acting
    <3>1. [t EXCEPT !.pc = "timer", !.cancelled = FALSE].pc = "timer"
      BY <1>1 DEF Thread
    <3> QED
      BY <1>3, <2>1, <3>1 DEF Acting, TurnPCs
  <2> QED
    BY <2>1, <2>2, PhaseFacts DEF Acting, TurnPCs, Submitting
<1>13. CASE TimerFires(e, r)
  <2>1. /\ prompt' = prompt
        /\ \/ thr'[e][r] = [Idle EXCEPT !.pc = "check", !.observe = t.observe]
           \/ thr'[e][r] = Idle
    BY <1>13, ExitExact DEF TimerFires, Become, TypeOK
  <2>2. thr'[e][r].pc \notin Acting
    <3>1. [Idle EXCEPT !.pc = "check", !.observe = t.observe].pc = "check"
      BY DEF Idle
    <3> QED
      BY <1>3, <2>1, <3>1 DEF Acting, TurnPCs
  <2> QED
    BY <1>2, <2>1, <2>2
<1> HIDE DEF rc, t, Goal
<1> QED
  BY <1>5, <1>6, <1>7, <1>8, <1>9, <1>10, <1>11, <1>12, <1>13, Zenon DEF ThreadStep, TurnMove


(* What a step of a thread does to its checkpoint.                         *)
Quiet(e, r) ==
    /\ prompt'[r].stage = prompt[r].stage /\ prompt'[r].sent = prompt[r].sent
    /\ thr'[e][r].pc \notin {"sending", "click"}

Readied(e, r) ==
    /\ SubmissionFence(e, r) /\ thr[e][r].pc \notin {"sending", "click"}
    /\ prompt[r].stage \in {"none", "prepared", "claimed"}
    /\ prompt'[r].sent = prompt[r].sent
    /\ \/ prompt'[r].stage \in {"prepared", "claimed"} /\ thr'[e][r].pc \notin {"sending", "click"}
       \/ prompt'[r].stage \in {"dispatching", "committed"} /\ thr'[e][r].pc = "sending"

Intended(e, r) ==
    /\ SubmissionFence(e, r) /\ At(e, r, "sending")
    /\ prompt'[r].stage = "committed" /\ prompt'[r].sent = prompt[r].sent
    /\ thr'[e][r].pc = "click"

Clicked(e, r) ==
    /\ At(e, r, "click")
    /\ prompt'[r].stage = prompt[r].stage /\ prompt'[r].sent = prompt[r].sent + 1
    /\ thr'[e][r].pc = "run"

Cleared(e, r) ==
    /\ SubmissionFence(e, r) /\ At(e, r, "sending") /\ prompt[r].stage = "dispatching"
    /\ prompt'[r].stage = "none" /\ prompt'[r].sent = prompt[r].sent
    /\ thr'[e][r].pc \notin {"sending", "click"}

LEMMA TurnCheckpoints ==
    ASSUME TypeOK, NEW e \in Epochs, NEW r \in Requests, r \in Checkpointed, TurnMove(e, r)
    PROVE  Quiet(e, r) \/ Readied(e, r) \/ Intended(e, r) \/ Clicked(e, r) \/ Cleared(e, r)
<1>1. \A stage \in Stages : Checkpoint(r, stage) =>
         prompt'[r].stage = stage /\ prompt'[r].sent = prompt[r].sent
  BY CheckpointFacts
<1>2. \A pc \in PCs : Goto(e, r, pc) => thr'[e][r].pc = pc
  BY GotoExact
<1>3. CASE OpenSession(e, r)
  BY <1>3, OpenFacts DEF OpenSession, Quiet
<1>4. CASE ClaimPrepared(e, r)
  <2>1. thr'[e][r].pc = "opened" /\ thr[e][r].pc = "turn"
    BY <1>4, OpenFacts DEF ClaimPrepared
  <2>2. prompt'[r].stage = "claimed" /\ prompt'[r].sent = prompt[r].sent
    BY <1>1, <1>4 DEF ClaimPrepared, Stages
  <2> QED
    BY <1>4, <2>1, <2>2 DEF ClaimPrepared, Reclaimable, Readied
<1>5. CASE \/ OpenRefused(e, r) \/ TurnCancelled(e, r) \/ TurnNeedsClaim(e, r)
           \/ TurnWithoutClaim(e, r) \/ StartTurnRefused(e, r) \/ PromptRefused(e, r)
           \/ SubmitAbandoned(e, r)
  <2>1. prompt' = prompt
    BY <1>5 DEF OpenRefused, TurnCancelled, TurnNeedsClaim, TurnWithoutClaim, StartTurnRefused,
                PromptRefused, SubmitAbandoned
  <2>2. \E pc \in {"error", "starting", "run", "prompt"} : Goto(e, r, pc)
    BY <1>5 DEF OpenRefused, TurnCancelled, TurnNeedsClaim, TurnWithoutClaim, TurnPC,
                StartTurnRefused, PromptRefused, SubmitAbandoned
  <2>3. thr'[e][r].pc \in {"error", "starting", "run", "prompt"}
    BY <1>2, <2>2 DEF PCs
  <2> QED
    BY <2>1, <2>3 DEF Quiet
<1>6. ~SendUnfenced(e, r)
  BY DEF SendUnfenced
<1>7. CASE PreparePrompt(e, r)
  <2>1. prompt'[r].stage = "prepared" /\ prompt'[r].sent = prompt[r].sent
    BY <1>1, <1>7 DEF PreparePrompt, Stages
  <2>2. thr'[e][r].pc = "prepared"
    BY <1>2, <1>7 DEF PreparePrompt, PCs
  <2> QED
    BY <1>7, <2>1, <2>2 DEF PreparePrompt, CanPreparePrompt, At, Readied
<1>8. CASE DispatchPrompt(e, r)
  <2>1. prompt'[r].stage = "dispatching" /\ prompt'[r].sent = prompt[r].sent
    BY <1>1, <1>8 DEF DispatchPrompt, Stages
  <2>2. thr'[e][r].pc = "sending"
    BY <1>2, <1>8 DEF DispatchPrompt, PCs
  <2> QED
    BY <1>8, <2>1, <2>2 DEF DispatchPrompt, CanDispatchPrompt, At, Readied
<1>9. CASE DispatchClaimed(e, r)
  <2>1. prompt'[r].stage = "committed" /\ prompt'[r].sent = prompt[r].sent
    BY <1>1, <1>9 DEF DispatchClaimed, Stages
  <2>2. thr'[e][r].pc = "sending"
    BY <1>2, <1>9 DEF DispatchClaimed, PCs
  <2> QED
    BY <1>9, <2>1, <2>2 DEF DispatchClaimed, At, Readied
<1>10. CASE IntendSend(e, r)
  <2>1. prompt'[r].stage = "committed" /\ prompt'[r].sent = prompt[r].sent
    BY <1>1, <1>10 DEF IntendSend, Stages
  <2>2. thr'[e][r].pc = "click"
    BY <1>2, <1>10 DEF IntendSend, PCs
  <2> QED
    BY <1>10, <2>1, <2>2 DEF IntendSend, CanIntendSend, Intended
<1>11. CASE Click(e, r)
  <2>1. prompt'[r].stage = prompt[r].stage /\ prompt'[r].sent = prompt[r].sent + 1
    BY <1>11, SendFacts DEF Click
  <2>2. thr'[e][r].pc = "run"
    BY <1>2, <1>11 DEF Click, PCs
  <2> QED
    BY <1>11, <2>1, <2>2 DEF Click, Clicked
<1>12. CASE PresubmitFails(e, r)
  BY <1>12, RetryFacts DEF PresubmitFails, Quiet
<1>13. CASE UnsentCleared(e, r)
  <2>1. prompt'[r].stage = "none" /\ prompt'[r].sent = prompt[r].sent
    BY <1>1, <1>13 DEF UnsentCleared, Stages
  <2>2. thr'[e][r].pc \in {"error", "turn", "defer"}
    BY <1>13, RetryFacts DEF UnsentCleared
  <2> QED
    BY <1>13, <2>1, <2>2 DEF UnsentCleared, Cleared
<1>14. CASE RunDefers(e, r)
  <2>1. PICK phase \in RecoveryPhases :
             Become(e, r, [thr[e][r] EXCEPT !.pc = "defer", !.phase = phase])
    BY <1>14 DEF RunDefers, RecoveryPhases
  <2>2. thr'[e][r] = [thr[e][r] EXCEPT !.pc = "defer", !.phase = phase] /\ thr[e][r] \in Thread
    BY <2>1 DEF Become, TypeOK
  <2>3. thr'[e][r].pc = "defer"
    BY <2>2 DEF Thread
  <2> QED
    BY <1>14, <2>3 DEF RunDefers, Quiet
<1> QED
  BY <1>3, <1>4, <1>5, <1>6, <1>7, <1>8, <1>9, <1>10, <1>11, <1>12, <1>13, <1>14 DEF TurnMove

LEMMA ThreadStepFenced ==
    ASSUME IInv, Custody, [Next]_vars, NEW e \in Epochs, NEW r \in Requests, r \in Checkpointed,
           ThreadStep(e, r), Fenced(r)
    PROVE  Fenced(r)'
<1>1. /\ TypeOK /\ WellFormed(r) /\ AbsentIsUntouched(r) /\ Session(r)
      /\ prompt[r].sent \in Nat
  BY GatewayAssumption DEF IInv, WorkTracked, Custody, Held, TypeOK, Prompt, Session
<1>2. \A f \in Epochs \ {e} : thr'[f][r] = thr[f][r]
  BY <1>1, ThreadStepEffect DEF Effect, ThreadEffect, OtherThreadsSame
<1>3. /\ thr'[e][r].pc \in Acting => thr[e][r].pc \in Acting \/ rec'[r].owner = e
      /\ thr'[e][r].pc \in Submitting =>
           rec'[r].state = "running" \/ (thr[e][r].pc \in Submitting /\ rec'[r] = rec[r])
             \/ (rec[r].state \notin {"absent", "queued"} /\ rec'[r] = rec[r])
      /\ Quiet(e, r) \/ Readied(e, r) \/ Intended(e, r) \/ Clicked(e, r) \/ Cleared(e, r)
  <2>1. CASE TurnMove(e, r)
    <3>1. thr[e][r].pc \in TurnPCs
      BY <1>1, <2>1, TurnMoves
    <3>2. rec[r].state # "absent"
      BY <1>1, <3>1 DEF AbsentIsUntouched, At, TurnPCs
    <3>3. rec' = rec /\ (thr'[e][r].pc \in Submitting => thr[e][r].pc \in Submitting \/ rec[r].state # "queued")
      BY <1>1, <2>1, TurnMoves
    <3>4. Quiet(e, r) \/ Readied(e, r) \/ Intended(e, r) \/ Clicked(e, r) \/ Cleared(e, r)
      BY <1>1, <2>1, TurnCheckpoints
    <3> QED
      BY <3>1, <3>2, <3>3, <3>4 DEF Acting
  <2>2. CASE ~TurnMove(e, r)
    BY <1>1, <2>2, QuietStep DEF Quiet
  <2> QED
    BY <2>1, <2>2
<1>4. ActsBehindOwner(r)'
  <2> SUFFICES ASSUME NEW f \in Epochs, thr'[f][r].pc \in Acting, Unfinished(r)'
               PROVE  rec'[r].owner >= f
    BY DEF ActsBehindOwner
  <2>1. CASE thr[f][r].pc \in Acting
    BY <2>1, OwnerStaysAhead DEF Fenced
  <2>2. CASE thr[f][r].pc \notin Acting
    <3>1. f = e /\ rec'[r].owner = e
      BY <1>2, <1>3, <2>2
    <3> QED
      BY <3>1 DEF Epochs
  <2> QED
    BY <2>1, <2>2
<1>5. SubmitsStarted(r)'
  <2>1. Onward(rec[r], rec'[r])
    BY RecordOnward
  <2> QED
    BY <1>2, <1>3, <2>1 DEF Fenced, SubmitsStarted, Onward
<1>6. \A f \in Epochs \ {e} : Sender(f, r)' => Sender(f, r)
  BY <1>2, SenderStays
<1>7. \A f \in Epochs \ {e} : At(f, r, "click")' => At(f, r, "click")
  BY <1>2 DEF At
<1>8. SubmissionFence(e, r) => \A f \in Epochs : At(f, r, "sending") /\ Sender(f, r) => f = e
  BY DEF SubmissionFence, FenceHolds, IdentityOf, Id, IdOf, Sender, At
<1>9. (Sender(e, r)' => thr'[e][r].pc \in {"sending", "click"}) /\ (At(e, r, "click")' <=> thr'[e][r].pc = "click")
  BY DEF Sender, At
<1>10. SenderAlone(r)' /\ SentIsCommitted(r)'
  <2>1. CASE Quiet(e, r)
    BY <1>6, <1>7, <1>9, <2>1 DEF Fenced, SenderAlone, SentIsCommitted, Quiet
  <2>2. CASE Readied(e, r)
    <3>1. prompt[r].sent = 0
      BY <1>1, <2>2 DEF Fenced, SentIsCommitted, Readied
    <3>2. \A f \in Epochs : ~Sender(f, r) /\ ~At(f, r, "click")
      BY <1>8, <2>2 DEF Fenced, SenderAlone, Readied, Sender, At
    <3> QED
      BY <1>6, <1>7, <1>9, <2>2, <3>1, <3>2 DEF SenderAlone, SentIsCommitted, Readied
  <2>3. CASE Intended(e, r)
    <3>1. Sender(e, r)
      BY <2>3 DEF Intended, Sender, SubmissionFence, FenceHolds, IdentityOf, Id, IdOf
    <3>2. prompt[r].sent = 0 /\ \A f \in Epochs \ {e} : ~Sender(f, r)
      BY <3>1 DEF Fenced, SenderAlone
    <3>3. \A f \in Epochs \ {e} : ~Sender(f, r)'
      BY <1>6, <3>2
    <3> QED
      BY <2>3, <3>2, <3>3 DEF SenderAlone, SentIsCommitted, Intended, Sender, At
  <2>4. CASE Clicked(e, r)
    <3>1. Sender(e, r) /\ At(e, r, "click")
      BY <2>4 DEF Clicked, Sender
    <3>2. prompt[r].sent = 0 /\ prompt[r].stage = "committed" /\ \A f \in Epochs \ {e} : ~Sender(f, r)
      BY <3>1 DEF Fenced, SenderAlone
    <3>3. \A f \in Epochs : ~Sender(f, r)' /\ ~At(f, r, "click")'
      BY <1>6, <1>9, <2>4, <3>2 DEF Clicked, Sender
    <3> QED
      BY <2>4, <3>2, <3>3 DEF SenderAlone, SentIsCommitted, Clicked
  <2>5. CASE Cleared(e, r)
    <3>1. prompt[r].sent = 0
      BY <1>1, <2>5 DEF Fenced, SentIsCommitted, Cleared
    <3>2. \A f \in Epochs \ {e} : ~Sender(f, r) /\ ~At(f, r, "click")
      BY <1>8, <2>5 DEF Fenced, SenderAlone, Cleared, Sender
    <3>3. \A f \in Epochs : ~Sender(f, r)' /\ ~At(f, r, "click")'
      BY <1>6, <1>7, <1>9, <2>5, <3>2 DEF Cleared
    <3> QED
      BY <2>5, <3>1, <3>3 DEF SenderAlone, SentIsCommitted, Cleared
  <2> QED
    BY <1>3, <2>1, <2>2, <2>3, <2>4, <2>5
<1> QED
  BY <1>4, <1>5, <1>10 DEF Fenced


(* A step of a thread leaves the prompts of the other requests alone.      *)
LEMMA ThreadStepPrompts ==
    ASSUME TypeOK, NEW e \in Epochs, NEW r \in Requests, ThreadStep(e, r)
    PROVE  OtherPromptsSame(r)
<1>1. CASE TurnMove(e, r)
  BY <1>1, TurnPrompts
<1>2. CASE prompt' = prompt
  BY <1>2 DEF OtherPromptsSame
<1>3. CASE Send(r) \/ RecordPhase(e, r)
  BY <1>3, SendFacts, PhaseFacts
<1> QED
  BY <1>1, <1>2, <1>3
     DEF ThreadStep, TurnMove, AdmitIndex, Enqueue, EnqueueReject, RejectUnfenced, Dequeue,
         CheckRecoveredCancel, CheckCancelled, CheckStale, CheckPass, ClaimRecovered, ClaimRefused,
         ClaimAgain, ClaimFresh, StartBound, StartRecovered, FinishAs, Prepare, TurnStopped,
         OpenCancelled, StartTurn, RunEnds, RunRaises, DeferExhausted, Defer, DeferLost,
         TimerFires, Sweep

LEMMA InitFenced == Init => FencedInv
<1> SUFFICES ASSUME Init, NEW r \in Checkpointed PROVE Fenced(r)
  BY DEF FencedInv
<1>1. r \in Requests
  BY GatewayAssumption
<1>2. prompt[r] = NotSent /\ \A e \in Epochs : thr[e][r] = Idle
  BY <1>1 DEF Init
<1>3. Idle.pc \notin Acting \cup Submitting /\ NotSent.sent = 0
  BY DEF Idle, NotSent, Acting, TurnPCs, Submitting
<1>4. \A e \in Epochs : ~Sender(e, r) /\ ~At(e, r, "click")
  BY <1>2 DEF Sender, At, Idle
<1> QED
  BY <1>2, <1>3, <1>4 DEF Fenced, ActsBehindOwner, SubmitsStarted, SenderAlone, SentIsCommitted

(* Everything but a step of a request's own thread.                        *)
LEMMA ServiceThreads ==
    ASSUME IInv, NEW q \in Requests, NEW f \in Epochs,
           \/ \E r \in Requests : ScanStep(r) \/ OutsideStep(r) \/ CrashInRepair(r)
           \/ \E e \in Epochs : Crash(e)
           \/ \E e \in Epochs, r \in Requests : CrashInClaim(e, r)
           \/ StartService \/ Serve \/ Retire
    PROVE  /\ prompt' = prompt
           /\ thr'[f][q].pc \in Acting => thr'[f][q].pc = thr[f][q].pc
<1>1. TypeOK /\ (service # "down" => epoch \in Epochs)
  BY EpochServes
<1>2. Idle.pc \notin Acting
  BY DEF Idle, Acting, TurnPCs
<1>3. ASSUME NEW r \in Requests, ScanStep(r)
      PROVE  thr' = thr /\ prompt' = prompt
  BY <1>3 DEF ScanStep, ScanClear, ScanRead, TakeOver, Settle, Repair, RecoveryFails
<1>4. ASSUME NEW e \in Epochs, Die(e)
      PROVE  prompt' = prompt /\ (thr'[f][q] = thr[f][q] \/ thr'[f][q] = Idle)
  BY <1>4, DieFacts
<1>5. ASSUME NEW r \in Requests, CrashInRepair(r)
      PROVE  epoch \in Epochs /\ Die(epoch)
  BY <1>1, <1>5 DEF CrashInRepair, Scanning
<1>6. CASE StartService
  BY <1>6 DEF StartService
<1>7. CASE Retire
  <2>1. epoch \in Epochs /\ prompt' = prompt
    BY <1>1, <1>7 DEF Retire
  <2>2. thr'[f][q] = thr[f][q] \/ thr'[f][q] = Idle
    BY <1>1, <1>7, <2>1 DEF Retire, TypeOK
  <2> QED
    BY <1>2, <2>1, <2>2
<1>8. CASE Serve
  <2>1. epoch \in Epochs /\ prompt' = prompt
    BY <1>1, <1>8 DEF Serve
  <2>2. PICK ts \in [Requests -> UNION {RebuiltThreads(r) : r \in Requests}] :
          (\A r \in Requests : ts[r] \in RebuiltThreads(r)) /\ thr' = [thr EXCEPT ![epoch] = ts]
    BY <1>8 DEF Serve
  <2>3. thr'[f][q] = IF f = epoch THEN ts[q] ELSE thr[f][q]
    BY <1>1, <2>1, <2>2 DEF TypeOK
  <2>4. ts[q].pc \in {"idle", "resume", "pending", "timer"}
    <3> DEFINE observe == Session(q) /\ ~ProvenUnsent(q)
               resume == [Idle EXCEPT !.pc = "resume", !.observe = observe]
               pending == [Idle EXCEPT !.pc = "pending"]
               timer == [resume EXCEPT !.pc = "timer", !.worker = rec[q].worker, !.attempt = rec[q].attempt]
    <3>1. ts[q] \in RebuiltThreads(q)
      BY <2>2
    <3>2. ts[q] \in {resume, timer, pending, Idle}
      BY <3>1, Zenon DEF RebuiltThreads
    <3>3. /\ resume.pc = "resume" /\ timer.pc = "timer" /\ pending.pc = "pending" /\ Idle.pc = "idle"
      BY DEF Idle
    <3> HIDE DEF resume, pending, timer
    <3> QED
      BY <3>2, <3>3
  <2> QED
    BY <2>1, <2>3, <2>4 DEF Acting, TurnPCs
<1>9. ASSUME NEW r \in Requests, OutsideStep(r)
      PROVE  prompt' = prompt /\ (thr'[f][q].pc \in Acting => thr'[f][q].pc = thr[f][q].pc)
  <2>1. CASE CancelRemote(r) \/ Supervisor(r) \/ ExpireSession(r) \/ OperatorComplete(r)
    BY <2>1 DEF CancelRemote, Supervisor, ExpireSession, OperatorComplete
  <2>2. CASE Admit(r)
    <3>1. epoch \in Epochs /\ Goto(epoch, r, "recorded") /\ prompt' = prompt
      BY <1>1, <2>2 DEF Admit
    <3>2. thr'[epoch][r].pc = "recorded" /\ OtherThreadsSame(epoch, r)
      BY <1>1, <3>1, GotoFacts DEF PCs
    <3> QED
      BY <3>1, <3>2 DEF OtherThreadsSame, Acting, TurnPCs
  <2>3. CASE CancelByClient(r)
    <3> DEFINE t == thr[epoch][r]
               u == [t EXCEPT !.cancelled = TRUE]
    <3>1. epoch \in Epochs /\ prompt' = prompt
      BY <1>1, <2>3 DEF CancelByClient
    <3>2. /\ Become(epoch, r, Idle) \/ Become(epoch, r, u) \/ Become(epoch, r, t)
          /\ t \in Thread
      BY <1>1, <2>3, <3>1 DEF CancelByClient, TypeOK
    <3>3. u \in Thread /\ u.pc = t.pc
      BY <3>2, Zenon DEF Thread
    <3>4. OtherThreadsSame(epoch, r) /\ thr'[epoch][r] \in {Idle, u, t}
      <4> HIDE DEF t, u
      <4> QED
        BY <1>1, <3>1, <3>2, <3>3, BecomeFacts, IdleIsThread
    <3>5. thr'[epoch][r].pc \in Acting => thr'[epoch][r].pc = t.pc
      <4> HIDE DEF u
      <4> QED
        BY <1>2, <3>3, <3>4
    <3> QED
      BY <3>1, <3>4, <3>5 DEF OtherThreadsSame
  <2> QED
    BY <1>9, <2>1, <2>2, <2>3 DEF OutsideStep
<1> QED
  BY <1>2, <1>3, <1>4, <1>5, <1>6, <1>7, <1>8, <1>9 DEF Crash, CrashInClaim

LEMMA NextFenced ==
    ASSUME IInv, Custody, FencedInv, [Next]_vars
    PROVE  FencedInv'
<1> SUFFICES ASSUME NEW q \in Checkpointed PROVE Fenced(q)'
  BY DEF FencedInv
<1>1. q \in Requests /\ Fenced(q) /\ TypeOK
  BY GatewayAssumption DEF FencedInv, IInv
<1>2. CASE UNCHANGED vars
  BY <1>1, <1>2, FenceFrame DEF vars
<1>3. ASSUME NEW e \in Epochs, NEW r \in Requests, ThreadStep(e, r)
      PROVE  Fenced(q)'
  <2>1. CASE r = q
    BY <1>1, <1>3, <2>1, ThreadStepFenced
  <2>2. CASE r # q
    <3>1. \A f \in Epochs : thr'[f][q] = thr[f][q]
      BY <1>1, <1>3, <2>2, ThreadStepEffect DEF Effect, ThreadEffect, OtherThreadsSame
    <3>2. prompt'[q] = prompt[q]
      BY <1>1, <1>3, <2>2, ThreadStepPrompts DEF OtherPromptsSame
    <3> QED
      BY <1>1, <3>1, <3>2, FenceFrame
  <2> QED
    BY <2>1, <2>2
<1>4. CASE \/ \E r \in Requests : ScanStep(r) \/ OutsideStep(r) \/ CrashInRepair(r)
           \/ \E e \in Epochs : Crash(e)
           \/ \E e \in Epochs, r \in Requests : CrashInClaim(e, r)
           \/ StartService \/ Serve \/ Retire
  <2>1. \A f \in Epochs : prompt' = prompt /\ (thr'[f][q].pc \in Acting => thr'[f][q].pc = thr[f][q].pc)
    BY <1>1, <1>4, ServiceThreads
  <2>2. 1 \in Epochs
    BY EpochAssumption DEF Epochs
  <2> QED
    BY <1>1, <2>1, <2>2, FenceFrame
<1> QED
  BY <1>2, <1>3, <1>4 DEF Next

(* However many generations overlap, crash or take over, and whatever is   *)
(* retried, deferred or prompted again, the transport that keeps a         *)
(* submission checkpoint hands a prompt to its provider at most once.      *)
THEOREM CheckpointedSentOnce == Spec => [](\A r \in Checkpointed : prompt[r].sent <= 1)
<1>1. Init => FencedInv
  BY InitFenced
<1>2. IInv /\ Custody /\ FencedInv /\ [Next]_vars => FencedInv'
  BY NextFenced
<1>3. FencedInv => \A r \in Checkpointed : prompt[r].sent <= 1
  BY DEF FencedInv, Fenced, SentIsCommitted
<1> QED
  BY <1>1, <1>2, <1>3, Invariance, CustodyInvariant, PTL DEF Spec

(* When the threads of a generation end with it, no prompt is handed over  *)
(* twice, by any transport: running work of a worker is settled and not    *)
(* resumed, a session turn without a checkpoint that is taken up again is  *)
(* only observed, and one with a checkpoint is prompted again only under   *)
(* evidence that nothing was sent.                                         *)
THEOREM PromptGivenOnce ==
    ASSUME ~Overlap
    PROVE  Spec => []ExecutedAtMostOnce
<1>1. Init => OnceInv /\ FencedInv
  BY InitOnce, InitFenced
<1>2. IInv /\ Custody /\ OnceInv /\ FencedInv /\ [Next]_vars => OnceInv' /\ FencedInv'
  BY NextOnce, NextFenced
<1>3. OnceInv /\ FencedInv => ExecutedAtMostOnce
  BY DEF OnceInv, Once, Given, FencedInv, Fenced, SentIsCommitted, ExecutedAtMostOnce
<1> QED
  BY <1>1, <1>2, <1>3, Invariance, CustodyInvariant, PTL DEF Spec
=============================================================================
