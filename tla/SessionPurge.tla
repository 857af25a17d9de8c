---------------------------- MODULE SessionPurge ----------------------------
(***************************************************************************)
(* Deleting the lineage of a closed session as a durable management        *)
(* operation: the operation store and its pump (operations/                *)
(* operation_store.py, pump.py, session_purge.py), the claim, plan and     *)
(* deletion of one session (session/purge_engine.py, purge_eligibility.py, *)
(* lineage_delete.py and the retention-claim functions of                  *)
(* session/sessions_store.py), and what it races: a continuation turn      *)
(* being admitted (api.py:submit_execution_request) and the manual purge   *)
(* (api.py:purge_execution_session).                                       *)
(*                                                                         *)
(* A gateway generation has one pump thread.  A generation ends by a crash *)
(* (its threads die) or by a stop whose join times out, when its pump      *)
(* finishes the run_once it is in while the next generation already runs.  *)
(*                                                                         *)
(* The generation fence is held by an admission from its check to its      *)
(* write, and inside one step by the claim functions; the retention lock   *)
(* is held by a pump through its deletion and inside one step by the rest. *)
(*                                                                         *)
(* Left out: archives, bindings and registered roots that the deletion     *)
(* also removes, requests shared with another session, resume of a closed  *)
(* session (fenced and refused like a continuation), the other operation   *)
(* kinds, and more sessions than one batch (max_batch_size).               *)
(***************************************************************************)
EXTENDS Integers, FiniteSets

CONSTANTS
    Sessions,
    Requests,
    SessionOf,        \* [Requests -> Sessions]
    Old,              \* requests that ran before the behaviour starts
    Ops,              \* operation ids, in the order they sort
    ExplicitOps,      \* operations whose scope names all sessions
    ManualPurge,      \* is api.purge_execution_session called?
    Overlap,          \* may a stopping pump outlive its generation?
    MaxGenerations,   \* bound: gateway generations
    MaxFailures       \* bound: removals that fail, policy changes, directories
                      \* left without a record

ASSUME PurgeAssumption ==
    /\ SessionOf \in [Requests -> Sessions]
    /\ Old \subseteq Requests
    /\ Ops \subseteq Nat \ {0}
    /\ ExplicitOps \subseteq Ops
    /\ ManualPurge \in BOOLEAN /\ Overlap \in BOOLEAN
    /\ MaxGenerations \in Nat \ {0} /\ MaxFailures \in Nat

VARIABLES
    op,         \* [Ops -> the operation record: its state and owner-epoch]
    session,    \* [Sessions -> the session record and its retention-claim]
    request,    \* [Requests -> state of the record; "none" is no directory]
    turn,       \* [Requests -> where the admission of the turn is]
    manual,     \* [Sessions -> request ids of a manual purge under way, or Idle]
    pump,       \* [generation -> its pump thread]
    live,       \* the running generation
    policy,     \* does the machine policy still match the snapshots?
    failures    \* failures so far

vars == <<op, session, request, turn, manual, pump, live, policy, failures>>

Generations == 1..MaxGenerations

NoOp == 0           \* no claim on a session, no operation in a pump
NoOwner == 0        \* owner-epoch None

Idle == {<<"idle">>}

\* The pump between two run_once calls.
IdlePump == [pc |-> "idle", todo |-> {}, op |-> NoOp,
             sessions |-> {}, session |-> {}, ids |-> {}, recent |-> FALSE]

Terminal == {"completed", "failed"}

Of(s) == {r \in Requests : SessionOf[r] = s}

Exists(r) == request[r] # "none"

PurgeInit ==
    /\ op = [o \in Ops |-> [state |-> "none", owner |-> NoOwner]]
    /\ session = [s \in Sessions |->
                    [state |-> "open", claim |-> NoOp, deleting |-> FALSE, plan |-> {},
                     attached |-> Of(s) \cap Old, recent |-> FALSE]]
    /\ request = [r \in Requests |-> IF r \in Old THEN "terminal" ELSE "none"]
    /\ turn = [r \in Requests |-> IF r \in Old THEN "done" ELSE "idle"]
    /\ manual = [s \in Sessions |-> Idle]
    /\ pump = [g \in Generations |-> IdlePump]
    /\ live = 1
    /\ policy = TRUE
    /\ failures = 0

---------------------------------------------------------------------------
\* A pump step: thread g goes to a step with some of its locals changed.
Pump(g, next) == pump' = [pump EXCEPT ![g] = next]

At(g, step) == pump[g].pc = step

\* No session record on disk: gone by an operation, erased by hand.
Gone(s) == session[s].state \in {"gone", "erased"}

\* The generation fence of s: an admission holds it from its check on.
FenceFree(s) == \A r \in Of(s) : turn[r] \notin {"fenced", "stamped"}

\* The project's retention lock: a pump holds it while it deletes.
RetentionFree == \A g \in Generations : ~At(g, "delete")

\* _request_blocker: unfinished work of the session, or an attached request
\* whose record cannot be read.
RequestsBlock(s) ==
    \/ \E r \in session[s].attached : ~Exists(r)
    \/ \E r \in Of(s) : Exists(r) /\ request[r] # "terminal"

\* session_blocker, for a session claimed by nobody else than own.
Blocked(s, own) ==
    \/ session[s].state # "closed"
    \/ session[s].claim \notin {NoOp, own}
    \/ session[s].recent
    \/ RequestsBlock(s)

\* _closure: the requests of the session's record and of the request scan.
Closure(s) == session[s].attached \cup {r \in Of(s) : Exists(r)}

NoSession(how) == [state |-> how, claim |-> NoOp, deleting |-> FALSE, plan |-> {},
                   attached |-> {}, recent |-> FALSE]

---------------------------------------------------------------------------
\* GatewayOperationsApplication.create_operation and the store's create, under
\* the lock of the operation: a known id returns the record it has, so only
\* one without a record changes the store.
Create(o) ==
    /\ op[o].state \in {"none", "bare"}
    /\ policy
    /\ op' = [op EXCEPT ![o].state = "accepted"]
    /\ UNCHANGED <<session, request, turn, manual, pump, live, policy, failures>>

\* The lock makes the directory, and the creating process (the service or
\* the command line) is gone before it writes the record.
CreateCrashes(o) ==
    /\ op[o].state = "none"
    /\ policy
    /\ failures < MaxFailures
    /\ failures' = failures + 1
    /\ op' = [op EXCEPT ![o].state = "bare"]
    /\ UNCHANGED <<session, request, turn, manual, pump, live, policy>>

\* get_operation of an id that was never created: read takes the lock, and
\* with it makes the directory.
ReadUnknown(o) ==
    /\ op[o].state = "none"
    /\ failures < MaxFailures
    /\ failures' = failures + 1
    /\ op' = [op EXCEPT ![o].state = "bare"]
    /\ UNCHANGED <<session, request, turn, manual, pump, live, policy>>

\* The poller of the running generation starts run_once.
Poll(g) ==
    /\ g = live
    /\ At(g, "idle")
    /\ \E o \in Ops : op[o].state \in {"accepted", "running"}
    /\ Pump(g, [IdlePump EXCEPT !.pc = "recover"])
    /\ UNCHANGED <<op, session, request, turn, manual, live, policy, failures>>

\* Mutant: claims of a generation that is gone stay with it.
RecoverNothing(g) ==
    /\ At(g, "recover")
    /\ Pump(g, [pump[g] EXCEPT !.pc = "list"])
    /\ UNCHANGED <<op, session, request, turn, manual, live, policy, failures>>

\* An operation directory without a record.
Recordless(o) == op[o].state = "bare"

\* recover_prior_owner_claims: every claim of another owner epoch, earlier
\* or not, goes back to accepted.  The directories are read in order, each
\* under its lock; the first one without a record raises out of run_once,
\* and the poller tries again a second later.
RecoverClaims(g) ==
    /\ At(g, "recover")
    /\ op' = [o \in Ops |->
                IF /\ op[o].state = "running" /\ op[o].owner # g
                   /\ \A p \in Ops : Recordless(p) => o < p
                THEN [state |-> "accepted", owner |-> NoOwner] ELSE op[o]]
    /\ Pump(g, IF \E o \in Ops : Recordless(o) THEN IdlePump
                                               ELSE [pump[g] EXCEPT !.pc = "list"])
    /\ UNCHANGED <<session, request, turn, manual, live, policy, failures>>

\* list_dispatchable, with fewer operations than its limit of 100.
ListDispatchable(g) ==
    /\ At(g, "list")
    /\ Pump(g, [pump[g] EXCEPT !.pc = "next", !.todo = {o \in Ops : op[o].state = "accepted"}])
    /\ UNCHANGED <<op, session, request, turn, manual, live, policy, failures>>

\* The loop of run_once: claim the next candidate, or skip it when another
\* claimant has it.
ClaimOperation(g) ==
    /\ At(g, "next")
    /\ pump[g].todo # {}
    /\ LET o == CHOOSE x \in pump[g].todo : \A y \in pump[g].todo : x <= y
       IN  IF op[o].state = "accepted"
           THEN /\ op' = [op EXCEPT ![o] = [state |-> "running", owner |-> g]]
                /\ Pump(g, [pump[g] EXCEPT !.pc = "select", !.op = o, !.todo = @ \ {o}])
           ELSE /\ Pump(g, [pump[g] EXCEPT !.todo = @ \ {o}])
                /\ UNCHANGED op
    /\ UNCHANGED <<session, request, turn, manual, live, policy, failures>>

\* No candidate is left; run_once returns.
EndRun(g) ==
    /\ At(g, "next")
    /\ pump[g].todo = {}
    /\ Pump(g, IdlePump)
    /\ UNCHANGED <<op, session, request, turn, manual, live, policy, failures>>

\* GatewaySessionPurgeExecutor.execute: a policy that changed does nothing;
\* otherwise the sessions of the scope, or those this operation already
\* began to delete and those the report calls eligible.
SelectSessions(g) ==
    /\ At(g, "select")
    /\ LET o == pump[g].op
           resuming == {s \in Sessions : session[s].claim = o /\ session[s].deleting}
           eligible == {s \in Sessions : ~Blocked(s, NoOp)}
       IN  IF ~policy
           THEN Pump(g, [pump[g] EXCEPT !.pc = "finish"])
           ELSE Pump(g, [pump[g] EXCEPT !.pc = "session", !.session = {},
                    !.sessions = IF o \in ExplicitOps THEN Sessions ELSE resuming \cup eligible])
    /\ UNCHANGED <<op, session, request, turn, manual, live, policy, failures>>

\* The executor is through its candidates.
EndSessions(g) ==
    /\ At(g, "session")
    /\ pump[g].sessions = {}
    /\ Pump(g, [pump[g] EXCEPT !.pc = "finish"])
    /\ UNCHANGED <<op, session, request, turn, manual, live, policy, failures>>

\* purge_session_under_policy, up to its first decision: unchanged when the
\* record is gone, resumed when this operation began to delete it, left
\* alone when blocked.
EnterSession(g, s) ==
    /\ At(g, "session")
    /\ s \in pump[g].sessions
    /\ LET left == pump[g].sessions \ {s}
           o == pump[g].op
       IN  IF ~Gone(s) /\ session[s].claim = o /\ session[s].deleting
           THEN Pump(g, [pump[g] EXCEPT !.pc = "closure", !.session = {s}, !.sessions = left,
                            !.ids = session[s].plan \cup session[s].attached])
           ELSE IF ~Gone(s) /\ ~Blocked(s, o)
           THEN Pump(g, [pump[g] EXCEPT !.pc = "claim", !.session = {s}, !.sessions = left])
           ELSE Pump(g, [pump[g] EXCEPT !.sessions = left])
    /\ UNCHANGED <<op, session, request, turn, manual, live, policy, failures>>

\* An exception in the executor ends it for all its sessions.
Raise(g) == Pump(g, [pump[g] EXCEPT !.pc = "fail", !.sessions = {}, !.session = {}, !.ids = {}])

\* claim_retention, under the generation fence and the retention lock.  The
\* record it returns tells whether a turn was accepted after the purge read
\* the clock.
ClaimRetention(g, s) ==
    /\ At(g, "claim") /\ pump[g].session = {s}
    /\ FenceFree(s) /\ RetentionFree
    /\ IF session[s].claim \in {NoOp, pump[g].op} /\ session[s].state = "closed"
       THEN /\ session' = [session EXCEPT ![s].claim = pump[g].op]
            /\ Pump(g, [pump[g] EXCEPT !.pc = "recheck", !.recent = session[s].recent])
       ELSE Raise(g) /\ UNCHANGED session
    /\ UNCHANGED <<op, request, turn, manual, live, policy, failures>>

\* Mutant: what was eligible before the claim is still taken to be.
RecheckSkipped(g, s) ==
    /\ At(g, "recheck") /\ pump[g].session = {s}
    /\ Pump(g, [pump[g] EXCEPT !.pc = "begin", !.ids = Closure(s), !.recent = FALSE])
    /\ UNCHANGED <<op, session, request, turn, manual, live, policy, failures>>

\* The second eligibility check, of the record as it was claimed, and the
\* plan.
Recheck(g, s) ==
    /\ At(g, "recheck") /\ pump[g].session = {s}
    /\ Pump(g, [pump[g] EXCEPT !.ids = Closure(s), !.recent = FALSE,
                    !.pc = IF pump[g].recent \/ RequestsBlock(s) THEN "release" ELSE "begin"])
    /\ UNCHANGED <<op, session, request, turn, manual, live, policy, failures>>

\* Mutant: the claim is released whatever its stage.
ReleaseAnyClaim(g, s) ==
    /\ At(g, "release") /\ pump[g].session = {s}
    /\ FenceFree(s) /\ RetentionFree
    /\ session' = IF Gone(s) THEN session ELSE [session EXCEPT ![s].claim = NoOp]
    /\ Pump(g, [pump[g] EXCEPT !.pc = "session", !.session = {}, !.ids = {}])
    /\ UNCHANGED <<op, request, turn, manual, live, policy, failures>>

\* release_retention_claim: not another operation's claim, and not one whose
\* destruction has begun (CON-AGW-168).
ReleaseClaim(g, s) ==
    /\ At(g, "release") /\ pump[g].session = {s}
    /\ FenceFree(s) /\ RetentionFree
    /\ IF ~Gone(s) /\ session[s].claim \in {NoOp, pump[g].op} /\ ~session[s].deleting
       THEN /\ session' = [session EXCEPT ![s].claim = NoOp]
            /\ Pump(g, [pump[g] EXCEPT !.pc = "session", !.session = {}, !.ids = {}])
       ELSE Raise(g) /\ UNCHANGED session
    /\ UNCHANGED <<op, request, turn, manual, live, policy, failures>>

\* begin_retention_deletion: the plan is on the claim before anything goes.
BeginDeletion(g, s) ==
    /\ At(g, "begin") /\ pump[g].session = {s}
    /\ FenceFree(s) /\ RetentionFree
    /\ IF session[s].claim # pump[g].op
       THEN Raise(g) /\ UNCHANGED session
       ELSE /\ session' = IF session[s].deleting THEN session
                          ELSE [session EXCEPT ![s].deleting = TRUE, ![s].plan = pump[g].ids]
            /\ Pump(g, [pump[g] EXCEPT !.pc = "closure",
                            !.ids = session'[s].plan \cup session[s].attached])
    /\ UNCHANGED <<op, request, turn, manual, live, policy, failures>>

\* The ids to delete: the plan, in memory by now, and a scan made once more.
FinalClosure(g, s) ==
    /\ At(g, "closure") /\ pump[g].session = {s}
    /\ Pump(g, [pump[g] EXCEPT !.pc = "locks", !.ids = @ \cup {r \in Of(s) : Exists(r)}])
    /\ UNCHANGED <<op, session, request, turn, manual, live, policy, failures>>

\* The maintenance locks and the retention lock of the deletion.
TakeRetention(g) ==
    /\ At(g, "locks")
    /\ RetentionFree
    /\ Pump(g, [pump[g] EXCEPT !.pc = "delete"])
    /\ UNCHANGED <<op, session, request, turn, manual, live, policy, failures>>

\* delete_session_lineage: one request directory.
DeleteRequest(g, r) ==
    /\ At(g, "delete")
    /\ r \in pump[g].ids /\ Exists(r)
    /\ request' = [request EXCEPT ![r] = "none"]
    /\ UNCHANGED <<op, session, turn, manual, pump, live, policy, failures>>

\* Mutant: the session directory may go before its requests.
DeleteSessionEarly(g, s) ==
    /\ At(g, "delete") /\ pump[g].session = {s}
    /\ session' = IF Gone(s) THEN session ELSE [session EXCEPT ![s] = NoSession("gone")]
    /\ Pump(g, [pump[g] EXCEPT !.pc = "session", !.session = {}, !.ids = {}])
    /\ UNCHANGED <<op, request, turn, manual, live, policy, failures>>

\* The session directory goes last, and the claim with it.
DeleteSession(g, s) ==
    /\ At(g, "delete") /\ pump[g].session = {s}
    /\ \A r \in pump[g].ids : ~Exists(r)
    /\ session' = IF Gone(s) THEN session ELSE [session EXCEPT ![s] = NoSession("gone")]
    /\ Pump(g, [pump[g] EXCEPT !.pc = "session", !.session = {}, !.ids = {}])
    /\ UNCHANGED <<op, request, turn, manual, live, policy, failures>>

\* A removal fails: strict deletion raises and the executor with it.
RemovalFails(g) ==
    /\ At(g, "delete")
    /\ failures < MaxFailures
    /\ failures' = failures + 1
    /\ Raise(g)
    /\ UNCHANGED <<op, session, request, turn, manual, live, policy>>

Owns(g) == op[pump[g].op].state = "running" /\ op[pump[g].op].owner = g

\* Mutant: the result is recorded whoever owns the operation now.
FinishUnfenced(g) ==
    /\ At(g, "finish")
    /\ op[pump[g].op].state = "running"
    /\ op' = [op EXCEPT ![pump[g].op].state = "completed"]
    /\ Pump(g, [pump[g] EXCEPT !.pc = "next", !.op = NoOp])
    /\ UNCHANGED <<session, request, turn, manual, live, policy, failures>>

\* store.finish, fenced by the owner epoch.
Finish(g) ==
    /\ At(g, "finish")
    /\ Owns(g)
    /\ op' = [op EXCEPT ![pump[g].op].state = "completed"]
    /\ Pump(g, [pump[g] EXCEPT !.pc = "next", !.op = NoOp])
    /\ UNCHANGED <<session, request, turn, manual, live, policy, failures>>

\* store.fail, fenced the same way.
Fail(g) ==
    /\ At(g, "fail")
    /\ Owns(g)
    /\ op' = [op EXCEPT ![pump[g].op].state = "failed"]
    /\ Pump(g, [pump[g] EXCEPT !.pc = "next", !.op = NoOp])
    /\ UNCHANGED <<session, request, turn, manual, live, policy, failures>>

\* CON-AGM-002: finish raises, its handler's fail raises again, and the rest
\* of run_once is lost.
OwnershipLost(g) ==
    /\ At(g, "finish") \/ At(g, "fail")
    /\ ~Owns(g)
    /\ Pump(g, IdlePump)
    /\ UNCHANGED <<op, session, request, turn, manual, live, policy, failures>>

---------------------------------------------------------------------------
\* A continuation takes the generation fence and reads the session: refused
\* when it is gone or claimed.
AdmitTurn(r) ==
    /\ turn[r] = "idle"
    /\ FenceFree(SessionOf[r])
    /\ turn' = [turn EXCEPT ![r] =
                  IF Gone(SessionOf[r]) \/ session[SessionOf[r]].claim # NoOp
                  THEN "done" ELSE "fenced"]
    /\ UNCHANGED <<op, session, request, manual, pump, live, policy, failures>>

\* record_accepted_turn, under the retention lock: refused the same way.
StampTurn(r) ==
    /\ turn[r] = "fenced"
    /\ RetentionFree
    /\ IF Gone(SessionOf[r]) \/ session[SessionOf[r]].claim # NoOp
       THEN turn' = [turn EXCEPT ![r] = "done"] /\ UNCHANGED session
       ELSE /\ turn' = [turn EXCEPT ![r] = "stamped"]
            /\ session' = [session EXCEPT ![SessionOf[r]].recent = TRUE]
    /\ UNCHANGED <<op, request, manual, pump, live, policy, failures>>

\* The request record is written and the fence released.
WriteTurn(r) ==
    /\ turn[r] = "stamped"
    /\ turn' = [turn EXCEPT ![r] = "done"]
    /\ request' = [request EXCEPT ![r] = "queued"]
    /\ UNCHANGED <<op, session, manual, pump, live, policy, failures>>

\* The turn runs: the session records it (append_session_request) unless it
\* is gone, and the request ends.
RunTurn(r) ==
    /\ request[r] = "queued"
    /\ request' = [request EXCEPT ![r] = "terminal"]
    /\ session' = IF Gone(SessionOf[r]) THEN session
                  ELSE [session EXCEPT ![SessionOf[r]].attached = @ \cup {r}]
    /\ UNCHANGED <<op, turn, manual, pump, live, policy, failures>>

\* close_execution_session.
CloseSession(s) ==
    /\ session[s].state = "open"
    /\ session' = [session EXCEPT ![s].state = "closed"]
    /\ UNCHANGED <<op, request, turn, manual, pump, live, policy, failures>>

\* The inactivity threshold passes since the last accepted turn.  It is an
\* hour at least (SESSION_PURGE_MIN_INACTIVITY_SECONDS).  A stopping process
\* gives its pump 5 seconds, and whoever waits for a lock of the session
\* gives up after 30 (StartupLock): no old pump is left by then, and no pump
\* or admission that was in the session when the turn was accepted.
TimePasses(s) ==
    /\ session[s].recent
    /\ \A g \in Generations : pump[g].session # {s} /\ (g < live => pump[g] = IdlePump)
    /\ FenceFree(s)
    /\ session' = [session EXCEPT ![s].recent = FALSE]
    /\ UNCHANGED <<op, request, turn, manual, pump, live, policy, failures>>

\* purge_execution_session: the request set, resolved before any lock.
ManualScan(s) ==
    /\ ManualPurge
    /\ manual[s] = Idle /\ ~Gone(s)
    /\ \A r \in Of(s) : request[r] \in {"none", "terminal"}
    /\ manual' = [manual EXCEPT ![s] = Closure(s)]
    /\ session' = [session EXCEPT ![s].state = "closed"]
    /\ UNCHANGED <<op, request, turn, pump, live, policy, failures>>

\* Under the retention lock: the session record and those requests are read
\* again, and deleted unless one of them is active.
ManualDelete(s) ==
    /\ manual[s] # Idle
    /\ RetentionFree
    /\ IF /\ ~Gone(s)
          /\ session[s].attached \subseteq manual[s]
          /\ \A r \in manual[s] : request[r] \in {"none", "terminal"}
       THEN /\ request' = [r \in Requests |-> IF r \in manual[s] THEN "none" ELSE request[r]]
            /\ session' = [session EXCEPT ![s] = NoSession("erased")]
       ELSE UNCHANGED <<request, session>>
    /\ manual' = [manual EXCEPT ![s] = Idle]
    /\ UNCHANGED <<op, turn, pump, live, policy, failures>>

\* The machine's retention policy changes: no snapshot matches any more.
ChangePolicy ==
    /\ policy
    /\ failures < MaxFailures
    /\ policy' = FALSE
    /\ failures' = failures + 1
    /\ UNCHANGED <<op, session, request, turn, manual, pump, live>>

\* The next generation, after a crash or after a stop that did not wait for
\* the pump.
NextGeneration ==
    /\ live < MaxGenerations
    /\ live' = live + 1
    /\ manual' = [s \in Sessions |-> Idle]
    /\ turn' = [r \in Requests |-> IF turn[r] \in {"fenced", "stamped"} THEN "done" ELSE turn[r]]
    /\ \/ pump' = [g \in Generations |-> IdlePump]
       \/ Overlap /\ UNCHANGED pump
    /\ UNCHANGED <<op, session, request, policy, failures>>

\* The process of a stopped generation exits.
OldPumpDies(g) ==
    /\ g < live
    /\ pump[g] # IdlePump
    /\ Pump(g, IdlePump)
    /\ UNCHANGED <<op, session, request, turn, manual, live, policy, failures>>

PumpStep(g) ==
    \/ Poll(g) \/ RecoverClaims(g) \/ ListDispatchable(g) \/ ClaimOperation(g) \/ EndRun(g)
    \/ SelectSessions(g) \/ EndSessions(g) \/ TakeRetention(g)
    \/ Finish(g) \/ Fail(g) \/ OwnershipLost(g)
    \/ \E s \in Sessions :
        \/ EnterSession(g, s) \/ ClaimRetention(g, s) \/ Recheck(g, s) \/ ReleaseClaim(g, s)
        \/ BeginDeletion(g, s) \/ FinalClosure(g, s) \/ DeleteSession(g, s)
    \/ \E r \in Requests : DeleteRequest(g, r)

PurgeNext ==
    \/ \E o \in Ops : Create(o) \/ CreateCrashes(o) \/ ReadUnknown(o)
    \/ \E g \in Generations : PumpStep(g) \/ RemovalFails(g) \/ OldPumpDies(g)
    \/ \E r \in Requests : AdmitTurn(r) \/ StampTurn(r) \/ WriteTurn(r) \/ RunTurn(r)
    \/ \E s \in Sessions : CloseSession(s) \/ TimePasses(s) \/ ManualScan(s) \/ ManualDelete(s)
    \/ ChangePolicy
    \/ NextGeneration

PurgeSpec == PurgeInit /\ [][PurgeNext]_vars

\* The running generation polls every second and its pump thread goes on; a
\* stopped process exits; an admission under way ends and frees its fence.
Fairness ==
    /\ \A g \in Generations :
        /\ WF_vars(g = live /\ PumpStep(g))
        /\ WF_vars(OldPumpDies(g))
    /\ \A r \in Requests : WF_vars(StampTurn(r)) /\ WF_vars(WriteTurn(r))

FairSpec == PurgeSpec /\ Fairness

---------------------------------------------------------------------------
Steps == {"idle", "recover", "list", "next", "select", "session", "claim", "recheck",
          "release", "begin", "closure", "locks", "delete", "finish", "fail"}

\* Every variable has its type, a claim has a plan only while it deletes, and
\* two pumps never delete at once (the retention lock).
PurgeTypeOK ==
    /\ op \in [Ops -> [state : {"none", "bare", "accepted", "running"} \cup Terminal,
                       owner : Generations \cup {NoOwner}]]
    /\ session \in [Sessions ->
            [state : {"open", "closed", "gone", "erased"}, claim : Ops \cup {NoOp}, deleting : BOOLEAN,
             plan : SUBSET Requests, attached : SUBSET Requests, recent : BOOLEAN]]
    /\ request \in [Requests -> {"none", "queued", "terminal"}]
    /\ turn \in [Requests -> {"idle", "fenced", "stamped", "done"}]
    /\ \A s \in Sessions : manual[s] = Idle \/ manual[s] \in SUBSET Requests
    /\ pump \in [Generations ->
            [pc : Steps, todo : SUBSET Ops, op : Ops \cup {NoOp}, sessions : SUBSET Sessions,
             session : SUBSET Sessions, ids : SUBSET Requests, recent : BOOLEAN]]
    /\ live \in Generations /\ policy \in BOOLEAN /\ failures \in 0..MaxFailures
    /\ \A s \in Sessions : session[s].plan # {} => session[s].deleting
    /\ \A g, h \in Generations : At(g, "delete") /\ At(h, "delete") => g = h

\* No operation takes the session of an admitted turn: while its request is
\* queued no operation has deleted the session or begun to, although
\* eligibility is checked before the claim and the admission checks the
\* claim before it writes.  (The manual purge does: AdmittedWinsRace.)
AdmittedTurnKeepsSession ==
    \A r \in Requests :
        request[r] = "queued" =>
            session[SessionOf[r]].state # "gone" /\ ~session[SessionOf[r]].deleting

\* An operation that is reported finished is not being executed by the owner
\* it is recorded under: a pump of an older generation cannot finish what
\* the current one has claimed (CON-AGM-002).
FinishedMeansDone ==
    \A o \in Ops, g \in Generations :
        op[o].state \in Terminal /\ op[o].owner = g => pump[g].op # o

\* The session record goes last: when an operation deletes it no request of the
\* session is left on disk, so a crash in between leaves the plan.
SessionGoesLast ==
    [][\A s \in Sessions :
          session'[s].state = "gone" /\ session[s].state # "gone"
            => \A r \in Of(s) : request'[r] = "none"]_vars

\* Once destruction has begun the session stays claimed by the same
\* operation until its record goes, also when two generations execute that
\* operation and one of them found the session blocked (CON-AGW-168).
DeletionNeverAbandoned ==
    [][\A s \in Sessions :
          session[s].deleting =>
            \/ session'[s].deleting /\ session'[s].claim = session[s].claim
            \/ session'[s].state \in {"gone", "erased"}]_vars

\* Every accepted operation is executed to an outcome, whatever generations
\* ended in between: claims of an owner that is gone are taken back.  This
\* holds while every operation directory has its record; one without (a
\* creator that died, a look-up of an unknown id) stops every later run_once
\* until an operation of that id is created.
OperationsFinish ==
    \A o \in Ops : op[o].state \in {"accepted", "running"}
        ~> op[o].state \in Terminal \/ \E p \in Ops : Recordless(p)

\* The same without the exception: a directory that has no record holds no
\* other operation up.
RecordlessHarmless ==
    \A o \in Ops : op[o].state \in {"accepted", "running"} ~> op[o].state \in Terminal

\* lineage_delete.py: a failed removal raises "so the claim is kept and the
\* operation can be replayed".  A session that an operation has claimed is
\* in the end purged or released.
ClaimsEnd ==
    \A s \in Sessions : session[s].claim # NoOp ~> session[s].claim = NoOp

\* api.py:purge_execution_session: "a newly admitted request must win the
\* race" against the manual purge, too.
AdmittedWinsRace ==
    \A r \in Requests : request[r] = "queued" => ~Gone(SessionOf[r])
=============================================================================
