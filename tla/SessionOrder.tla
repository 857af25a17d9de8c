---------------------------- MODULE SessionOrder ----------------------------
(***************************************************************************)
(* The admission-order fence of session runners (queue/session_order.py)   *)
(* and every place where the gateway registers a request in it or takes it *)
(* out: admission, enqueue, the worker, cancellation, the retry timer and  *)
(* the rebuild of the scheduler after a restart.                           *)
(*                                                                         *)
(* The fence has one FIFO per (project, session).  The project is named by *)
(* its resolved path when admission registers the request and by its       *)
(* project id everywhere else; the first registration wins.                *)
(*                                                                         *)
(* Of the durable record only what the fence depends on is kept.  All      *)
(* requests belong to one project and are provider-session requests with a *)
(* session id.                                                             *)
(***************************************************************************)
EXTENDS Naturals, Sequences, FiniteSets, SequencesExt

CONSTANTS
    Requests,
    SessionOf,      \* request -> its session-id
    MaxDefers,      \* recovery attempts: provider-session-recovery-max-attempts, or for
                    \* an attached provider session what its lifetime policy allows
    MaxRestarts     \* bound: restarts of the service

ASSUME OrderAssumption ==
    /\ DOMAIN SessionOf = Requests
    /\ MaxDefers \in Nat /\ MaxRestarts \in Nat

Sessions == {SessionOf[r] : r \in Requests}
ByPath(r) == <<"path", SessionOf[r]>>     \* str(project_root.resolve())
ById(r) == <<"id", SessionOf[r]>>         \* project_id(project_root)[0]
Keys == {"path", "id"} \X Sessions
NoKey == <<>>

VARIABLES
    rec,         \* durable state of the request; "ended" is any terminal state
    keys,        \* SessionDispatchOrder._keys
    queues,      \* SessionDispatchOrder._queues
    at,          \* where the thread that carries the request is
    cancelling,  \* cancel() has written the record and will call complete
    defers,      \* recovery attempts of the request
    ordinal,     \* enqueue-ordinal of the record, 0 before it is admitted
    sequence,    \* enqueue-sequence.json: the last ordinal given out
    recovering,  \* requests the starting service has still to schedule again
    born,        \* history: restarts before the request was admitted
    restarts

orderVars == <<rec, keys, queues, at, cancelling, defers, ordinal, sequence, recovering, born, restarts>>
order == <<keys, queues>>
stamps == <<ordinal, sequence, born, restarts>>

(* admitted: between admission and enqueue; stop and head: the two halves  *)
(* of the wait loop; runner: inside the runner; unwind: _run_one's finally *)
(* clause; timer: a delayed recovery retry; rejected: enqueue gave it up.   *)
Places == {"none", "rejected", "admitted", "pending", "stop", "head", "runner", "unwind", "timer"}

NoRecovery == [running |-> {}, queued |-> {}]

OrderInit ==
    /\ rec = [r \in Requests |-> "absent"]
    /\ keys = [r \in Requests |-> NoKey]
    /\ queues = [k \in Keys |-> <<>>]
    /\ at = [r \in Requests |-> "none"]
    /\ cancelling = [r \in Requests |-> FALSE]
    /\ defers = [r \in Requests |-> 0]
    /\ ordinal = [r \in Requests |-> 0]
    /\ sequence = 0
    /\ recovering = NoRecovery
    /\ born = [r \in Requests |-> 0]
    /\ restarts = 0

Unfinished(r) == rec[r] \in {"queued", "running"}
Goto(r, place) == at' = [at EXCEPT ![r] = place]
SetRecord(r, state) == rec' = [rec EXCEPT ![r] = state]
ToRecover == recovering.running \cup recovering.queued

(* deque.remove.                                                           *)
Without(q, r) == RemoveAt(q, CHOOSE i \in DOMAIN q : q[i] = r)

-----------------------------------------------------------------------------
(* SessionDispatchOrder.                                                   *)
(* Mutant: a request that is registered again is put at the end.           *)
RegisterAtEnd(r, k) ==
    /\ keys' = [keys EXCEPT ![r] = k]
    /\ queues' = [queues EXCEPT ![k] = Append(IF keys[r] = k THEN Without(@, r) ELSE @, r)]

Register(r, k) ==
    IF keys[r] = NoKey
      THEN /\ keys' = [keys EXCEPT ![r] = k]
           /\ queues' = [queues EXCEPT ![k] = Append(@, r)]
      ELSE UNCHANGED order

IsHead(r) == keys[r] # NoKey /\ Head(queues[keys[r]]) = r

Forget(r) ==
    IF keys[r] # NoKey
      THEN /\ keys' = [keys EXCEPT ![r] = NoKey]
           /\ queues' = [queues EXCEPT ![keys[r]] = Without(@, r)]
      ELSE UNCHANGED order

-----------------------------------------------------------------------------
(* Mutant: only enqueue registers the request.                             *)
AdmitUnregistered(r) ==
    /\ rec[r] = "absent" /\ ToRecover = {}
    /\ SetRecord(r, "queued")
    /\ sequence' = sequence + 1
    /\ ordinal' = [ordinal EXCEPT ![r] = sequence + 1]
    /\ Goto(r, "admitted")
    /\ born' = [born EXCEPT ![r] = restarts]
    /\ UNCHANGED <<order, cancelling, defers, recovering, restarts>>

(* The record is persisted and registered under the admission lock.  The   *)
(* service takes no calls before it has scheduled the recovered requests.  *)
Admit(r) ==
    /\ rec[r] = "absent" /\ ToRecover = {}
    /\ SetRecord(r, "queued")
    /\ sequence' = sequence + 1
    /\ ordinal' = [ordinal EXCEPT ![r] = sequence + 1]
    /\ Register(r, ByPath(r))
    /\ Goto(r, "admitted")
    /\ born' = [born EXCEPT ![r] = restarts]
    /\ UNCHANGED <<cancelling, defers, recovering, restarts>>

Enqueue(r) ==
    /\ at[r] = "admitted"
    /\ Register(r, ById(r))
    /\ Goto(r, "pending")
    /\ UNCHANGED <<rec, cancelling, defers, recovering, stamps>>

(* A stale profile snapshot, invalid capacity limits or a full queue: the  *)
(* record is rejected, or was already cancelled and the call raises.       *)
EnqueueReject(r) ==
    /\ at[r] = "admitted"
    /\ SetRecord(r, "ended")
    /\ Goto(r, "rejected")
    /\ UNCHANGED <<order, cancelling, defers, recovering, stamps>>

(* _run_one up to the wait; a record that is no longer queued or running   *)
(* is refused by the claim.  Workers are started in lane order but run     *)
(* concurrently: any of them may get here first.                           *)
Dispatch(r) ==
    /\ at[r] = "pending"
    /\ Goto(r, IF Unfinished(r) THEN "stop" ELSE "unwind")
    /\ UNCHANGED <<rec, order, cancelling, defers, recovering, stamps>>

(* SessionDispatchOrder.wait: stopped() is evaluated without the lock.     *)
WaitStopped(r) ==
    /\ at[r] = "stop"
    /\ Goto(r, IF Unfinished(r) THEN "head" ELSE "unwind")
    /\ UNCHANGED <<rec, order, cancelling, defers, recovering, stamps>>

WaitHead(r) ==
    /\ at[r] = "head"
    /\ Goto(r, CASE keys[r] = NoKey -> "unwind" [] IsHead(r) -> "runner" [] OTHER -> "stop")
    /\ UNCHANGED <<rec, order, cancelling, defers, recovering, stamps>>

(* start_owned_session_attempt, inside the runner.                         *)
StartTurn(r) ==
    /\ at[r] = "runner" /\ rec[r] = "queued"
    /\ SetRecord(r, "running")
    /\ UNCHANGED <<order, at, cancelling, defers, recovering, stamps>>

RunnerReturns(r) ==
    /\ at[r] = "runner"
    /\ SetRecord(r, "ended")
    /\ Goto(r, "unwind")
    /\ UNCHANGED <<order, cancelling, defers, recovering, stamps>>

(* Mutant: recovery attempts are not bounded.                              *)
RunnerDefersForever(r) ==
    /\ at[r] = "runner" /\ Unfinished(r)
    /\ defers' = [defers EXCEPT ![r] = IF @ > MaxDefers THEN @ ELSE @ + 1]
    /\ Goto(r, "timer")
    /\ UNCHANGED <<rec, order, cancelling, recovering, stamps>>

(* RecoveryDeferred: the request keeps its position.                       *)
RunnerDefers(r) ==
    /\ at[r] = "runner" /\ Unfinished(r)
    /\ defers[r] < MaxDefers
    /\ defers' = [defers EXCEPT ![r] = @ + 1]
    /\ Goto(r, "timer")
    /\ UNCHANGED <<rec, order, cancelling, recovering, stamps>>

TimerFires(r) ==
    /\ at[r] = "timer"
    /\ IF Unfinished(r)
         THEN Goto(r, "stop") /\ UNCHANGED order
         ELSE Goto(r, "none") /\ Forget(r)
    /\ UNCHANGED <<rec, cancelling, defers, recovering, stamps>>

(* Mutant: the worker leaves without releasing its place.                  *)
UnwindKeepsPlace(r) ==
    /\ at[r] = "unwind"
    /\ Goto(r, "none")
    /\ UNCHANGED <<rec, order, cancelling, defers, recovering, stamps>>

Unwind(r) ==
    /\ at[r] = "unwind"
    /\ Forget(r)
    /\ Goto(r, "none")
    /\ UNCHANGED <<rec, cancelling, defers, recovering, stamps>>

-----------------------------------------------------------------------------
(* GatewayQueueManager.cancel: the record is cancelled while it is queued; *)
(* complete follows when this manager held the request in its pending      *)
(* index or among its running requests.                                    *)
Cancel(r) ==
    /\ rec[r] = "queued" /\ at[r] # "none" /\ ToRecover = {}
    /\ SetRecord(r, "ended")
    /\ cancelling' = [cancelling EXCEPT ![r] = at[r] \notin {"admitted", "timer"}]
    /\ at' = [at EXCEPT ![r] = IF @ = "pending" THEN "none" ELSE @]
    /\ UNCHANGED <<order, defers, recovering, stamps>>

CancelCompletes(r) ==
    /\ cancelling[r]
    /\ cancelling' = [cancelling EXCEPT ![r] = FALSE]
    /\ Forget(r)
    /\ UNCHANGED <<rec, at, defers, recovering, stamps>>

(* Another process cancels the durable record only.                        *)
CancelRemote(r) ==
    /\ rec[r] = "queued"
    /\ SetRecord(r, "ended")
    /\ UNCHANGED <<order, at, cancelling, defers, recovering, stamps>>

(* A restart: the fence is memory, and so are the threads.                 *)
Restart ==
    /\ restarts < MaxRestarts
    /\ restarts' = restarts + 1
    /\ keys' = [r \in Requests |-> NoKey]
    /\ queues' = [k \in Keys |-> <<>>]
    /\ at' = [r \in Requests |-> "none"]
    /\ cancelling' = [r \in Requests |-> FALSE]
    /\ recovering' = [running |-> {r \in Requests : rec[r] = "running"},
                      queued |-> {r \in Requests : rec[r] = "queued"}]
    /\ UNCHANGED <<rec, defers, ordinal, sequence, born>>

(* The order in which the records that were read are scheduled again: the  *)
(* running ones first, each group by its ordinals.                         *)
TakenBefore(r, q) ==
    \/ r \in recovering.running /\ q \in recovering.queued
    \/ /\ r \in recovering.running <=> q \in recovering.running
       /\ ordinal[r] < ordinal[q]

(* enqueue_recovered_running and enqueue_recovered_queued, one record at a *)
(* time; the threads of those that came before already run.  A recorded    *)
(* retry may not be due yet.                                               *)
Recover(r) ==
    /\ r \in ToRecover
    /\ \A q \in ToRecover \ {r} : TakenBefore(r, q)
    /\ Register(r, ById(r))
    /\ \E place \in IF r \in recovering.running THEN {"stop", "timer"} ELSE {"pending"} : Goto(r, place)
    /\ recovering' = [running |-> recovering.running \ {r}, queued |-> recovering.queued \ {r}]
    /\ UNCHANGED <<rec, cancelling, defers, stamps>>

WorkerStep(r) ==
    \/ Enqueue(r) \/ EnqueueReject(r) \/ Dispatch(r) \/ WaitStopped(r) \/ WaitHead(r)
    \/ StartTurn(r) \/ RunnerReturns(r) \/ RunnerDefers(r) \/ TimerFires(r) \/ Unwind(r)

OrderNext ==
    \/ \E r \in Requests : Admit(r) \/ Recover(r) \/ WorkerStep(r) \/ Cancel(r) \/ CancelCompletes(r) \/ CancelRemote(r)
    \/ Restart

OrderSpec == OrderInit /\ [][OrderNext]_orderVars

(* Threads and timers are scheduled, a runner returns or defers, a         *)
(* cancel() call runs to its end and so does the start of the service.     *)
OrderFairSpec ==
    /\ OrderSpec
    /\ \A r \in Requests :
        WF_orderVars(Recover(r)) /\ WF_orderVars(WorkerStep(r)) /\ WF_orderVars(CancelCompletes(r))

-----------------------------------------------------------------------------
OrderTypeOK ==
    /\ rec \in [Requests -> {"absent", "queued", "running", "ended"}]
    /\ keys \in [Requests -> Keys \cup {NoKey}]
    /\ queues \in [Keys -> Seq(Requests)]
    /\ at \in [Requests -> Places]
    /\ cancelling \in [Requests -> BOOLEAN]
    /\ defers \in [Requests -> 0 .. MaxDefers]
    /\ ordinal \in [Requests -> 0 .. sequence] /\ sequence \in Nat
    /\ recovering \in [running : SUBSET Requests, queued : SUBSET Requests]
    /\ born \in [Requests -> 0 .. restarts]
    /\ restarts \in 0 .. MaxRestarts

Earlier(q, r) ==
    /\ rec[q] # "absent" /\ rec[r] # "absent"
    /\ SessionOf[q] = SessionOf[r] /\ ordinal[q] < ordinal[r]

(* The index and the queues agree: a request is in the FIFO its key names, *)
(* once, and in no other.                                                  *)
IndexMatchesQueues ==
    \A r \in Requests, k \in Keys :
        Cardinality({i \in DOMAIN queues[k] : queues[k][i] = r}) = IF keys[r] = k THEN 1 ELSE 0

(* A request's turn starts only when every request admitted before it to   *)
(* the same session has ended: by this or an earlier service generation.   *)
StartsInAdmissionOrder ==
    [][\A r \in Requests :
         (rec[r] = "queued" /\ rec'[r] = "running") =>
             \A q \in Requests : Earlier(q, r) => ~Unfinished(q)]_orderVars

(* The same for requests admitted by one generation, whether that          *)
(* generation or, after a restart, a later one starts them.                *)
GenerationInOrder ==
    [][\A r \in Requests :
         (rec[r] = "queued" /\ rec'[r] = "running") =>
             \A q \in Requests : (Earlier(q, r) /\ born[q] = born[r]) => ~Unfinished(q)]_orderVars

Rejected(r) == at[r] = "rejected"

(* Whoever ended it, wherever its worker was then, a request that has      *)
(* ended gives up its place, so that its successors are not held up.       *)
EndedLeavesTheOrder ==
    \A r \in Requests : rec[r] = "ended" ~> (keys[r] = NoKey \/ Rejected(r))

(* The same for a request that was rejected on its way into the queue.     *)
RejectedLeavesTheOrder == \A r \in Requests : Rejected(r) ~> keys[r] = NoKey

(* Every admitted request ends, unless one of its session was rejected:    *)
(* RejectedLeavesTheOrder says what is wrong then.                         *)
EveryTurnEnds ==
    \A r \in Requests :
        rec[r] = "queued" ~>
            (rec[r] = "ended" \/ \E q \in Requests : SessionOf[q] = SessionOf[r] /\ Rejected(q))
=============================================================================
