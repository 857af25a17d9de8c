# AUDiaGentic: a TLA+ model of the Agent Execution Gateway

AUDiaGentic (`src/src/audiagentic`) manages AI agents for a software project. Its
centre is the *Agent Execution Gateway* (`components/agents/gateway`, called `G/`
below): a per-machine service that admits execution requests, queues them, gives
each to a worker process or to a long-lived provider session, supervises it, and
survives restarts, runs some of them on remote execution nodes, and deletes old
sessions. This project models the part of the gateway whose mistakes are hard to test:
what happens to a request, a node command or a session across threads, processes,
connections, crashes and service generations.

## 1. Inventory

### The gateway

| Part | Code | State | Operations |
|---|---|---|---|
| request store | `G/store/_transitions.py`, `_records.py`, `_shared.py` | one JSON record per request: state, owner generation, worker, attempt, cancel and recovery flags, revision | compare-and-swap mutations under a per-request file lock: claim, start, prepare, start turn, terminal, reject, cancel, take over, defer, expire, capture, and the attempt ownership of remote nodes |
| admission store | `G/store/_admission.py` | idempotency index, enqueue ordinal counter | `admit_record` under the admission lock |
| active work and work index | `_records.py`, `G/queue/work_index.py` | per-service marker file and index entry (phase, owner) of each request in progress | write, phase update, owner takeover, clear |
| queue manager | `G/queue/queue.py`, `dispatch.py` | in memory: pending requests, running requests, cancel requests, recovery timers | enqueue, drain, run one request, retry recovery, cancel, shut down |
| scheduling authorities | `G/queue/pending.py`, `capacity.py`, `session_order.py` | lane FIFOs and project rotation; capacity leases; admission order of session runners | enqueue, claim, reserve, release, wait |
| recovery | `G/queue/recovery.py` | none of its own | one pass per service start over markers and work index |
| service host | `G/service/host.py`, `foundation/system/managed_service_owner.py` | the owner record with its epoch | claim, recover, serve, watchdog pass, close and retire |
| sessions | `G/session/*.py` | session records with their retention claim, bindings, turn locks, checkpoints | open, prompt, resume, expire, claim, purge |
| nodes | `G/node/*.py` | gateway: the bound command in the record, the live connection, readiness, the receipt cursor; node: the receipt log, the retained preparation, the producer | prepare, bind, command, authorize, execute, log, send and acknowledge receipts, fence, observe, publish, drain, reconnect |
| operations | `G/operations/*.py` | durable operation records with their owner epoch | create, recover claims, claim, execute, finish, fail |
| API, transport, projections | `G/api.py`, `service/http_transport.py`, `observability.py`, ... | none | validation, HTTP, read models |

How they interact: the API admits a record under the admission lock and enqueues it
in the queue manager of the serving process. A thread of that process claims the
record for its service generation (*owner epoch*), starts an attempt and hands the
prompt to a runner. A worker request becomes `running` before its runner starts; a
session request is only *prepared* and becomes `running` when its thread holds the
session's turn lock. Whatever happens, the record reaches one terminal state. The
store fences every owned mutation by owner, worker and attempt. A new generation,
before it serves, walks the markers and the work index, takes every unfinished
request over, and settles or adopts it.

A request placed on an execution node is prepared on the node over the live
connection, bound to it in the record, commanded, and authorized once more by the
gateway before its effect. The node logs a receipt before and after everything it
does; the gateway takes receipts one by one into the record and a cursor, and
publishes the result when the terminal receipt is there. What cannot be decided is
never guessed: the attempt is deferred and observed when the node changes.

A durable operation (here: purge old sessions) is claimed by the pump of the serving
generation. A purge claims the session, checks again that nothing continued it, writes
the plan on the claim, deletes the requests, and the session record last.

What is hard: three durable objects (record, marker, index) written one after the
other; processes that die between the writes; a retired generation whose threads
still run (`retire()` releases the owner record while the process is alive);
cancellations that arrive in another process; recovery retries driven by in-memory
timers; supervisors, expiry and operators that finish requests behind the worker's
back; connections that break between a grant and its receipt; idempotency files that
are lost or stale; a deletion that stops half-way or races a new turn.

What makes each part correct:

- store: an outcome is decided once; ownership only moves to newer generations;
- queue and recovery: a claimed request is always findable, always somebody's, ends
  eventually, and its prompt is not executed twice, although a retry may run it again;
- capacity: leases never exceed a source's concurrency, two sources are never
  resident on one resource together, a starving source is served;
- pending requests: FIFO per lane, fair between projects, no wakeup lost, every
  pending request started or cancelled;
- session order: turns start in admission order, a request that is gone blocks nobody;
- admission: one request per key, a replay gets what was asked for, ordinals are never
  reused, a request reported as created is found after every crash;
- nodes: a prompt runs at most once and only when granted, a busy node is never given
  to another request, "no effect" is only said when it is true, receipts reach the
  record and the result is published;
- operations and purge: a session with an admitted turn is not deleted, a deletion once
  begun is finished by its operation, a superseded pump decides nothing, every operation
  ends.

### Everything else

`components/` also holds agents configuration and work, providers (adapters of
external tools, 48 000 lines), coding LSP, planning, ledger, memory, project and
worktrees, release, source control; `foundation/` the event bus, the workflow
engine, managed services, transports, lifecycle and toolchains. They are listed in
`PROJECT.json` with the reason each is left out for now: mostly subprocess, git or
HTTP input and output around files.

## 2. Modules

| Module | What it models |
|---|---|
| `RequestRecord` | the durable record and the store's mutations, as functions with their guards |
| `GatewayRecovery` | requests of the gateway across service generations; composes the record with markers, index, threads and the recovery pass |
| `RequestLifecycle` | abstract: what a client is promised about a request |
| `MCGatewayRecovery` | instances for TLC |
| `GatewayRecoveryProofs` | type correctness, discoverability, refinement, for all constants |
| `GatewayCustodyProofs` | who works on a request: no orphans, settled cancellations, harmless old threads, prompts sent once |
| `ResourceCapacity` | one physical resource of the capacity authority |
| `MCResourceCapacity`, `ResourceCapacityProofs` | its instance and its proofs |
| `Scheduler` | pending index, concurrent drains, overlay limits, composed with `ResourceCapacity` (INSTANCE) |
| `SessionOrder` | the admission-order fence of session runners |
| `Admission` | `admit_record` write by write, with crashes, faults and purges |
| `NodeRecord` | the node part of a request record: store functions with their guards |
| `NodeDispatch` | gateway, connection and execution node; composes `NodeRecord` with queue entries, receipt custody and the node's log |
| `NodeEffect` | abstract: what dispatch promises about the effect of a request |
| `SessionPurge` | operation store, pumps and the purge of a session, racing admission |
| `SchedulerProofs`, `SessionOrderProofs`, `AdmissionProofs`, `NodeDispatchProofs`, `SessionPurgeProofs` | their proofs |
| `MCScheduler`, `MCSessionOrder`, `MCAdmission`, `MCNodeDispatch`, `MCSessionPurge` | instances for TLC |

### RequestRecord

A record keeps the fields some guard reads: `state`, `owner` (dispatch-owner-epoch),
`root` (dispatch-service-root is set), `worker`, `attempt`, `cancel`, `recovery`,
`revision`. For each store function there is a guard (`CanClaim`, `CanStart`,
`CanPrepare`, `CanStartTurn`, `CanFinish`, `CanReject`, `CanDefer`, `CanExpire`,
`CanCapture`) and the record it writes (`Claimed`, `Started`, ...). `Successors` is
the gateway-request table of `components/agents/workflows.yaml`. `FenceHolds` is
`_check_expected_identity`. Three mutations do without the fence, as in the code:
`Rejected` (plain `transition_record`), `CancelledOrMarked` and `Captured`, which
also bypasses the workflow table. Worker ids are `<<role, epoch>>`: the code takes a
new uuid only when the record has none or when a generation takes over, so the pair
is as distinct as the uuid.

### GatewayRecovery

`rec`, `marker` and `index` are durable. `epoch` and `service` are the newest service
generation and its life. `thr[e][r]` is the thread of generation `e` that works on
request `r`, with its program counter and what it holds in local variables: the
identity it will present as a fence, the revision it will compare, whether it
resumes recovered work, whether it only observes a turn (`observe` is `resume_existing`),
whether it used its in-place retry, and whether the manager was asked to cancel it.
`scan[r]` is the progress of the recovery pass and what it read. `prompt[r]` says how far
the prompt has gone: `stage` is the submission checkpoint in the session record and `phase`
the request's `recovery.phase`, both durable; `sent` is a history variable, how often the
prompt was handed to the provider or the worker.

`Checkpointed` are the session requests whose transport keeps a submission checkpoint
(gpt-auto). A runner may be given the prompt many times: the retries of `presubmit-retry`,
`presubmit-reconcile` and `rehydrate-retry` run the original runner with the frozen prompt
and `resume_existing=False`, and so does recovery when the checkpoint proves the prompt
unsent (`ProvenUnsent`). What keeps it from being *sent* again is the checkpoint: it is
written ahead of every step, only by the owner of the running request
(`SubmissionFence`), a fresh one only where there is none, and it is cleared only by an
attempt that proves it never reached Send (`UnsentCleared`). A session without checkpoint
defers only a turn it observes, and its running turn is only observed when taken up again.

| Actions | Code |
|---|---|
| `Admit`, `AdmitIndex` | `admit_record`, with a crash possible between the two writes |
| `Enqueue`, `EnqueueReject`, `Dequeue` | `GatewayQueueManager.enqueue`, `_drain_all` |
| `Check...`, `Claim...`, `StartBound`, `StartRecovered`, `Prepare` | `_run_one` up to the runner, `claim_dispatch`, `bind_and_start_owned_attempt`, `prepare_owned_session_attempt` |
| `Turn...`, `Open...`, `StartTurn...` | `_dispatch_session_request` and the turn lock of `SessionRuntime._prompt`, `start_owned_session_attempt` |
| `ClaimPrepared`, `OpenRefused` | reopening the session of a prepared turn: `claim_prepared_submission_recovery` |
| `SendUnfenced` | `transport.prompt` without a checkpoint |
| `PreparePrompt`, `DispatchPrompt`, `DispatchClaimed`, `IntendSend`, `Click` | the gpt-auto submission: `persist_unresolved_checkpoint`, `mark_submission_dispatching`, `advance_prepared_submission_to_dispatching`, `persist_submission_stage`, the browser's Send |
| `PromptRefused`, `SubmitAbandoned`, `PresubmitFails`, `UnsentCleared` | a refused checkpoint write; an attempt given up with its checkpoint; a provider that is not ready; `clear_owned_unsent_submission_checkpoint`. The last two go through `UnsentRetry`: once in place, then deferred |
| `RunEnds`, `RunRaises`, `Sweep` | `transition_owned_terminal`: the record, then the projections |
| `RunDefers`, `Defer...`, `TimerFires` | `RecoveryDeferred` in `_run_one`, `_schedule_recovery_retry` |
| `CancelByClient`, `CancelRemote` | `GatewayQueueManager.cancel` in the serving process, and in any other |
| `Supervisor`, `ExpireSession`, `OperatorComplete` | `run_watchdog_pass` and abandon, `expire_session_if_policy_exceeded`, `capture_provider_output` |
| `StartService`, `Serve`, `Retire`, `Crash` | `ManagedServiceOwner`, `GatewayServiceHost` |
| `Scan...`, `TakeOver`, `Settle`, `Repair`, `RecoveryFails` | `recover_gateway_requests`, `_takeover_stale_request` |
| `CrashInClaim`, `CrashInRepair` | a crash between the durable writes of `claim_dispatch` and of a takeover |

Assumptions. A durable write does not fail: the process may die between any two
writes, but an `OSError` on one is not modelled. The request lock makes one store
mutation atomic. A supervisor's terminal write and its clean-up are one step: a crash
between them leaves what `Sweep` and `Crash` already leave. Where the watchdog's
policy decides *when* to act, the model lets it act whenever its guard on the record
holds. Of a submission checkpoint the model keeps the stage; its attempt id is that of the
one submission in progress. A recovery claim is `claimed` until it is spent; whether an
unexpired claim refuses the reopening (`OpenRefused`) is left open.

Two things the model makes visible about prompts that are given again. A transport that
writes `prepared` once more under its recovery claim is refused (`sessions_store.py:1604`,
`CON-AGW-125`), and gpt-auto does; so `DispatchClaimed` is the contract of the store, as
`tests/unit/agents/test_agents_gateway_sessions.py` exercises it, and `PromptRefused` what
gpt-auto meets. And a request that was deferred before Send carries `recovery-required`,
which refuses the fresh checkpoint its retry needs (`sessions_store.py:1350`): the retry
ends as failed although `recovery.py:439` calls it the safe replay path. Both err on the
side of not sending.

`Overlap = TRUE` lets threads that are past the queue outlive `Retire`. The code
does not join them: `GatewayServiceHost.close` stops the queue, retires the owner
record, and the next service may claim it while the old process still winds down.
`Overlap = FALSE` is the restart in which the old process ends with its service.

### ResourceCapacity

`active`, `inFlight`, `waitingSince` and `tokens` are the four fields of
`_ResourceCapacity`. `try_reserve` reads the clock before it takes the lock, so the
model lets its reading lag by up to `MaxLag`. Waiting times are kept as ages,
saturated at `StarvationSeconds + MaxLag`, past which the code does not tell them
apart: that makes the state space finite without a bound on time.

### Scheduler

`pending` and `rotation` are the pending authority: the lanes are recovered from
`pending`, which is in sequence order, so one sequence stands for the three
dictionaries of the class. `LaneHeads` are the requests no other of their lane precedes,
and `Candidates` lists them in the order `TriedBefore`: by the rotation, then by sequence
number. `leased` is `ScopedCapacityAuthority` (a token is a lease),
the four variables of `ResourceCapacity` are the physical resource, and `drain[d]` is
one call of `_drain_all`: the snapshot it still has to try and the instance it is at.
`place[r]` says where a request is; a session goes from `worker` to `idle` (capacity
given back), `polling` (overlay lease taken, source not yet) and `turn`.

| Actions | Code |
|---|---|
| `Enqueue`, `EnqueueReject`, `CancelPending` | `enqueue`, `cancel` |
| `Snapshot`, `TryScopes`, `TryGranted`, `TryRefused`, `Claim`, `ClaimMisses` | `_drain_all`, `_try_reserve_source` |
| `Finish`, `SessionYields`, `SessionEnds` | `_run_one`, `_on_turn_done`, each with the drain it starts |
| `PollScopes`, `PollGranted`, `PollRefused` | `_reserve_session_when_available`, `_try_reserve_specific_source` |

The manager lock and the profile's lock are held from the first instance tried to the
claim (`LocksFree`, `ProfileFree`); cancellation takes neither. `Drainers` bounds how
many drains are in progress at a time. Node entries, whose capacity follows another
path (`NodeDispatch`), and recovery retries, which reserve like a polling session, are left out.

### SessionOrder

`keys` and `queues` are the two dictionaries of `SessionDispatchOrder`. `at[r]` is the
place of the thread that carries the request, with the two halves of the wait loop
(`stop`, `head`) apart because the durable read happens without the lock. Admission
names the project by its path and everything else by its id (`ByPath`, `ById`): the
first registration wins. `cancel` writes the record and completes the request in two
steps; a cancellation in another process only writes the record. `ordinal` and `sequence`
are the enqueue ordinal of a record and the file it is counted in. `Restart` empties the
fence and reads what is unfinished (`recovering`); `Recover` then schedules one record at a
time, the running ones first and each group by its ordinals, while the threads of those
that came before already run. No client is served until all are scheduled.
What happens to the record otherwise is `GatewayRecovery`'s subject.

### Admission

A call generates its own request id, so a call and the request it would create are one
value. `state` and `ordinal` are the request records, `index` the key files (a set
with at most one entry), `sequence` the ordinal file, `work` the work index; `queue` is
the memory of the process. `hint[c]` is what the scan before the lock returned.

| Actions | Code |
|---|---|
| `Probe`, `Scan` | `admit_record` before the lock |
| `TakeLock`, `LookIndex`, `MatchRecords`, `BeforeWriteRefuses` | the index and record lookup under the lock |
| `WriteOrdinal`, `WriteRecord`, `WriteIndex`, `WriteWork`, `Return` | its durable writes, one step each |
| `Enqueue`, `Claim`, `Finish`, `Purge` | what happens to the request later, as far as it changes these files |
| `DamageIndex` | a key file lost, damaged or restored from elsewhere (external) |
| `CrashAndRecover` | the process dies, and the next one rebuilds its queue from the work index |

### NodeRecord and NodeDispatch

A connection is `<<gateway epoch, node epoch, generation>>`. A command identity names the
connection it was prepared on and is bound at most once per request, so `rec[r].conn`
stands for it. `rec` and `cursor` are durable on the gateway, `outbox`, `command` and
`acked` on the node. `slot`, `ready`, `drain` are the gateway's live connection, `conn`,
`bound`, `nodeDrain` the node's. `job[r]` is the queue entry or thread of a request (a
fresh attempt or an observer of a bound command) and `fresh[r]` whether the record is
still at the revision that thread read. `missed[r]` is a history variable: an observer gave
the request up although its terminal receipt and a live connection were there. `work` is the node's preparation or producer,
`sender` its receipt sender, `inhand` and `committing` the receipts in threads of the
gateway. `executed` is a history variable.

| Actions | Code |
|---|---|
| `Submit`, `Cancel`, `StartFresh`, `StartObserver` | `NodeAdmissionOwner.submit`, `GatewayQueueManager.cancel` (a pending entry is removed, of a bound command too) with `cancel_queued_or_mark_requested`, `_drain_all` with `_try_reserve_node` |
| `WakeNode`, `Retire`, `DeferRead`, `DeferWrite` | `_wake_node`, the `finally` of `_run_one`, `_defer_node` |
| `SendPrepare`, `BindPrepared`, `Prepare...`, `SendCommand` | `NodeRunner.__call__` |
| `AuthorizeEffect`, `ObserveFence`, `ObserveDefer` | `_effect_reply`, `_fence_unauthorized_dispatch`, `NodeTerminalReconciler` without a receipt or a connection |
| `ObserveFetch`, `ObservePublish`, `ObserveFails` | `NodeTerminalReconciler.__call__`: the artifact is fetched and the record read again; the owner guard is released; `publish_owned_node_terminal` compares the revision read, and a stale one, like an artifact that cannot be read (`ArtifactFaults`), defers |
| `TakeReceipt`, `ApplyCanonical`, `CommitCursor`, `AcceptDuplicate`, `RefuseReceipt`, `CursorFails` | `NodeReceiptRuntime`, `NodeReceiptCheckpoints.accept`, the canonical write and the cursor write apart |
| `GatewayReady`, `Revoke`, `RefreshCapability`, `Connect`, `...Drops`, `...Notices`, `GatewayRestart` | `NodeConnectionOwner`, `NodeConnection`, `NodeServerRuntime` |
| `NodePrepare`, `NodeRejects`, `NodeCommand`, `NodeGranted`, `NodeDenied`, `Producer...`, `Execute`, `Worker...` | `NodeRecipientRuntime`, `NodeExecutionOwner.run_one`, `NodeReceiptStore` |
| `Resume`, `SendReceipt`, `NodeAck`, `SenderHandoff`, `SendReady`, `LearnDrain`, `NodeRestart` | `NodeReceiptSender`, `emit_receipt_ready`, `NodeRecipientHost` |

Assumptions. One node, one project. A message belongs to a connection and is lost with
it; on one connection messages are not lost or reordered (it is a web socket), and at
most one dispatch and one receipt message are on the way in each direction. Digests are
left out, as what they cover never changes under one name; so are artifact bytes, frame
validation, TLS and workspaces. The stage `native-accepted` is not modelled: `run_one`
never writes it.

### SessionPurge

`op` is the operation store, `session` the session record with its retention claim and
plan, `request` the request directories, `turn[r]` the admission of a continuation,
`manual` a manual purge, `pump[g]` the pump thread of generation `g` with what it holds in
local variables. The generation fence and the retention lock are `FenceFree` and
`RetentionFree`. A session's record ends as `gone` (by an operation) or `erased` (by hand).

| Actions | Code |
|---|---|
| `CreateCrashes`, `ReadUnknown` | the operation's lock makes its directory: a `create` cut short before the record, a `read` of an id that was never created |
| `Create`, `RecoverClaims`, `ListDispatchable`, `ClaimOperation`, `Finish`, `Fail` | `ManagementOperationStore` |
| `Poll`, `EndRun`, `OwnershipLost` | `ManagementOperationPump.run_once` and its poller |
| `SelectSessions`, `EnterSession`, `Recheck`, `FinalClosure`, `TakeRetention` | `GatewaySessionPurgeExecutor`, `purge_session_under_policy` |
| `ClaimRetention`, `BeginDeletion`, `ReleaseClaim`, `AdmitTurn`, `StampTurn` | the retention functions of `sessions_store.py` |
| `DeleteRequest`, `DeleteSession`, `RemovalFails` | `delete_session_lineage` |
| `WriteTurn`, `RunTurn`, `CloseSession`, `ManualScan`, `ManualDelete` | `api.py`, `append_session_request` |
| `TimePasses`, `ChangePolicy`, `NextGeneration`, `OldPumpDies` | time, the retention policy, the end of a service generation |

`RecoverClaims` reads the operation directories in order and raises out of `run_once` at the
first one without a record (`Recordless`); the poller logs it and tries again, in vain until
an operation of that id is created. The listing (`list_dispatchable`) skips such a directory.

The second eligibility check (`Recheck`) is made of the session record as `claim_retention`
returned it, so the pump keeps whether that record had a recent turn (`recent`) and reads
only the requests again (`RequestsBlock`). `TimePasses` waits for pumps that are in the
session and for old pumps: the inactivity threshold is at least an hour, and a stopping
process gives its pump five seconds. With that `AdmittedTurnKeepsSession` holds for any
number of generations whose pumps execute one operation at once.
Archives, bindings, registered roots, sessions that share
requests and batches larger than the policy's limit are left out.

## 3. Runs

| Run | Instance | Shows |
|---|---|---|
| `resource_capacity` | 2 sources (concurrency 1 and 2), 3 tokens | counter equals leases; no oversubscription; drain before swap; starvation stops the active source |
| `generation_overlap` | 1 request, a worker's or a session's, 3 generations, overlap | never lost, never orphaned, old threads harmless, recovery settles cancellations, ownership moves forward, outcomes are stable, refines the lifecycle |
| `at_most_once` | 1 request, a worker's or a session's with or without checkpoint, 2 generations, no overlap, fairness | each prompt reaches its provider at most once, whatever is retried; each request is finished while its generation serves; the record, the threads and the pass keep their types |
| `session_order` | 2 requests of one session, a restart, rejections, fairness | requests of one generation start in order; index and FIFOs agree; a request that ended gives up its place; every request ends unless one was rejected |
| `scheduler` | 4 requests, 2 of one lane, 2 profiles, 2 projects, 2 drains, 1 source, fairness | lane FIFO, exact rotation, overlay limits, no lease left behind, every pending request served |
| `admission` | a record older than the ordinal file, its replay, 2 calls of one key with different intents, 1 crash, 1 fault | one request per key, faithful replays, created requests findable, ordinals ascend |
| `node_dispatch` | 2 requests, 2 gateways, 2 connections each, revocation, failing cursor writes | a busy node stays occupied, no-effect is honest, custody is applied, refines `NodeEffect` |
| `node_delivery` | 1 request, cancellation, 2 gateways, 2 connections each, 1 fault, artifacts that fail, fairness | receipts are acknowledged; a terminal result of a record marked for recovery is published, unless an observer missed it |
| `session_purge` | 1 session, an old request and a new turn, a scan and an explicit operation, manual purge, 2 overlapping generations, 1 failure, fairness | an admitted turn keeps its session, the record goes last, a deletion is not abandoned, a superseded pump finishes nothing, operations end while every operation directory has its record |
| `worker_replay`, `node_publication`, `purge_claim` | minimal | the findings below |

Bounds. Requests interact only through the recovery pass, which handles one at a
time and fails for all, so a behaviour of these runs submits one request, of any kind; the theorems are about any number. Three generations are the least in which a
takeover can be taken over again, and in which a thread can be two generations old;
`TakeoverWedge.cfg` needs four. `generation_overlap` and `at_most_once` explore a behaviour
until a second request is submitted (`OneSubmitted`). `Settling.cfg` checks `Settles` with
overlap and `SubmissionFence.cfg` `ExecutedAtMostOnce` with overlap, each for a session
request with checkpoint (0.9 million states); both pass. `MaxRevision` stops
only the *deferral* of a record that has already been rewritten that often, so every
other behaviour stays complete; with `MaxRevision = 3` a request is deferred and retried
(with 2 it never is), with 6 or 7 deferred again. `MaxEpoch` bounds service starts, and the
last generation does not die. The runs say `CHECK_DEADLOCK FALSE`
because the system may stop: every request finished and no generation left.

Fairness (`at_most_once`): weak fairness of each thread of the serving generation.
Python threads and `threading.Timer` are scheduled; a runner ends because workers have
an execution deadline and sessions a lifetime and idle policy. Nothing is assumed
fair about clients, operators, supervisors, crashes or restarts. `OrderFairSpec` and
`SchedFairSpec` assume the same of workers, drains and timers, and that a `cancel` call
runs to its end. `MaxDefers` stands for the recovery attempts a profile allows; for an
attached provider session the code has no such limit and its lifetime policy ends it.

For nodes two requests are the least in which a slot freed too early is given away, two
gateways and two connections the least in which a command outlives its connection and
its gateway. `node_delivery` assumes that the loops of the gateway and of the node run, a
lost connection is noticed and made again, and the worker's call returns; it allows each
property to end in a halted node, as the host then waits for its operator. `RecoveredPublished`
also ends where an observer gave up with everything at hand (`missed`): a cancel made its
revision stale or took its entry out of the queue, or the artifact could not be read. Then
nothing wakes another, and the result waits for the next change of the node or restart. For admission
one crash cuts every write once; the fault is a damaged or stale key file or a failed
work-index write. For purges the second request is the turn that races, and one failure
is a removal that fails, a policy that changes or an operation directory left without a
record; fairness is that of the pump of the
running generation, of the exit of a stopped process and of an admission under way.

`session_order` states the two properties of the fence as far as they hold: order
among requests admitted by one generation, progress when no request was rejected; the
two findings about the fence are what is left out. `scheduler` has one source on the
resource: with two, PendingIsServed fails (`StaleWaiter.cfg`); the protocol of several
sources is `resource_capacity`'s. With two sources, one drain at a time, no
cancellation and no overlay limits PendingIsServed holds (`SchedulerSwap.cfg`). Two
requests per lane, two projects and two drains are the least in which a snapshot can
be stale for a lane, for a project and for another drain. Two requests are enough for
the fence because only the head and its successor interact.

## 4. Findings

Places where a comment of the code says what the code does not do, each with a run that
exhibits it (`PROJECT.json`, `findings`, quotes the lines).

1. `worker_replay`: recovery reads a record as queued, the retiring generation's
   thread starts it, the takeover adopts it as recovered running work, and the frozen
   prompt is executed a second time.
2. `node_publication`: `_defer_node` reads the record and defers it under the revision it
   read. A receipt, an authorization or a cancellation in between makes the deferral
   raise out of the thread. The record stays `running` without its recovery mark, no
   wake-up looks at it, and its result is not published before the gateway restarts. One
   request, one connection and no fault are enough.
3. `purge_claim`: a removal that fails ends the operation as `failed`, which is never
   dispatched again, while the session stays claimed in stage `deleting`; nobody can
   complete or release the claim.

More that the model shows, each with the configuration that exhibits it:

- `SessionSend.cfg` (`ClaimBeforeSend`): a cancellation by another process, or an expiry,
  after the last check makes the thread skip the dispatch claim and submit the prompt of
  a request that never became running, against "the sole queued -> running CAS"
  (`sessions.py:3506`; the read is at `dispatch.py:2189`).
- `SessionOvertake.cfg` (`StartsInAdmissionOrder`): a recovered request and a new one of the
  same session are in two different FIFOs, because the project is named in two ways
  (`queue.py:669`, `queue.py:1180`); the new one can start first, against
  `host.py:334` ("must preserve admission order").
- `RejectedHead.cfg` (`RejectedLeavesTheOrder`): a request that `enqueue` rejects
  (`queue.py:896`) keeps its place in the session's FIFO; its successors wait until the
  service restarts.
- `StaleWaiter.cfg` (`PendingIsServed`): a refused source stays among the waiting ones
  (`capacity.py:135`) when its request is cancelled; once it has aged, the active source is
  refused on an idle resource. TLC finds the same without a cancellation when a second
  drain tries, on an old snapshot, a request that has already run.
- `NodeCustody.cfg` (`ReplayAccepted`): a gateway dies between the record and the cursor,
  and once more after the next one has published the result. The third does not take a
  terminal record over, so its owner epoch is old and the replayed receipt is refused
  (`receipt_runtime.py:82`) on every connection, against `checkpoints.py:6` ("latest-exact
  canonical replay sufficient after a crash").
- `DrainReconnect.cfg` (`RecoveredPublished`): after a revocation the node reconnects to
  drain; it never becomes ready, and when its receipts were already taken nothing wakes
  the deferred observer.
- `StalePublication.cfg` (`CancelKeepsResult`): a cancel between the reconciler's last read
  (`artifact_reconciliation.py:182`) and its publication makes the revision stale, and a
  cancel before it removes the waiting observer from the queue (`queue.py:2580`); the receipt
  is in the record, the node connected, and nothing publishes the result.
- `RecordlessOperation.cfg` (`RecordlessHarmless`): a creation cut short after its lock, or a
  mere look-up of an unknown operation id, leaves a directory without a record
  (`operation_store.py:112`); `recover_prior_owner_claims` (`operation_store.py:182`) raises
  at it in every cycle, and no operation is executed any more.
- `AdmissionCrash.cfg` (`AdmittedDiscoverable`): a crash between the record and its
  work-index entry leaves a queued request that replays are answered with and no
  recovery finds, against `_admission.py:179` ("so recovery can discover
  admitted-but-unclaimed requests after a crash").
- `PurgeScanCrash.cfg` (`ClaimsEnd`): a crash between the claim and the plan of a scan
  operation; the replay's report (`purge_eligibility.py:64`) calls the session claimed, the
  operation completes, and the claim stays. A policy that changed after the crash has the
  same effect.
- `ManualPurge.cfg` (`AdmittedWinsRace`): the manual purge takes neither the generation
  fence nor a claim, and a turn admitted between its scan and its deletion is not among
  the requests it reads again, against `api.py:2502` ("a newly admitted request must win
  the race").
- `SessionStart.cfg` (`StartedTurnRuns`): a crash in the claim leaves the index entry in
  phase `admitted`; the recovered turn is recorded as running and then fails on the
  index phase, which `_transitions.py:1375` calls "non-fatal".
- `OldGeneration.cfg` (`OldGenerationIsFenced`): rejections and cancellations are not
  fenced; a thread of a retired generation can end a request the new one owns, against
  "on every later mutation" at `_transitions.py:690`.
- `TakeoverWedge.cfg` (`TakeoverRepairs`): two crashes in two takeovers make the third
  pass expect an owner the record no longer has; the error ends the start of the
  service, and every later start (`recovery.py:225` promises the repair).
- `PollingLease.cfg` (`PendingIsServed`): a drain that meets a polling session's overlay
  lease skips the very request whose wait blocks the session; nothing drains again
  (`queue.py:2044` says why the worker drained).

## 5. Proofs

`GatewayRecoveryProofs` proves, for any set of requests, any number of generations,
with and without overlap:

- `TypeCorrect`: `Spec => []TypeOK`
- `NoClaimedRequestIsLost`: `Spec => []Discoverable`
- `OwnershipForward`: `Spec => OwnershipMovesForward`
- `OutcomeStable`: `Spec => OutcomeIsStable`
- `Refinement`: `Spec => RefinesLifecycle`

`Discoverable` is not inductive: whether a claimed request is findable after a step
depends on who is about to write what. The inductive invariant `IInv` adds
`Generations` (no owner, thread or worker is ahead of `epoch`) and, for each request,
`WorkTracked`: a thread past its claim, an owner in the record, and a recovery pass
past its takeover each imply the marker or the index entry; a thread about to remove
them (`sweep`) implies the request is finished; nothing exists for a request that was
never admitted. The proof goes action by action; the frame of each is a lemma on how
it may change `rec`, `marker`, `index`, `thr` and `scan` of one request. The
refinement and the action properties follow from `IInv` and the same case split. TLC
checked `IInv` first, with overlap, on a worker request and on a session request. The
assumptions are those of the modules: `EpochAssumption`, `GatewayAssumption`.

`GatewayCustodyProofs` goes on from `IInv`:

- `ServedRequestsHaveAThread`: `Spec => []NoOrphans`
- `CancelSeenIsSettled`: `Spec => []RestartCancelSettled`
- `OldThreadsAreHarmless`: `Spec => OldGenerationHarmless`
- `CheckpointedSentOnce`: `Spec => [](\A r \in Checkpointed : prompt[r].sent <= 1)`, overlap
  or not
- `PromptGivenOnce`: `~Overlap` implies `Spec => []ExecutedAtMostOnce`

That a request has a thread depends on the whole way from the old generation to the new.
The inductive invariant `Custody` says for each request what every record and thread looks
like (`WellFormed`), what the recovery pass has established at each of its stages
(`PassKeeps`: not reached and nobody's of this generation, adopted, left alone, finished), and
that the thread the serving generation has for it will be let through every fence it meets
(`ServingKeeps`).

`CheckpointedSentOnce` rests on `FencedInv`. A thread may still send (`Sender`) when it has
recorded its intent, or is about to and its generation owns the running request. There is at
most one such thread, and nothing was sent before it (`SenderAlone`); what was sent is
committed in the checkpoint (`SentIsCommitted`), which no one clears; a thread that acts on an
unfinished request is never ahead of its owner (`ActsBehindOwner`), so the ownership a
checkpoint write compares cannot come back to an older generation. `PromptGivenOnce` adds
`OnceInv` for what no checkpoint guards: one thread per request is all there is, a worker's
running work is settled and not resumed, and a session turn taken up again is observed. Its
hypothesis is needed: with overlap the property fails for workers (`worker_replay`), and for
sessions without checkpoint.

`ResourceCapacityProofs` proves `CapacitySafety` (`CapInv`: types, counter equals
leases, only the active source resident, no oversubscription; inductive as it stands),
`SwapOnlyWhenDrained` (`DrainBeforeSwap`) and `WaiterStopsActive`
(`StarvationStopsActive`), for any sources, tokens and concurrencies
(`CapacityAssumption`); `CapacityTypes`, `CounterExact`, `OneSourceResident` and
`ConcurrencyKept` state parts of `CapInv` one by one.

`SchedulerProofs` proves, for any finite sets of requests and drains and any sources,
limits and capacities (`SchedAssumption`, `TurnAssumption`):

- `SchedTypeCorrect`, `RotationIsExact`, `ScopesAreRespected`, `LeasesAreAccounted`:
  `SchedSpec => []P` for `SchedTypeOK`, `RotationExact`, `ScopesRespected`, `LeasesAccounted`
- `LanesAreFifo`: `SchedSpec => LaneFifo`
- `SchedulerKeepsProtocol`: `SchedSpec => CapSpec`, every step of the queue manager is, for
  the shared resource, a step of `ResourceCapacity` or none
- `SchedulerKeepsCapacity`: with it the theorems of the resource hold of the composed
  system, `SchedSpec => [](NoOversubscription /\ OnlyActiveResident)`

A drain acts on a snapshot that others overtake, and `SchedInv` says what it may still rely
on (`DrainOK`): a candidate that is still pending is still the head of its lane, because
requests only join a lane behind it, and no candidate of a drain works on a token of that
same drain. The latter is what makes the release after a missed claim harmless. Custody
(`DrainCustody`, `TurnCustody`, `HeldOK`) names for every token the one holder and the
source; `ScopesRespected` counts leases, by the cardinality theorems. That `Candidates`
exists at all, the enumeration of the lane heads in the order they are tried, is
`CandidatesAre`, by a least counterexample.

`SessionOrderProofs` proves, for any requests, sessions, restarts and deferrals
(`OrderAssumption`): `OrderTypeCorrect` (`OrderTypeOK`), `IndexAlwaysMatches`
(`IndexMatchesQueues`) and `TurnsStartInOrder` (`GenerationInOrder`). The order of one
generation survives a restart only because the rebuild keeps it, so `OrderInv` follows it
there: a FIFO keeps the requests of a generation by their ordinals (`FifoInOrder`), which
are distinct (`Ordinals`); of the unfinished ones the running one is the first
(`RunningFirst`); what is still to be scheduled comes after what is registered, the queued
after the running (`RecoveryInOrder`); an unfinished request is registered or still to be
(`Registered`), and a request inside its runner is the head (`Placed`). `KeyNamed` is why
the theorem is about one generation: the name in the key tells its requests from recovered
ones, and they are in different FIFOs (`SessionOvertake.cfg`).

`AdmissionProofs` proves, for any calls, keys and intents and any number of crashes and
faults (`AdmissionAssumption`): `TypeCorrect`, `KeyIsReserved` (`OneRequestPerKey`),
`RepliesAreFaithful` (`ReplayFaithful`), `CreatedStaysDiscoverable`
(`CreatedIsDiscoverable`) and `OrdinalsAlwaysAscend` (`OrdinalsAscend`). `OneRequestPerKey`
is not inductive: it needs `KeyReserved` (a call past the record scan is alone with its
key, by the lock). `CreatedIsDiscoverable` needs `CallInv`, which ties the state, the
queue and the work index to the step a call is at. `OrdinalsAscend` needs `OrdinalInv`:
while the ordinal file is missing every scan made before the lock still bounds every
ordinal on disk, which is the argument of the comment at `_admission.py:292`.

`SessionPurgeProofs` proves, for any sessions, requests, operations, generations and
failures (`PurgeAssumption`): `PurgeTypes` (with: one pump deletes at a time),
`FinishedIsDone` (`FinishedMeansDone`), `DeletionIsKept` (`DeletionNeverAbandoned`),
`AdmittedTurnIsKept` (`AdmittedTurnKeepsSession`) and `SessionRecordGoesLast`
(`SessionGoesLast`). The invariant has a part per variable; `SessionOK` adds that a session
being deleted is claimed, `PumpOK` that a pump past its claim has an operation. The last two
need `Safe`: an admitted turn has its session and is on its record (`TurnSafe`), a session
whose deletion has not begun has all its requests (`SessionSafe`), and what each pump inside
a session still knows of it lasts (`PumpSafe`): a turn accepted since it found the session
eligible is on the record, a claim that saw none will see none, and the ids it deletes
cover every request left. Its proof showed that an
earlier form of `Recheck` and `TimePasses`, which judged the session by its record at the
time of the check, was not what the code does and failed with three generations.

`NodeDispatchProofs` proves, for any requests, gateways, connections and faults
(`NodeAssumption`): `NodeTypes`, `CapacityIsKept` (`CapacityKept`), `NoEffectIsHonest`
(`NoEffectHonest`), `CustodyIsApplied` (`CustodyApplied`) and `DispatchImplementsEffect`
(`ImplementsEffect`, by the mapping `effectOf`). The invariant follows the evidence: a record
is terminal only with a terminal receipt (`RecOK`), which is in the node's log
(`CustodyOK`), whose row is then terminal (`LogOK`), and nothing is in the log, running or
granted on the way that was not authorized in the record (`WorkOK`). The fence is safe
because a grant is only ever on the way on the connection of its command, and a newer
generation means that connection is gone.

The type invariants of `ResourceCapacity`, `Admission`, `SessionPurge` and `NodeDispatch`
are proved for every instance and are not repeated in the runs.

`Custody`, `OnceInv`, `FencedInv`, `Safe`, `OrderInv` and `SchedInv` were checked by TLC, like `IInv`, as
invariants of small instances before they were proved.

Only model-checked: liveness under fairness (`Settles`, `PendingIsServed`, `EveryTurnEnds`,
`EndedLeavesTheOrder`, `ReceiptsDrain`, `RecoveredPublished`, `OperationsFinish`), which,
like everything that needs ENABLED, is outside what the prover handles. Every safety property of a
passing run is proved.

## 6. Not modelled

`PROJECT.json` lists every part with its reason. The larger ones:

- provider adapters (browser automation, command line tools): they drive programs whose
  behaviour is not in the repository; the gateway's contract with them is the runner
  that starts, ends, raises or defers, and the submission checkpoint;
- streaming and provider evidence of sessions, and what a checkpoint holds besides its
  stage: data; a runner that loses sight of a turn may defer or report any outcome;
- archive, reconcile, journal and revoke operations: sequences of idempotent file
  operations under the same store and pump as the purge;
- HTTP, dashboards, projections, configuration, installation, git and planning: input,
  output and documents.

## 7. Further work

In order of importance:

1. Theorems: what holds under overlap of requests without a checkpoint, in place of
   `ExecutedAtMostOnce`; the parts of the liveness properties that are safety, such as the
   enabledness of a pump's or a worker's next step.
2. Several nodes with one queue, and the composition of `NodeDispatch` with `GatewayRecovery`.
3. Provider bindings and leases of sessions, and `foundation`: managed service start and startup lock,
   durable event spool.
