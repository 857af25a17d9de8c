--------------------------- MODULE NodeDispatch ---------------------------
(***************************************************************************)
(* Requests that run on an execution node: the gateway's node runner,      *)
(* receipt custody and recovery (gateway/node/runner.py, receipt_runtime,  *)
(* checkpoints, artifact_reconciliation, transport, queue/queue.py) and    *)
(* the node's recipient, producer, receipt log and receipt sender          *)
(* (recipient_runtime, execution_owner, receipts, receipt_sender, host),   *)
(* joined by a connection that can be lost at any time.                    *)
(*                                                                         *)
(* One node and one project.  A message belongs to the current connection  *)
(* and is lost with it; at most one dispatch message and one receipt       *)
(* message are on the way in each direction, so a set of messages stands   *)
(* for the ordered stream.  Handlers that run under the owner guard and    *)
(* the grant lock are one step each; what they wait for between steps is   *)
(* a step of its own.                                                      *)
(***************************************************************************)
EXTENDS NodeRecord, Sequences, FiniteSets

CONSTANTS
    Requests,
    Cancellable,       \* requests a client may cancel
    Revocable,         \* whether the node's grant may be revoked
    CursorWriteFails,  \* whether the write of the receipt cursor may fail
    ArtifactFaults,    \* whether an artifact may fail to arrive or to be published
    MaxGateways,       \* bound: gateway owner epochs
    MaxConnections,    \* bound: connections in one gateway owner epoch
    MaxFaults          \* bound: lost connections, elapsed deadlines, node restarts

ASSUME NodeAssumption ==
    /\ Cancellable \subseteq Requests
    /\ Revocable \in BOOLEAN /\ CursorWriteFails \in BOOLEAN /\ ArtifactFaults \in BOOLEAN
    /\ MaxGateways \in Nat /\ MaxConnections \in Nat /\ MaxFaults \in Nat

VARIABLES
    \* the gateway's durable state
    rec,        \* request records
    cursor,     \* NodeReceiptCheckpoints: receipts taken into custody
    granted,    \* the node's grant is enabled
    epoch,      \* the live gateway owner epoch
    \* the gateway process
    gens,       \* NodeConnectionOwner._generations
    slot,       \* NodeConnectionOwner._active
    drain,      \* the slot's capability is "drain"
    ready,      \* the slot's ready_revision is current
    job,        \* <<kind, place>> of the request's queue entry or worker thread
    rconn,      \* the connection the fresh runner captured
    fresh,      \* no write to the record since the worker thread read it
    wake,       \* a node notification has not been turned into entries yet
    noted,      \* a notification arrived while the worker thread was active
    inhand,     \* receipts past the channel check: <<connection, sequence>>
    committing, \* the receipt whose record is written and whose cursor is not
    \* messages
    toNode, toGateway,
    \* the node's durable state
    outbox,     \* receipt log: <<request, stage>>
    command,    \* state of the request's row in the commands table
    acked,      \* the node's copy of the cursor
    nodeEpoch,
    \* the node process
    conn,       \* NodeExecutionOwner._control, NodeRecipientRuntime._connection
    bound,      \* NodeExecutionOwner._bound
    nodeDrain,  \* capability of conn as the node knows it
    halted,     \* the host stopped on a failure it may not retry
    work,       \* <<place, request, connection>> of the one retained preparation
    sender,     \* the receipt sender: resume, send, wait
    hinted,     \* receipt-ready was sent in this quiescent cycle
    \* history
    executed,   \* worker calls of the request
    missed,     \* the last observer was turned away by what nothing announces
    faults

durable == <<rec, cursor, granted, epoch>>
link == <<gens, slot, drain, ready>>
queue == <<job, rconn, fresh>>
notices == <<wake, noted>>
custody == <<inhand, committing>>
messages == <<toNode, toGateway>>
nodeLog == <<outbox, command, acked>>
node == <<nodeEpoch, conn, bound, nodeDrain, halted, work, sender, hinted>>
history == <<executed, missed, faults>>
gateway == <<gens, slot, drain, ready, job, rconn, fresh, wake, noted, inhand, committing>>
dispatchVars == <<rec, cursor, granted, epoch, gens, slot, drain, ready, job, rconn, fresh,
                  wake, noted, inhand, committing, toNode, toGateway, outbox, command, acked,
                  nodeEpoch, conn, bound, nodeDrain, halted, work, sender, hinted,
                  executed, missed, faults>>

NoRequest == "no request"
Idle == <<"none", "idle">>
NoWork == <<"idle", NoRequest, NoConn>>
NoReceipt == <<NoConn, 0>>

Kinds == {"none", "fresh", "observer"}
JobPlaces == {"idle", "pending", "start", "prepare", "bound", "observe", "publishing",
              "defer", "deferring"}
WorkPlaces == {"idle", "accepted", "authorizing", "start", "intent", "run", "execute"}
Kind(r) == job[r][1]
Place(r) == job[r][2]
WorkPlace == work[1]
WorkRequest == work[2]
Producing == WorkPlace \in {"start", "intent", "run", "execute"}

Init ==
    /\ rec = [r \in Requests |-> AbsentRecord]
    /\ cursor = 0 /\ granted = TRUE /\ epoch = 1
    /\ gens = 0 /\ slot = NoConn /\ drain = FALSE /\ ready = FALSE
    /\ job = [r \in Requests |-> Idle] /\ rconn = NoConn
    /\ fresh = [r \in Requests |-> FALSE]
    /\ wake = FALSE /\ noted = [r \in Requests |-> FALSE]
    /\ inhand = {} /\ committing = NoReceipt
    /\ toNode = {} /\ toGateway = {}
    /\ outbox = <<>> /\ command = [r \in Requests |-> "none"] /\ acked = 0
    /\ nodeEpoch = 1 /\ conn = NoConn /\ bound = NoConn /\ nodeDrain = FALSE /\ halted = FALSE
    /\ work = NoWork /\ sender = "resume" /\ hinted = FALSE
    /\ executed = [r \in Requests |-> 0] /\ missed = [r \in Requests |-> FALSE] /\ faults = 0

-----------------------------------------------------------------------------
(* Helpers of the gateway's steps.                                         *)

(* Active: a worker thread runs for the request (pq.running).              *)
Active(r) == Place(r) \notin {"idle", "pending"}

GuardFree == committing = NoReceipt     \* nobody holds service_store.owner_guard

Occupied(r) == \E s \in Requests \ {r} : RecordHoldsNode(rec[s])

(* NodeRunner._slot and the checks of authorize_effect on connection c.    *)
LiveSlot(c) == slot = c /\ slot # NoConn /\ ~ drain /\ granted

DrainEligible == \E r \in Requests : HasAuthorizationId(rec[r])

Write(r, new) == rec' = [rec EXCEPT ![r] = new]
Touched(r) == fresh' = [fresh EXCEPT ![r] = FALSE]
Goto(r, place) == job' = [job EXCEPT ![r][2] = place]

(* A message is sent on the connection that both sides have.               *)
ToNode(m) == toNode' = IF slot = conn THEN toNode \cup {m} ELSE toNode
ToGateway(m) == toGateway' = IF slot = conn THEN toGateway \cup {m} ELSE toGateway

(* notify_node_changed: a thread that is still active repeats the wake-up  *)
(* when it retires.                                                        *)
Notify ==
    /\ wake' = TRUE
    /\ noted' = [r \in Requests |-> noted[r] \/ Active(r)]

(* The gateway's side of the connection is gone; its on_close notifies.    *)
CloseSlot ==
    /\ slot' = NoConn /\ ready' = FALSE /\ drain' = FALSE
    /\ toGateway' = {}
    /\ Notify

-----------------------------------------------------------------------------
(* Requests and the queue.                                                 *)

(* NodeAdmissionOwner.submit and enqueue_node.                             *)
Submit(r) ==
    /\ rec[r].state = "absent" /\ granted
    /\ Write(r, [AbsentRecord EXCEPT !.state = "queued", !.owner = epoch])
    /\ job' = [job EXCEPT ![r] = <<"fresh", "pending">>]
    /\ UNCHANGED <<cursor, granted, epoch, link, rconn, fresh, notices, custody, messages,
                   nodeLog, node, history>>

(* An observer gave the request up although its receipt is here and the    *)
(* node connected: no notification is due that would start another.        *)
Misses(r) == missed' = [missed EXCEPT ![r] = TRUE]

(* The queue's cancel takes a pending entry out, of recovery too, and      *)
(* cancel_queued_or_mark_requested only marks a running request.           *)
Cancel(r) ==
    /\ r \in Cancellable /\ Unfinished(rec[r]) /\ ~ rec[r].cancel
    /\ Write(r, IF rec[r].state = "queued" THEN [rec[r] EXCEPT !.state = "cancelled"]
                                           ELSE [rec[r] EXCEPT !.cancel = TRUE])
    /\ job' = [job EXCEPT ![r] = IF Active(r) THEN @ ELSE Idle]
    /\ IF job[r] = <<"observer", "pending">> THEN Misses(r) ELSE UNCHANGED missed
    /\ Touched(r)
    /\ UNCHANGED <<cursor, granted, epoch, link, rconn, notices, custody, messages,
                   nodeLog, node, executed, faults>>

(* The drain loop with _try_reserve_node, then claim_dispatch and          *)
(* start_owned_attempt; a recovered unbound attempt keeps its attempt.     *)
StartFresh(r) ==
    /\ job[r] = <<"fresh", "pending">> /\ Unfinished(rec[r]) /\ rec[r].owner = epoch
    /\ slot # NoConn /\ ready /\ ~ drain
    /\ ~ \E s \in Requests : Kind(s) = "fresh" /\ Active(s)
    /\ ~ \E s \in Requests : RecordHoldsNode(rec[s])
    /\ Write(r, [rec[r] EXCEPT !.state = "running", !.recovery = @ /\ rec[r].state = "running"])
    /\ job' = [job EXCEPT ![r][2] = "start"]
    /\ fresh' = [fresh EXCEPT ![r] = TRUE]
    /\ noted' = [noted EXCEPT ![r] = FALSE]
    /\ rconn' = NoConn
    /\ UNCHANGED <<cursor, granted, epoch, link, wake, custody, messages, nodeLog, node, history>>

(* An observer of a bound command; it needs no readiness and no capacity.  *)
StartObserver(r) ==
    /\ job[r] = <<"observer", "pending">>
    /\ rec[r].state = "running" /\ rec[r].recovery /\ rec[r].owner = epoch
    /\ ~ \E s \in Requests : Kind(s) = "observer" /\ Active(s)
    /\ job' = [job EXCEPT ![r][2] = "observe"]
    /\ fresh' = [fresh EXCEPT ![r] = TRUE]
    /\ noted' = [noted EXCEPT ![r] = FALSE]
    /\ missed' = [missed EXCEPT ![r] = FALSE]
    /\ UNCHANGED <<durable, link, rconn, wake, custody, messages, nodeLog, node, executed,
                   faults>>

(* _wake_node, NodeServerRuntime.wake and enqueue_recovered_node.          *)
WakeEntry(r) ==
    IF /\ rec[r].owner = epoch /\ Unfinished(rec[r]) /\ rec[r].recovery
       /\ job[r] = Idle
      THEN IF Bound(rec[r]) THEN <<"observer", "pending">> ELSE <<"fresh", "pending">>
      ELSE job[r]

WakeNode ==
    /\ wake
    /\ wake' = FALSE
    /\ job' = [r \in Requests |-> WakeEntry(r)]
    /\ UNCHANGED <<durable, link, rconn, fresh, noted, custody, messages, nodeLog, node, history>>

(* Mutant: a change of the node while the thread ran is forgotten.         *)
RetireQuietly(r) ==
    /\ job' = [job EXCEPT ![r] = Idle]
    /\ noted' = [noted EXCEPT ![r] = FALSE]
    /\ UNCHANGED wake

(* The finally clause of _run_one: the wake-up is repeated when the node   *)
(* changed while the thread ran.                                           *)
Retire(r) ==
    /\ job' = [job EXCEPT ![r] = Idle]
    /\ wake' = (wake \/ noted[r])
    /\ noted' = [noted EXCEPT ![r] = FALSE]

(* _defer_node: the record is read, and deferred under the revision that   *)
(* was read.  A record written in between makes the deferral raise out of  *)
(* the worker thread.                                                      *)
DeferRead(r) ==
    /\ Place(r) = "defer"
    /\ IF Unfinished(rec[r]) /\ rec[r].owner = epoch
         THEN /\ Goto(r, "deferring")
              /\ fresh' = [fresh EXCEPT ![r] = TRUE]
              /\ UNCHANGED notices
         ELSE Retire(r) /\ UNCHANGED fresh
    /\ UNCHANGED <<durable, link, rconn, custody, messages, nodeLog, node, history>>

DeferWrite(r) ==
    /\ Place(r) = "deferring"
    /\ Write(r, IF fresh[r] THEN Defer(rec[r]) ELSE rec[r])
    /\ Touched(r)
    /\ Retire(r)
    /\ UNCHANGED <<cursor, granted, epoch, link, rconn, custody, messages, nodeLog, node, history>>

-----------------------------------------------------------------------------
(* NodeRunner: a fresh attempt.  Everything that goes wrong before the     *)
(* command is bound defers the attempt.                                    *)

(* __call__ up to _prepare, with _admit_prepare, which consumes the node's *)
(* readiness.                                                              *)
SendPrepare(r) ==
    /\ job[r] = <<"fresh", "start">> /\ GuardFree
    /\ rec[r].state = "running" /\ ~ rec[r].cancel /\ ~ Bound(rec[r]) /\ fresh[r]
    /\ LiveSlot(slot) /\ ready /\ ~ Occupied(r)
    /\ ready' = FALSE /\ rconn' = slot
    /\ ToNode(<<"prepare", r>>)
    /\ Goto(r, "prepare")
    /\ UNCHANGED <<durable, gens, slot, drain, fresh, notices, custody, toGateway,
                   nodeLog, node, history>>

(* A check of SendPrepare failed, the admission snapshot could not be      *)
(* read, or the connection was replaced between the two checks.            *)
PrepareNotSent(r) ==
    /\ job[r] = <<"fresh", "start">>
    /\ Goto(r, "defer")
    /\ UNCHANGED <<durable, link, rconn, fresh, notices, custody, messages, nodeLog, node, history>>

(* The prepared reply, persist_prepared_once and the bind under the owner  *)
(* guard, the grant and the connection of the preparation.                 *)
BindPrepared(r) ==
    /\ Place(r) = "prepare" /\ <<"prepared", r>> \in toGateway /\ slot = rconn /\ GuardFree
    /\ toGateway' = toGateway \ {<<"prepared", r>>}
    /\ IF /\ fresh[r] /\ MayBind(rec[r], epoch) /\ LiveSlot(rconn) /\ ~ Occupied(r)
         THEN Write(r, BindDispatch(rec[r], rconn)) /\ Goto(r, "bound")
         ELSE Goto(r, "defer") /\ UNCHANGED rec
    /\ UNCHANGED <<cursor, granted, epoch, link, rconn, fresh, notices, custody, toNode,
                   nodeLog, node, history>>

PrepareRejected(r) ==
    /\ Place(r) = "prepare" /\ <<"rejected", r>> \in toGateway /\ slot = rconn
    /\ toGateway' = toGateway \ {<<"rejected", r>>}
    /\ Goto(r, "defer")
    /\ UNCHANGED <<durable, link, rconn, fresh, notices, custody, toNode, nodeLog, node, history>>

(* The connection the reply was due on is gone.                            *)
PrepareLost(r) ==
    /\ Place(r) = "prepare" /\ slot # rconn
    /\ Goto(r, "defer")
    /\ UNCHANGED <<durable, link, rconn, fresh, notices, custody, messages, nodeLog, node, history>>

(* _send_command.                                                          *)
SendCommand(r) ==
    /\ Place(r) = "bound"
    /\ IF slot = rconn /\ ~ drain
         THEN ToNode(<<"command", r>>) /\ Goto(r, "observe")
         ELSE Goto(r, "defer") /\ UNCHANGED toNode
    /\ UNCHANGED <<durable, link, rconn, fresh, notices, custody, toGateway, nodeLog, node, history>>

(* NodeRunner._observe.  _fence_unauthorized_dispatch: a later connection  *)
(* of the same gateway proves that the command can no longer be            *)
(* authorized; the record must be the one the runner read.                 *)
MayFenceNow(r) == fresh[r] /\ MayFence(rec[r], epoch, gens)

ObserveFence(r) ==
    /\ Place(r) = "observe" /\ GuardFree
    /\ MayFenceNow(r)
    /\ Write(r, FenceDispatch(rec[r])) /\ Touched(r)
    /\ Goto(r, "defer")
    /\ UNCHANGED <<cursor, granted, epoch, link, rconn, notices, custody, messages,
                   nodeLog, node, history>>

(* NodeTerminalReconciler: the artifact is fetched over the live           *)
(* connection, then the record is read again.                              *)
MayPublishNow(r) == MayPublish(rec[r], epoch) /\ slot # NoConn /\ slot = conn

ObserveFetch(r) ==
    /\ Place(r) = "observe" /\ GuardFree
    /\ ~ MayFenceNow(r) /\ MayPublishNow(r)
    /\ Goto(r, "publishing")
    /\ fresh' = [fresh EXCEPT ![r] = TRUE]
    /\ UNCHANGED <<durable, link, rconn, notices, custody, messages, nodeLog, node, history>>

(* publish_owned_node_terminal, under the revision that was read: the      *)
(* owner guard was released in between, and a record written since then    *)
(* (a cancel) is left to the deferral.                                     *)
ObservePublish(r) ==
    /\ Place(r) = "publishing" /\ GuardFree
    /\ IF fresh[r] /\ MayPublish(rec[r], epoch)
         THEN /\ Write(r, [rec[r] EXCEPT !.state = "completed"]) /\ Touched(r)
              /\ Retire(r)
              /\ UNCHANGED missed
         ELSE Goto(r, "defer") /\ Misses(r) /\ UNCHANGED <<rec, fresh, notices>>
    /\ UNCHANGED <<cursor, granted, epoch, link, rconn, custody, messages, nodeLog, node,
                   executed, faults>>

(* The read budget, a changed artifact or a failing write: the connection  *)
(* stays up and the request is deferred.                                   *)
ObserveFails(r) ==
    /\ ArtifactFaults /\ GuardFree
    /\ \/ Place(r) = "observe" /\ ~ MayFenceNow(r) /\ MayPublishNow(r)
       \/ Place(r) = "publishing"
    /\ Goto(r, "defer") /\ Misses(r)
    /\ UNCHANGED <<durable, link, rconn, fresh, notices, custody, messages, nodeLog, node,
                   executed, faults>>

(* No terminal receipt or no connection: artifact-receipt-pending at once. *)
ObserveDefer(r) ==
    /\ Place(r) = "observe" /\ GuardFree
    /\ ~ MayFenceNow(r) /\ ~ MayPublishNow(r)
    /\ Goto(r, "defer")
    /\ UNCHANGED <<durable, link, rconn, fresh, notices, custody, messages, nodeLog, node, history>>

(* _effect_reply, on the dispatcher of the live connection.                *)
AuthorizeEffect(r) ==
    /\ <<"authorize", r>> \in toGateway /\ slot # NoConn /\ GuardFree
    /\ toGateway' = toGateway \ {<<"authorize", r>>}
    /\ IF MayAuthorize(rec[r], epoch, slot) /\ LiveSlot(slot) /\ ~ Occupied(r)
         THEN /\ Write(r, AuthorizeDispatch(rec[r])) /\ Touched(r)
              /\ ToNode(<<"granted", r>>)
         ELSE ToNode(<<"denied", r>>) /\ UNCHANGED <<rec, fresh>>
    /\ UNCHANGED <<cursor, granted, epoch, link, job, rconn, notices, custody, nodeLog,
                   node, history>>

-----------------------------------------------------------------------------
(* Receipt custody: NodeReceiptRuntime and NodeReceiptCheckpoints.         *)

(* _accept up to the channel check; the thread goes on if the connection   *)
(* is lost afterwards.                                                     *)
TakeReceipt(n) ==
    /\ <<"receipt", n>> \in toGateway /\ slot # NoConn
    /\ toGateway' = toGateway \ {<<"receipt", n>>}
    /\ inhand' = inhand \cup {<<slot, n>>}
    /\ UNCHANGED <<durable, link, queue, notices, committing, toNode, nodeLog, node, history>>

(* A positive reply goes out on the connection that is still current.      *)
Acknowledge(c, n) ==
    IF c = slot THEN ToNode(<<"ack", n>>) ELSE UNCHANGED toNode

(* Mutant: a receipt that is already in custody is not acknowledged again. *)
AcceptDuplicateSilently(c, n) ==
    /\ <<c, n>> \in inhand /\ n <= cursor /\ GuardFree
    /\ inhand' = inhand \ {<<c, n>>}
    /\ UNCHANGED <<durable, link, queue, notices, committing, messages, nodeLog, node, history>>

(* At or below the cursor: the cumulative acknowledgement and nothing else. *)
AcceptDuplicate(c, n) ==
    /\ <<c, n>> \in inhand /\ n <= cursor /\ GuardFree
    /\ inhand' = inhand \ {<<c, n>>}
    /\ Acknowledge(c, cursor)
    /\ UNCHANGED <<durable, link, queue, notices, committing, toGateway, nodeLog, node, history>>

(* _target and apply_owned_node_receipt for the next receipt: a record of  *)
(* another owner epoch is refused.                                         *)
Acceptable(n) ==
    /\ n = cursor + 1
    /\ LET r == outbox[n][1] IN
         /\ rec[r].owner = epoch
         /\ MayApply(rec[r], rec[r].conn, outbox[n][2], n) /\ Bound(rec[r])

(* The canonical write of accept, under the owner guard until the cursor   *)
(* is written.                                                             *)
ApplyCanonical(c, n) ==
    /\ <<c, n>> \in inhand /\ n > cursor /\ GuardFree /\ Acceptable(n)
    /\ LET r == outbox[n][1] IN
         /\ Write(r, ApplyReceipt(rec[r], outbox[n][2], n))
         /\ fresh' = [fresh EXCEPT ![r] = @ /\ n = rec[r].seq]
    /\ inhand' = inhand \ {<<c, n>>}
    /\ committing' = <<c, n>>
    /\ UNCHANGED <<cursor, granted, epoch, link, job, rconn, notices, messages, nodeLog,
                   node, history>>

CommitCursor ==
    /\ committing # NoReceipt
    /\ cursor' = committing[2] /\ committing' = NoReceipt
    /\ Acknowledge(committing[1], committing[2])
    /\ Notify
    /\ UNCHANGED <<rec, granted, epoch, link, queue, inhand, toGateway, nodeLog, node, history>>

(* A handler that raises closes its connection; a closed one is left alone. *)
Reject(c) ==
    IF c = slot
      THEN CloseSlot
      ELSE UNCHANGED <<slot, ready, drain, toGateway, notices>>

RefuseReceipt(c, n) ==
    /\ <<c, n>> \in inhand /\ n > cursor /\ GuardFree /\ ~ Acceptable(n)
    /\ inhand' = inhand \ {<<c, n>>}
    /\ Reject(c)
    /\ UNCHANGED <<durable, gens, queue, committing, toNode, nodeLog, node, history>>

(* The cursor is not written: the stream is poisoned, and a new connection *)
(* starts a new stream.                                                    *)
CursorFails ==
    /\ CursorWriteFails /\ committing # NoReceipt
    /\ committing' = NoReceipt
    /\ Reject(committing[1])
    /\ UNCHANGED <<durable, gens, queue, inhand, toNode, nodeLog, node, history>>

(* _ready and mark_ready; a revoked grant found here closes the connection. *)
GatewayReady ==
    /\ <<"ready", acked>> \in toGateway /\ slot # NoConn /\ GuardFree
    /\ IF LiveSlot(slot) /\ acked = cursor
         THEN /\ ready' = TRUE
              /\ toGateway' = toGateway \ {<<"ready", acked>>}
              /\ IF ready THEN UNCHANGED notices ELSE Notify
              /\ UNCHANGED <<slot, drain>>
         ELSE CloseSlot
    /\ UNCHANGED <<durable, gens, queue, custody, toNode, nodeLog, node, history>>

-----------------------------------------------------------------------------
(* The grant and the connection.                                           *)

(* authority.revoke, and the refresh that follows it or that any other     *)
(* step under the grant lock makes.                                        *)
Revoke ==
    /\ Revocable /\ granted /\ granted' = FALSE
    /\ UNCHANGED <<rec, cursor, epoch, link, queue, notices, custody, messages, nodeLog,
                   node, history>>

RefreshCapability ==
    /\ slot # NoConn /\ ~ drain /\ ~ granted
    /\ IF DrainEligible
         THEN /\ drain' = TRUE /\ ready' = FALSE
              /\ ToNode(<<"drain", 0>>)
              /\ Notify
              /\ UNCHANGED <<slot, toGateway>>
         ELSE CloseSlot /\ UNCHANGED toNode
    /\ UNCHANGED <<durable, gens, queue, custody, nodeLog, node, history>>

(* NodeConnectionOwner.replace and NodeRecipientRuntime.configure_work,    *)
(* which also hands the receipt log over unless a producer runs.           *)
Connect ==
    /\ conn = NoConn /\ ~ halted /\ (granted \/ DrainEligible) /\ gens < MaxConnections
    /\ gens' = gens + 1
    /\ slot' = <<epoch, nodeEpoch, gens + 1>> /\ conn' = <<epoch, nodeEpoch, gens + 1>>
    /\ drain' = ~ granted /\ nodeDrain' = ~ granted /\ ready' = FALSE
    /\ toNode' = {} /\ toGateway' = {}
    /\ bound' = IF WorkPlace \in {"intent", "run", "execute"} THEN bound ELSE conn'
    /\ sender' = "resume" /\ hinted' = FALSE
    /\ IF slot = NoConn THEN UNCHANGED notices ELSE Notify
    /\ UNCHANGED <<durable, queue, custody, nodeLog, nodeEpoch, halted, work, history>>

(* The node's side is closed: a preparation that has not become a producer *)
(* is forgotten, a producer goes on.                                       *)
NodeCloses ==
    /\ conn' = NoConn /\ nodeDrain' = FALSE /\ toNode' = {}
    /\ work' = IF Producing THEN work ELSE NoWork
    /\ sender' = "resume" /\ hinted' = FALSE

(* The connection is lost, or a deadline of a request on it has elapsed.   *)
GatewayDrops ==
    /\ slot # NoConn /\ faults < MaxFaults
    /\ faults' = faults + 1
    /\ CloseSlot
    /\ UNCHANGED <<durable, gens, queue, custody, toNode, nodeLog, node, executed, missed>>

NodeDrops ==
    /\ conn # NoConn /\ faults < MaxFaults
    /\ faults' = faults + 1
    /\ NodeCloses
    /\ UNCHANGED <<durable, link, queue, notices, custody, toGateway, nodeLog, nodeEpoch, bound,
                   halted, executed, missed>>

(* Each side finds the other side gone.                                    *)
GatewayNotices ==
    /\ slot # NoConn /\ slot # conn
    /\ CloseSlot
    /\ UNCHANGED <<durable, gens, queue, custody, toNode, nodeLog, node, history>>

NodeNotices ==
    /\ conn # NoConn /\ slot # conn
    /\ NodeCloses
    /\ UNCHANGED <<durable, link, queue, notices, custody, toGateway, nodeLog, nodeEpoch, bound,
                   halted, history>>

(* A new gateway process: recovery takes over every record that is not     *)
(* terminal and enqueues it, a bound one to be observed.                   *)
RecoveredEntry(r) ==
    IF ~ Unfinished(rec[r]) THEN Idle
    ELSE IF Bound(rec[r]) THEN <<"observer", "pending">>
    ELSE <<"fresh", "pending">>

GatewayRestart ==
    /\ epoch < MaxGateways
    /\ epoch' = epoch + 1
    /\ rec' = [r \in Requests |-> Takeover(rec[r], epoch + 1)]
    /\ gens' = 0 /\ slot' = NoConn /\ drain' = FALSE /\ ready' = FALSE
    /\ job' = [r \in Requests |-> RecoveredEntry(r)] /\ rconn' = NoConn
    /\ fresh' = [r \in Requests |-> FALSE]
    /\ wake' = TRUE /\ noted' = [r \in Requests |-> FALSE]
    /\ inhand' = {} /\ committing' = NoReceipt /\ toGateway' = {}
    /\ UNCHANGED <<cursor, granted, toNode, nodeLog, node, history>>

-----------------------------------------------------------------------------
(* The node: NodeRecipientRuntime, NodeExecutionOwner, NodeReceiptStore.   *)

(* _pending: commands begun and not terminal, rebuilt from the log.        *)
PendingCommands == {r \in Requests : command[r] \in {"prepared", "effect-intent"}}

(* run_one holds the owner's guard from the first receipt to the second.   *)
NodeGuardFree == WorkPlace # "intent"

LocallyQuiescent == work = NoWork /\ ~ nodeDrain

(* _prepare; a preparation may also be refused for reasons of its own.     *)
NodePrepare(r) ==
    /\ <<"prepare", r>> \in toNode
    /\ LocallyQuiescent /\ PendingCommands = {} /\ conn = bound
    /\ toNode' = toNode \ {<<"prepare", r>>}
    /\ work' = <<"accepted", r, conn>>
    /\ ToGateway(<<"prepared", r>>)
    /\ hinted' = FALSE
    /\ UNCHANGED <<durable, link, queue, notices, custody, nodeLog, nodeEpoch, conn, bound,
                   nodeDrain, halted, sender, history>>

NodeRejects(r) ==
    /\ <<"prepare", r>> \in toNode
    /\ toNode' = toNode \ {<<"prepare", r>>}
    /\ ToGateway(<<"rejected", r>>)
    /\ hinted' = (hinted /\ ~ LocallyQuiescent)
    /\ UNCHANGED <<durable, link, queue, notices, custody, nodeLog, nodeEpoch, conn, bound,
                   nodeDrain, halted, work, sender, history>>

(* A handler that raises closes the connection and ends the host.          *)
Halt == NodeCloses /\ halted' = TRUE

(* _command: a retained preparation asks for the effect.                   *)
NodeCommand(r) ==
    /\ <<"command", r>> \in toNode
    /\ IF work = <<"accepted", r, conn>> /\ ~ nodeDrain
         THEN /\ toNode' = toNode \ {<<"command", r>>}
              /\ work' = <<"authorizing", r, conn>>
              /\ ToGateway(<<"authorize", r>>)
              /\ hinted' = FALSE
              /\ UNCHANGED <<conn, nodeDrain, halted, sender>>
         ELSE Halt /\ UNCHANGED toGateway
    /\ UNCHANGED <<durable, link, queue, notices, custody, nodeLog, nodeEpoch, bound, history>>

NodeGranted(r) ==
    /\ <<"granted", r>> \in toNode
    /\ IF work = <<"authorizing", r, conn>> /\ ~ nodeDrain
         THEN /\ toNode' = toNode \ {<<"granted", r>>}
              /\ work' = <<"start", r, conn>>
              /\ hinted' = FALSE
              /\ UNCHANGED <<conn, nodeDrain, halted, sender>>
         ELSE Halt
    /\ UNCHANGED <<durable, link, queue, notices, custody, toGateway, nodeLog, nodeEpoch, bound,
                   history>>

NodeDenied(r) ==
    /\ <<"denied", r>> \in toNode
    /\ Halt
    /\ UNCHANGED <<durable, link, queue, notices, custody, toGateway, nodeLog, nodeEpoch, bound,
                   history>>

(* The end of _produce: the retained preparation is released and the log   *)
(* handed over to the connection of now.                                   *)
ProducerEnds ==
    /\ work' = NoWork /\ hinted' = FALSE
    /\ bound' = IF conn = NoConn THEN bound ELSE conn

LogReceipt(r, stage) ==
    /\ outbox' = Append(outbox, <<r, stage>>)
    /\ command' = [command EXCEPT ![r] = stage]

(* run_one up to the first receipt.                                        *)
MayRun(r) ==
    /\ conn = work[3] /\ conn = bound /\ ~ nodeDrain
    /\ PendingCommands \subseteq {r} /\ command[r] \in {"none", "prepared"}

ProducerPrepare(r) ==
    /\ WorkPlace = "start" /\ WorkRequest = r
    /\ IF MayRun(r)
         THEN /\ IF command[r] = "none" THEN LogReceipt(r, "prepared")
                                        ELSE UNCHANGED <<outbox, command>>
              /\ work' = [work EXCEPT ![1] = "intent"]
              /\ UNCHANGED <<bound, hinted>>
         ELSE ProducerEnds /\ UNCHANGED <<outbox, command>>
    /\ UNCHANGED <<durable, gateway, messages, acked, nodeEpoch, conn, nodeDrain, halted, sender,
                   history>>

(* effect_intent.                                                          *)
ProducerIntent(r) ==
    /\ WorkPlace = "intent" /\ WorkRequest = r
    /\ LogReceipt(r, "effect-intent")
    /\ work' = [work EXCEPT ![1] = "run"]
    /\ UNCHANGED <<durable, gateway, messages, acked, nodeEpoch, conn, bound, nodeDrain, halted,
                   sender, hinted, history>>

(* worker.execute_verified_isolated_provider_turn.                         *)
Execute(r) ==
    /\ WorkPlace = "run" /\ WorkRequest = r
    /\ executed' = [executed EXCEPT ![r] = @ + 1]
    /\ work' = [work EXCEPT ![1] = "execute"]
    /\ UNCHANGED <<durable, gateway, messages, nodeLog, nodeEpoch, conn, bound, nodeDrain, halted,
                   sender, hinted, missed, faults>>

(* terminal_from_worker_result, or a failure that leaves the intent.       *)
WorkerFinish(r) ==
    /\ WorkPlace = "execute" /\ WorkRequest = r
    /\ LogReceipt(r, "terminal")
    /\ ProducerEnds
    /\ UNCHANGED <<durable, gateway, messages, acked, nodeEpoch, conn, nodeDrain, halted, sender,
                   history>>

WorkerFails(r) ==
    /\ WorkPlace = "execute" /\ WorkRequest = r
    /\ ProducerEnds
    /\ UNCHANGED <<durable, gateway, messages, nodeLog, nodeEpoch, conn, nodeDrain, halted, sender,
                   history>>

(* A revoke frame: only evidence of old work goes on.                      *)
LearnDrain ==
    /\ <<"drain", 0>> \in toNode
    /\ toNode' = toNode \ {<<"drain", 0>>}
    /\ nodeDrain' = TRUE
    /\ UNCHANGED <<durable, link, queue, notices, custody, toGateway, nodeLog, nodeEpoch, conn,
                   bound, halted, work, sender, hinted, history>>

-----------------------------------------------------------------------------
(* NodeReceiptSender.                                                      *)

(* The cursor of the gateway is compared with the node's own, and never    *)
(* replaces it; the exchange is one step.                                  *)
Resume ==
    /\ sender = "resume" /\ conn # NoConn /\ conn = slot /\ NodeGuardFree /\ GuardFree
    /\ IF cursor >= acked
         THEN sender' = "send" /\ UNCHANGED <<conn, nodeDrain, toNode, work, hinted, halted>>
         ELSE Halt
    /\ UNCHANGED <<durable, link, queue, notices, custody, toGateway, nodeLog, nodeEpoch, bound,
                   history>>

SendReceipt ==
    /\ sender = "send" /\ conn # NoConn /\ NodeGuardFree
    /\ acked < Len(outbox)
    /\ ToGateway(<<"receipt", acked + 1>>)
    /\ sender' = "wait"
    /\ UNCHANGED <<durable, link, queue, notices, custody, toNode, nodeLog, nodeEpoch, conn, bound,
                   nodeDrain, halted, work, hinted, history>>

(* acknowledge: before the log is handed over an acknowledgement is        *)
(* ignored, and the sender resumes after the handoff.                      *)
NodeAck(n) ==
    /\ <<"ack", n>> \in toNode /\ NodeGuardFree
    /\ toNode' = toNode \ {<<"ack", n>>}
    /\ IF conn = bound
         THEN acked' = n /\ sender' = "send"
         ELSE sender' = "handoff" /\ UNCHANGED acked
    /\ UNCHANGED <<durable, link, queue, notices, custody, toGateway, outbox, command, nodeEpoch,
                   conn, bound, nodeDrain, halted, work, hinted, history>>

SenderHandoff ==
    /\ sender = "handoff" /\ conn = bound
    /\ sender' = "resume"
    /\ UNCHANGED <<durable, link, queue, notices, custody, messages, nodeLog, nodeEpoch, conn,
                   bound, nodeDrain, halted, work, hinted, history>>

(* emit_receipt_ready: once in each quiescent cycle, with nothing left to  *)
(* acknowledge.                                                            *)
SendReady ==
    /\ sender = "send" /\ conn # NoConn /\ acked = Len(outbox)
    /\ LocallyQuiescent /\ PendingCommands = {} /\ conn = bound /\ ~ hinted
    /\ hinted' = TRUE
    /\ ToGateway(<<"ready", acked>>)
    /\ UNCHANGED <<durable, link, queue, notices, custody, toNode, nodeLog, nodeEpoch, conn,
                   bound, nodeDrain, halted, work, sender, history>>

(* A new node process; the log and the acknowledged cursor survive.        *)
NodeRestart ==
    /\ faults < MaxFaults
    /\ faults' = faults + 1 /\ nodeEpoch' = nodeEpoch + 1
    /\ conn' = NoConn /\ bound' = NoConn /\ nodeDrain' = FALSE /\ halted' = FALSE
    /\ work' = NoWork /\ sender' = "resume" /\ hinted' = FALSE /\ toNode' = {}
    /\ UNCHANGED <<durable, link, queue, notices, custody, toGateway, nodeLog, executed, missed>>

-----------------------------------------------------------------------------
QueueStep ==
    \E r \in Requests : StartFresh(r) \/ StartObserver(r) \/ DeferRead(r) \/ DeferWrite(r)

RunnerStep ==
    \E r \in Requests :
        \/ SendPrepare(r) \/ PrepareNotSent(r) \/ BindPrepared(r) \/ PrepareRejected(r)
        \/ PrepareLost(r) \/ SendCommand(r)
        \/ ObserveFence(r) \/ ObserveFetch(r) \/ ObservePublish(r) \/ ObserveFails(r)
        \/ ObserveDefer(r)
        \/ AuthorizeEffect(r)

CustodyStep ==
    \/ \E n \in 1 .. Len(outbox) : TakeReceipt(n)
    \/ \E i \in inhand : AcceptDuplicate(i[1], i[2]) \/ ApplyCanonical(i[1], i[2])
                           \/ RefuseReceipt(i[1], i[2])
    \/ CommitCursor \/ CursorFails \/ GatewayReady

LinkStep ==
    \/ Revoke \/ RefreshCapability \/ Connect
    \/ GatewayDrops \/ NodeDrops \/ GatewayNotices \/ NodeNotices
    \/ GatewayRestart \/ NodeRestart

NodeStep ==
    \/ \E r \in Requests :
           \/ NodePrepare(r) \/ NodeRejects(r) \/ NodeCommand(r) \/ NodeGranted(r) \/ NodeDenied(r)
           \/ ProducerPrepare(r) \/ ProducerIntent(r) \/ Execute(r)
           \/ WorkerFinish(r) \/ WorkerFails(r)
    \/ LearnDrain \/ Resume \/ SendReceipt \/ SenderHandoff \/ SendReady
    \/ \E n \in 1 .. Len(outbox) : NodeAck(n)

Next ==
    \/ \E r \in Requests : Submit(r) \/ Cancel(r)
    \/ WakeNode \/ QueueStep \/ RunnerStep \/ CustodyStep \/ LinkStep \/ NodeStep

Spec == Init /\ [][Next]_dispatchVars

(* The processes of the gateway and of the node keep running, a lost       *)
(* connection is noticed and made again, and the worker's call returns;    *)
(* nobody has to submit, cancel, revoke or restart anything.               *)
Fairness ==
    /\ WF_dispatchVars(WakeNode) /\ WF_dispatchVars(CommitCursor) /\ WF_dispatchVars(GatewayReady)
    /\ WF_dispatchVars(RefreshCapability) /\ WF_dispatchVars(Connect)
    /\ WF_dispatchVars(GatewayNotices) /\ WF_dispatchVars(NodeNotices)
    /\ WF_dispatchVars(LearnDrain) /\ WF_dispatchVars(Resume) /\ WF_dispatchVars(SendReceipt)
    /\ WF_dispatchVars(SenderHandoff) /\ WF_dispatchVars(SendReady)
    /\ \A r \in Requests :
         /\ WF_dispatchVars(StartFresh(r)) /\ WF_dispatchVars(StartObserver(r))
         /\ WF_dispatchVars(DeferRead(r)) /\ WF_dispatchVars(DeferWrite(r))
         /\ WF_dispatchVars(SendPrepare(r) \/ PrepareNotSent(r))
         /\ WF_dispatchVars(BindPrepared(r)) /\ WF_dispatchVars(PrepareRejected(r))
         /\ WF_dispatchVars(PrepareLost(r)) /\ WF_dispatchVars(SendCommand(r))
         /\ WF_dispatchVars(\/ ObserveFence(r) \/ ObserveFetch(r) \/ ObservePublish(r)
                            \/ ObserveFails(r) \/ ObserveDefer(r))
         /\ WF_dispatchVars(AuthorizeEffect(r))
         /\ WF_dispatchVars(NodePrepare(r) \/ NodeRejects(r)) /\ WF_dispatchVars(NodeCommand(r))
         /\ WF_dispatchVars(NodeGranted(r)) /\ WF_dispatchVars(NodeDenied(r))
         /\ WF_dispatchVars(ProducerPrepare(r)) /\ WF_dispatchVars(ProducerIntent(r))
         /\ WF_dispatchVars(Execute(r)) /\ WF_dispatchVars(WorkerFinish(r) \/ WorkerFails(r))
    /\ \A n \in 1 .. 3 * Cardinality(Requests) :
         /\ WF_dispatchVars(TakeReceipt(n)) /\ WF_dispatchVars(NodeAck(n))
         /\ WF_dispatchVars(\E i \in inhand : i[2] = n /\ (AcceptDuplicate(i[1], n)
                               \/ ApplyCanonical(i[1], n) \/ RefuseReceipt(i[1], n)))

FairSpec == Spec /\ Fairness

-----------------------------------------------------------------------------
(* Type correctness.                                                       *)
NodeTypeOK ==
    /\ rec \in [Requests -> NodeRecords]
    /\ cursor \in Nat /\ granted \in BOOLEAN /\ epoch \in Nat
    /\ gens \in Nat /\ slot \in Connections /\ drain \in BOOLEAN /\ ready \in BOOLEAN
    /\ job \in [Requests -> Kinds \X JobPlaces] /\ rconn \in Connections
    /\ fresh \in [Requests -> BOOLEAN]
    /\ wake \in BOOLEAN /\ noted \in [Requests -> BOOLEAN]
    /\ inhand \subseteq Connections \X Nat /\ committing \in Connections \X Nat
    /\ outbox \in Seq(Requests \X Stages) /\ command \in [Requests -> Stages] /\ acked \in Nat
    /\ nodeEpoch \in Nat /\ conn \in Connections /\ bound \in Connections
    /\ nodeDrain \in BOOLEAN /\ halted \in BOOLEAN
    /\ work \in WorkPlaces \X (Requests \cup {NoRequest}) \X Connections
    /\ sender \in {"resume", "send", "wait", "handoff"} /\ hinted \in BOOLEAN
    /\ executed \in [Requests -> Nat] /\ missed \in [Requests -> BOOLEAN] /\ faults \in Nat

(* A command the node has begun and not finished keeps the node occupied   *)
(* in the gateway's records, over lost connections, refused receipts and   *)
(* restarts of either side: record_holds_node never frees a busy node.     *)
CapacityKept == \A r \in PendingCommands : RecordHoldsNode(rec[r])

(* A command fenced as no-effect was never run and can no longer be: no    *)
(* grant is on the way, no producer holds one and the node has no receipt. *)
(* The fence is written from the gateway's own connection counter while    *)
(* the node's request for the effect may be anywhere.                      *)
NoEffectHonest ==
    \A r \in Requests :
        rec[r].auth = "no-effect" =>
            /\ executed[r] = 0 /\ command[r] = "none"
            /\ <<"granted", r>> \notin toNode /\ ~ (Producing /\ WorkRequest = r)

(* Receipt custody: the node never forgets a receipt the gateway has not   *)
(* taken, every receipt at or below the cursor is in its record, and a     *)
(* record is at most one receipt ahead of the cursor, with the stage that  *)
(* the node logged.                                                        *)
CustodyApplied ==
    /\ acked <= cursor /\ cursor <= Len(outbox)
    /\ \A n \in 1 .. cursor : rec[outbox[n][1]].seq >= n
    /\ \A r \in Requests :
         rec[r].seq > 0 =>
            /\ rec[r].seq <= cursor + 1 /\ rec[r].seq <= Len(outbox)
            /\ outbox[rec[r].seq] = <<r, rec[r].stage>>

(* The refinement mapping to NodeEffect.                                   *)
effectOf ==
    [r \in Requests |->
        IF rec[r].state = "completed" THEN "published"
        ELSE IF command[r] = "terminal" THEN "finished"
        ELSE IF executed[r] > 0 THEN "started"
        ELSE IF HasAuthorizationId(rec[r]) THEN "granted"
        ELSE IF rec[r].auth = "no-effect" THEN "denied"
        ELSE "none"]

Effect == INSTANCE NodeEffect WITH effect <- effectOf

(* Dispatch implements NodeEffect: the worker call of a request happens at *)
(* most once, after its grant, while no other request of the node is       *)
(* granted or running, and only a finished effect is published.            *)
ImplementsEffect == Effect!EffectSpec

(* Every receipt in the node's log is acknowledged, over lost connections, *)
(* a node restart and a gateway crash between the record and the cursor,   *)
(* unless the host has stopped.                                            *)
ReceiptsDrain == (acked < Len(outbox)) ~> (acked = Len(outbox) \/ halted)

(* A request whose deferral is recorded and whose terminal receipt is in   *)
(* its record is published: no wake-up between connection, readiness and   *)
(* receipt is lost for good.  It is left alone only when the host has      *)
(* stopped, or when the last observer had receipt and connection and was   *)
(* turned away: by a failing artifact, or by a cancel that took its queue  *)
(* entry or overtook its publication.                                      *)
RecoveredPublished ==
    \A r \in Requests :
        (rec[r].state = "running" /\ rec[r].recovery /\ rec[r].stage = "terminal")
            ~> (rec[r].state = "completed" \/ halted \/ missed[r])

(* Without that last case, and with sound artifacts: a cancel does not     *)
(* keep the result of a finished command back.                             *)
CancelKeepsResult ==
    \A r \in Requests :
        (rec[r].state = "running" /\ rec[r].recovery /\ rec[r].stage = "terminal")
            ~> (rec[r].state = "completed" \/ halted)

(* What the comment at the deferral promises of every deferred attempt:    *)
(* the readiness owner re-enqueues it, so its result is published.         *)
TerminalPublished ==
    \A r \in Requests :
        (rec[r].state = "running" /\ rec[r].stage = "terminal")
            ~> (rec[r].state = "completed" \/ halted)

(* What checkpoints.py promises: after a crash between the canonical and   *)
(* the cursor write, replaying the next receipt is enough.                 *)
ReplayAccepted == cursor < Len(outbox) /\ GuardFree => Acceptable(cursor + 1)

=============================================================================
