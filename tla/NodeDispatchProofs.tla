------------------------- MODULE NodeDispatchProofs -------------------------
(***************************************************************************)
(* Proofs about NodeDispatch, for any requests, gateway epochs,            *)
(* connections and faults.                                                 *)
(*                                                                         *)
(* The invariant has one part for the records, the queue, the node, its    *)
(* log, receipt custody and the grant.  CapacityKept and the refinement of *)
(* NodeEffect both rest on the same chain: a record is terminal only with  *)
(* a terminal receipt (RecOK), which is in the node's log (CustodyOK),     *)
(* whose row is then terminal (LogOK), and nothing is in the log that was  *)
(* not granted (WorkOK).                                                   *)
(***************************************************************************)
EXTENDS NodeDispatch, TLAPS

RecordSound(v) ==
    /\ v.auth # "none" <=> Bound(v)
    /\ v.stage = "none" <=> v.seq = 0
    /\ v.state = "absent" => v.auth = "none" /\ v.seq = 0
    /\ v.state = "completed" => v.auth = "terminal" /\ v.stage = "terminal"

(* The records: what is bound has an authorization state, what has a       *)
(* receipt a stage, and a completed one both terminal.                     *)
RecOK ==
    /\ rec \in [Requests -> NodeRecords]
    /\ \A r \in Requests : RecordSound(rec[r])

QueueOK ==
    /\ granted \in BOOLEAN /\ epoch \in Nat
    /\ gens \in Nat /\ slot \in Connections /\ drain \in BOOLEAN /\ ready \in BOOLEAN
    /\ job \in [Requests -> Kinds \X JobPlaces] /\ rconn \in Connections
    /\ fresh \in [Requests -> BOOLEAN]
    /\ wake \in BOOLEAN /\ noted \in [Requests -> BOOLEAN]

NodeOK ==
    /\ nodeEpoch \in Nat /\ conn \in Connections /\ bound \in Connections
    /\ nodeDrain \in BOOLEAN /\ halted \in BOOLEAN
    /\ work \in WorkPlaces \X (Requests \cup {NoRequest}) \X Connections
    /\ sender \in {"resume", "send", "wait", "handoff"} /\ hinted \in BOOLEAN
    /\ missed \in [Requests -> BOOLEAN] /\ faults \in Nat

(* The node's log: no receipt without a stage, and the row of a request    *)
(* with a terminal receipt is terminal.                                    *)
LogOK ==
    /\ outbox \in Seq(Requests \X Stages) /\ command \in [Requests -> Stages]
    /\ executed \in [Requests -> Nat]
    /\ \A n \in 1 .. Len(outbox) :
         outbox[n][2] # "none" /\ (outbox[n][2] = "terminal" => command[outbox[n][1]] = "terminal")

(* Custody: a receipt under way is in the log, the one being committed is  *)
(* the next and in its record, and no acknowledgement is above the cursor. *)
CustodyOK ==
    /\ cursor \in Nat /\ acked \in Nat
    /\ inhand \subseteq Connections \X Nat /\ committing \in Connections \X Nat
    /\ CustodyApplied
    /\ \A i \in inhand : i[2] \in 1 .. Len(outbox)
    /\ committing # NoReceipt =>
         /\ committing[2] = cursor + 1 /\ committing[2] <= Len(outbox)
         /\ rec[outbox[committing[2]][1]].seq = committing[2]
    /\ \A m \in toNode : m[1] = "ack" => m[2] \in Nat /\ m[2] <= cursor

(* The grant precedes what the node does with it, and the places of the    *)
(* producer agree with the row of its request.                             *)
WorkOK ==
    /\ \A m \in toNode : m[1] = "granted" => m[2] \in Requests /\ HasAuthorizationId(rec[m[2]])
    /\ Producing => WorkRequest \in Requests /\ HasAuthorizationId(rec[WorkRequest])
    /\ \A r \in Requests :
         /\ command[r] # "none" => HasAuthorizationId(rec[r])
         /\ executed[r] # 0 => executed[r] = 1 /\ command[r] \in {"effect-intent", "terminal"}
         /\ command[r] = "terminal" => executed[r] = 1
    /\ WorkPlace = "intent" => command[WorkRequest] = "prepared"
    /\ WorkPlace = "run" => command[WorkRequest] = "effect-intent" /\ executed[WorkRequest] = 0
    /\ WorkPlace = "execute" => command[WorkRequest] = "effect-intent" /\ executed[WorkRequest] = 1

Inv == RecOK /\ QueueOK /\ NodeOK /\ LogOK /\ CustodyOK /\ WorkOK

-----------------------------------------------------------------------------
(* Most steps write at most one record, and neither its receipts nor the   *)
(* log: the grant of a request survives them, and so do its receipts.      *)
Keeps(u, v) ==
    /\ HasAuthorizationId(u) => HasAuthorizationId(v)
    /\ v.seq = u.seq /\ v.stage = u.stage

Evolves == \A r \in Requests : Keeps(rec[r], rec'[r])

(* A message to the node is old, or it acknowledges nothing above the      *)
(* cursor and grants nothing that its record does not show.                *)
Harmless ==
    \A m \in toNode' :
        \/ m \in toNode
        \/ /\ m[1] = "ack" => m[2] \in Nat /\ m[2] <= cursor
           /\ m[1] = "granted" => m[2] \in Requests /\ HasAuthorizationId(rec'[m[2]])

(* Receipts in hand come from the log, and a commit ends or goes on.       *)
Handled ==
    /\ \A i \in inhand' : i \in inhand \/ i \in Connections \X (1 .. Len(outbox))
    /\ committing' \in {committing, NoReceipt}

(* The producer goes on, ends, or starts with a grant.                     *)
Produces ==
    Producing' =>
        \/ work' = work
        \/ WorkPlace' = "start" /\ WorkRequest' \in Requests /\ HasAuthorizationId(rec'[WorkRequest'])

LEMMA Frame ==
    ASSUME Inv, RecOK', QueueOK', NodeOK', Evolves, Harmless, Handled, Produces,
           UNCHANGED <<cursor, outbox, command, executed>>,
           acked' \in {acked} \cup 0 .. cursor
    PROVE  Inv'
<1>1. LogOK'
  BY DEF Inv, LogOK
<1>2. CustodyOK'
  <2>1. CustodyApplied'
    <3>1. \A n \in 1 .. cursor : outbox[n][1] \in Requests
      BY DEF Inv, CustodyOK, CustodyApplied, LogOK
    <3>2. \A r \in Requests : rec'[r].seq = rec[r].seq /\ rec'[r].stage = rec[r].stage
      BY DEF Evolves, Keeps
    <3>3. acked' <= cursor
      BY DEF Inv, CustodyOK, CustodyApplied
    <3> QED BY <3>1, <3>2, <3>3 DEF Inv, CustodyOK, CustodyApplied
  <2>2. committing' # NoReceipt =>
          /\ committing'[2] = cursor' + 1 /\ committing'[2] <= Len(outbox')
          /\ rec'[outbox'[committing'[2]][1]].seq = committing'[2]
    BY DEF Inv, CustodyOK, LogOK, Evolves, Keeps, Handled
  <2>3. \A m \in toNode' : m[1] = "ack" => m[2] \in Nat /\ m[2] <= cursor'
    BY DEF Inv, CustodyOK, Harmless
  <2>4. committing' \in Connections \X Nat
    BY DEF Inv, CustodyOK, Handled, NoReceipt, NoConn, Connections
  <2>5. inhand' \subseteq Connections \X Nat /\ \A i \in inhand' : i[2] \in 1 .. Len(outbox)
    BY DEF Inv, CustodyOK, Handled
  <2>6. acked' \in Nat
    BY DEF Inv, CustodyOK
  <2> QED BY <2>1, <2>2, <2>3, <2>4, <2>5, <2>6 DEF Inv, CustodyOK
<1>3. WorkOK'
  <2>1. \A m \in toNode' : m[1] = "granted" => m[2] \in Requests /\ HasAuthorizationId(rec'[m[2]])
    BY DEF Inv, WorkOK, Evolves, Keeps, Harmless
  <2>2. Producing' => WorkRequest' \in Requests /\ HasAuthorizationId(rec'[WorkRequest'])
    BY DEF Inv, WorkOK, Evolves, Keeps, Produces, Producing, WorkPlace, WorkRequest
  <2>3. \A r \in Requests : command'[r] # "none" => HasAuthorizationId(rec'[r])
    BY DEF Inv, WorkOK, Evolves, Keeps
  <2>4. work' = work \/ WorkPlace' \notin {"intent", "run", "execute"}
    BY DEF Produces, Producing, WorkPlace
  <2> QED BY <2>1, <2>2, <2>3, <2>4 DEF Inv, WorkOK, WorkPlace, WorkRequest
<1> QED BY <1>1, <1>2, <1>3 DEF Inv

(* One record is written with a sound value that keeps its grant.          *)
LEMMA Rewrites ==
    ASSUME Inv, NEW r \in Requests, NEW v \in NodeRecords, Write(r, v), RecordSound(v), Keeps(rec[r], v)
    PROVE  RecOK' /\ Evolves
<1>1. rec' \in [Requests -> NodeRecords] /\ rec'[r] = v /\ \A q \in Requests \ {r} : rec'[q] = rec[q]
  BY DEF Inv, RecOK, Write
<1>2. \A q \in Requests : RecordSound(rec'[q])
  BY <1>1 DEF Inv, RecOK
<1>3. \A q \in Requests : Keeps(rec[q], rec'[q])
  BY <1>1 DEF Keeps
<1> QED BY <1>1, <1>2, <1>3 DEF RecOK, Evolves, RecordSound

(* A step that writes no record.                                           *)
LEMMA Rereads ==
    ASSUME Inv, UNCHANGED rec
    PROVE  RecOK' /\ Evolves
BY DEF Inv, RecOK, Evolves, Keeps

LEMMA NotifyTypes ==
    ASSUME Notify
    PROVE  wake' \in BOOLEAN /\ noted' \in [Requests -> BOOLEAN]
BY DEF Notify

LEMMA RetireTypes ==
    ASSUME Inv, NEW r \in Requests, Retire(r)
    PROVE  /\ job' \in [Requests -> Kinds \X JobPlaces]
           /\ wake' \in BOOLEAN /\ noted' \in [Requests -> BOOLEAN]
<1>1. job' \in [Requests -> Kinds \X JobPlaces]
  BY DEF Inv, QueueOK, Retire, Idle, Kinds, JobPlaces
<1>2. wake' \in BOOLEAN /\ noted' \in [Requests -> BOOLEAN]
  BY DEF Inv, QueueOK, Retire
<1> QED BY <1>1, <1>2

LEMMA CloseSlotTypes ==
    ASSUME CloseSlot
    PROVE  /\ slot' \in Connections /\ ready' \in BOOLEAN /\ drain' \in BOOLEAN
           /\ wake' \in BOOLEAN /\ noted' \in [Requests -> BOOLEAN]
BY NotifyTypes DEF CloseSlot, NoConn, Connections

LEMMA GotoTypes ==
    ASSUME Inv, NEW r \in Requests, NEW p \in JobPlaces, Goto(r, p)
    PROVE  job' \in [Requests -> Kinds \X JobPlaces]
BY DEF Inv, QueueOK, Goto, Kinds, JobPlaces

LEMMA MissesTypes ==
    ASSUME Inv, NEW r \in Requests, Misses(r) \/ UNCHANGED missed
    PROVE  missed' \in [Requests -> BOOLEAN]
BY DEF Inv, NodeOK, Misses

LEMMA NodeClosesTypes ==
    ASSUME Inv, NodeCloses
    PROVE  /\ conn' \in Connections /\ nodeDrain' \in BOOLEAN
           /\ work' \in WorkPlaces \X (Requests \cup {NoRequest}) \X Connections
           /\ sender' \in {"resume", "send", "wait", "handoff"} /\ hinted' \in BOOLEAN
           /\ toNode' = {} /\ Produces
<1>1. NoWork \in WorkPlaces \X (Requests \cup {NoRequest}) \X Connections
  BY DEF NoWork, WorkPlaces, NoConn, Connections
<1>2. work' \in WorkPlaces \X (Requests \cup {NoRequest}) \X Connections
  BY <1>1 DEF Inv, NodeOK, NodeCloses
<1>3. Produces
  BY DEF NodeCloses, Produces, Producing, WorkPlace, NoWork
<1> QED BY <1>2, <1>3 DEF NodeCloses, NoConn, Connections

(* What the store's node functions write is a record.                      *)
LEMMA SetRecovery ==
    ASSUME NEW v \in NodeRecords, NEW b \in BOOLEAN
    PROVE  [v EXCEPT !.recovery = b] \in NodeRecords
BY DEF NodeRecords

LEMMA SetCancel ==
    ASSUME NEW v \in NodeRecords, NEW b \in BOOLEAN
    PROVE  [v EXCEPT !.cancel = b] \in NodeRecords
BY DEF NodeRecords

LEMMA StartIsRecord ==
    ASSUME NEW v \in NodeRecords
    PROVE  [v EXCEPT !.state = "running", !.recovery = @ /\ v.state = "running"] \in NodeRecords
<1> DEFINE b == v.recovery /\ v.state = "running"
<1>1. [v EXCEPT !.state = "running"] \in NodeRecords /\ b \in BOOLEAN
  BY DEF NodeRecords
<1>2. [[v EXCEPT !.state = "running"] EXCEPT !.recovery = b] \in NodeRecords
  BY <1>1, SetRecovery
<1>3. [v EXCEPT !.state = "running", !.recovery = @ /\ v.state = "running"]
        = [[v EXCEPT !.state = "running"] EXCEPT !.recovery = b]
  BY DEF NodeRecords
<1> QED BY <1>2, <1>3

LEMMA TakeoverIsRecord ==
    ASSUME NEW v \in NodeRecords, NEW o \in Nat
    PROVE  Takeover(v, o) \in NodeRecords
<1>1. [v EXCEPT !.owner = o] \in NodeRecords
  BY DEF NodeRecords
<1>2. [[v EXCEPT !.owner = o] EXCEPT !.recovery = TRUE] \in NodeRecords
  BY <1>1, SetRecovery
<1>3. [v EXCEPT !.owner = o, !.recovery = TRUE] = [[v EXCEPT !.owner = o] EXCEPT !.recovery = TRUE]
  BY DEF NodeRecords
<1> QED BY <1>2, <1>3 DEF Takeover

LEMMA BindIsRecord ==
    ASSUME NEW v \in NodeRecords, NEW c \in Connections
    PROVE  BindDispatch(v, c) \in NodeRecords
<1> DEFINE u == [v EXCEPT !.conn = c, !.auth = "not-authorized"]
<1>1. u \in NodeRecords
  BY DEF NodeRecords
<1>2. [u EXCEPT !.recovery = FALSE] \in NodeRecords
  BY <1>1, SetRecovery
<1>3. BindDispatch(v, c) = [u EXCEPT !.recovery = FALSE]
  BY DEF NodeRecords, BindDispatch
<1> QED BY <1>2, <1>3

LEMMA FenceIsRecord ==
    ASSUME NEW v \in NodeRecords
    PROVE  FenceDispatch(v) \in NodeRecords
BY DEF FenceDispatch, NodeRecords

LEMMA DeferIsRecord ==
    ASSUME NEW v \in NodeRecords
    PROVE  Defer(v) \in NodeRecords
BY SetRecovery DEF Defer

LEMMA SubmitInv ==
    ASSUME Inv, NEW r \in Requests, Submit(r)
    PROVE  Inv'
<1>1. RecOK' /\ Evolves
  <2> DEFINE v == [AbsentRecord EXCEPT !.state = "queued", !.owner = epoch]
  <2>1. Write(r, v)
    BY DEF Submit
  <2>2. v \in NodeRecords
    BY DEF Inv, RecOK, QueueOK, NodeRecords, AbsentRecord, NoConn, Connections, Stages
  <2>3. RecordSound(v) /\ Keeps(rec[r], v)
    BY DEF Inv, RecOK, RecordSound, NodeRecords, Keeps, HasAuthorizationId, Bound, AbsentRecord, NoConn, Connections, Stages, Submit
  <2> QED BY <2>1, <2>2, <2>3, Rewrites
<1>2. QueueOK'
  BY NodeAssumption DEF Inv, QueueOK, Submit, Write, link, notices, custody,
     messages, nodeLog, node, history, Kinds, JobPlaces, Connections, NoConn, Idle
<1>3. NodeOK'
  BY DEF Inv, NodeOK, Submit, node, history
<1>4. Harmless /\ Handled
  BY DEF Harmless, Handled, Submit, Write, link, notices, custody, messages,
     nodeLog, node, history
<1>5. UNCHANGED <<cursor, outbox, command, executed>> /\ acked' \in {acked} \cup 0 .. cursor /\ Produces
  BY DEF Submit, Write, link, notices, custody, messages, nodeLog, node, history,
     Produces
<1> QED BY <1>1, <1>2, <1>3, <1>4, <1>5, Frame

LEMMA CancelInv ==
    ASSUME Inv, NEW r \in Requests, Cancel(r)
    PROVE  Inv'
<1>1. RecOK' /\ Evolves
  <2> DEFINE v == [rec[r] EXCEPT !.state = "cancelled"]
  <2>1. CASE Write(r, v) /\ rec[r].state = "queued"
    <3>1. v \in NodeRecords
      BY DEF Inv, RecOK, QueueOK, NodeRecords, Unfinished
    <3>2. RecordSound(v) /\ Keeps(rec[r], v)
      BY <2>1 DEF Inv, RecOK, RecordSound, NodeRecords, Keeps, HasAuthorizationId, Bound, Unfinished, Cancel
    <3> QED BY <2>1, <3>1, <3>2, Rewrites
  <2> DEFINE u == [rec[r] EXCEPT !.cancel = TRUE]
  <2>2. CASE Write(r, u)
    <3>1. u \in NodeRecords
      BY SetCancel DEF Inv, RecOK
    <3>2. RecordSound(u) /\ Keeps(rec[r], u)
      BY <2>2 DEF Inv, RecOK, RecordSound, NodeRecords, Keeps, HasAuthorizationId, Bound, Unfinished, Cancel
    <3> QED BY <2>2, <3>1, <3>2, Rewrites
  <2>3. CASE rec[r].state = "queued"
    BY <2>1, <2>3 DEF Cancel
  <2>4. CASE rec[r].state # "queued"
    BY <2>2, <2>4 DEF Cancel
  <2> QED BY <2>3, <2>4
<1>2. QueueOK'
  BY NodeAssumption DEF Inv, QueueOK, Cancel, Write, Touched, link, notices,
     custody, messages, nodeLog, node, history, Kinds, JobPlaces, Connections,
     NoConn, Idle
<1>3. NodeOK'
  <2>1. Misses(r) \/ UNCHANGED missed
    BY DEF Cancel
  <2> QED BY <2>1, MissesTypes DEF Inv, NodeOK, Cancel, node
<1>4. Harmless /\ Handled
  BY DEF Harmless, Handled, Cancel, Write, Touched, link, notices, custody,
     messages, nodeLog, node, history
<1>5. UNCHANGED <<cursor, outbox, command, executed>> /\ acked' \in {acked} \cup 0 .. cursor /\ Produces
  BY DEF Cancel, Write, Touched, link, notices, custody, messages, nodeLog, node,
     history, Produces
<1> QED BY <1>1, <1>2, <1>3, <1>4, <1>5, Frame

LEMMA StartFreshInv ==
    ASSUME Inv, NEW r \in Requests, StartFresh(r)
    PROVE  Inv'
<1>1. RecOK' /\ Evolves
  <2> DEFINE v == [rec[r] EXCEPT !.state = "running", !.recovery = @ /\ rec[r].state = "running"]
  <2>1. Write(r, v)
    BY DEF StartFresh
  <2>2. v \in NodeRecords
    BY StartIsRecord DEF Inv, RecOK
  <2>3. RecordSound(v) /\ Keeps(rec[r], v)
    BY DEF Inv, RecOK, RecordSound, NodeRecords, Keeps, HasAuthorizationId, Bound, Unfinished, StartFresh
  <2> QED BY <2>1, <2>2, <2>3, Rewrites
<1>2. QueueOK'
  BY NodeAssumption DEF Inv, QueueOK, StartFresh, Write, link, custody, messages,
     nodeLog, node, history, Kinds, JobPlaces, Connections, NoConn, Idle
<1>3. NodeOK'
  BY DEF Inv, NodeOK, StartFresh, node, history
<1>4. Harmless /\ Handled
  BY DEF Harmless, Handled, StartFresh, Write, link, custody, messages, nodeLog,
     node, history
<1>5. UNCHANGED <<cursor, outbox, command, executed>> /\ acked' \in {acked} \cup 0 .. cursor /\ Produces
  BY DEF StartFresh, Write, link, custody, messages, nodeLog, node, history,
     Produces
<1> QED BY <1>1, <1>2, <1>3, <1>4, <1>5, Frame

LEMMA StartObserverInv ==
    ASSUME Inv, NEW r \in Requests, StartObserver(r)
    PROVE  Inv'
<1>1. RecOK' /\ Evolves
  BY Rereads DEF StartObserver, durable
<1>2. QueueOK'
  BY NodeAssumption DEF Inv, QueueOK, StartObserver, durable, link, custody,
     messages, nodeLog, node, history, Kinds, JobPlaces, Connections, NoConn, Idle
<1>3. NodeOK'
  BY DEF Inv, NodeOK, StartObserver, node
<1>4. Harmless /\ Handled
  BY DEF Harmless, Handled, StartObserver, durable, link, custody, messages,
     nodeLog, node, history
<1>5. UNCHANGED <<cursor, outbox, command, executed>> /\ acked' \in {acked} \cup 0 .. cursor /\ Produces
  BY DEF StartObserver, durable, link, custody, messages, nodeLog, node, history,
     Produces
<1> QED BY <1>1, <1>2, <1>3, <1>4, <1>5, Frame

LEMMA DeferReadInv ==
    ASSUME Inv, NEW r \in Requests, DeferRead(r)
    PROVE  Inv'
<1>1. RecOK' /\ Evolves
  BY Rereads DEF DeferRead, durable
<1>2. QueueOK'
  <2>1. job' \in [Requests -> Kinds \X JobPlaces]
    BY RetireTypes, GotoTypes DEF DeferRead, JobPlaces
  <2>2. wake' \in BOOLEAN /\ noted' \in [Requests -> BOOLEAN]
    BY RetireTypes DEF Inv, QueueOK, DeferRead, notices
  <2>3. fresh' \in [Requests -> BOOLEAN]
    BY DEF Inv, QueueOK, DeferRead
  <2> QED BY <2>1, <2>2, <2>3 DEF Inv, QueueOK, DeferRead, durable, link
<1>3. NodeOK'
  BY DEF Inv, NodeOK, DeferRead, node, history
<1>4. Harmless /\ Handled
  BY DEF Harmless, Handled, DeferRead, Goto, Retire, durable, link, custody,
     messages, nodeLog, node, history
<1>5. UNCHANGED <<cursor, outbox, command, executed>> /\ acked' \in {acked} \cup 0 .. cursor /\ Produces
  BY DEF DeferRead, Goto, Retire, durable, link, custody, messages, nodeLog, node,
     history, Produces
<1> QED BY <1>1, <1>2, <1>3, <1>4, <1>5, Frame

LEMMA DeferWriteInv ==
    ASSUME Inv, NEW r \in Requests, DeferWrite(r)
    PROVE  Inv'
<1>1. RecOK' /\ Evolves
  <2> DEFINE v == IF fresh[r] THEN Defer(rec[r]) ELSE rec[r]
  <2>1. Write(r, v)
    BY DEF DeferWrite
  <2>2. v \in NodeRecords
    BY DeferIsRecord DEF Inv, RecOK
  <2>3. RecordSound(v) /\ Keeps(rec[r], v)
    BY DEF Inv, RecOK, RecordSound, NodeRecords, Keeps, HasAuthorizationId, Bound, Defer, DeferWrite
  <2> QED BY <2>1, <2>2, <2>3, Rewrites
<1>2. QueueOK'
  BY NodeAssumption DEF Inv, QueueOK, DeferWrite, Write, Touched, Retire, link,
     custody, messages, nodeLog, node, history, Kinds, JobPlaces, Connections,
     NoConn, Idle
<1>3. NodeOK'
  BY DEF Inv, NodeOK, DeferWrite, node, history
<1>4. Harmless /\ Handled
  BY DEF Harmless, Handled, DeferWrite, Write, Touched, Retire, link, custody,
     messages, nodeLog, node, history
<1>5. UNCHANGED <<cursor, outbox, command, executed>> /\ acked' \in {acked} \cup 0 .. cursor /\ Produces
  BY DEF DeferWrite, Write, Touched, Retire, link, custody, messages, nodeLog, node,
     history, Produces
<1> QED BY <1>1, <1>2, <1>3, <1>4, <1>5, Frame

LEMMA SendPrepareInv ==
    ASSUME Inv, NEW r \in Requests, SendPrepare(r)
    PROVE  Inv'
<1>1. RecOK' /\ Evolves
  BY Rereads DEF SendPrepare, durable
<1>2. QueueOK'
  <2>1. job' \in [Requests -> Kinds \X JobPlaces]
    BY GotoTypes DEF SendPrepare, JobPlaces
  <2> QED BY <2>1 DEF Inv, QueueOK, SendPrepare, durable, notices
<1>3. NodeOK'
  BY DEF Inv, NodeOK, SendPrepare, node, history
<1>4. Harmless /\ Handled
  BY DEF Harmless, Handled, SendPrepare, Goto, ToNode, durable, notices, custody,
     nodeLog, node, history
<1>5. UNCHANGED <<cursor, outbox, command, executed>> /\ acked' \in {acked} \cup 0 .. cursor /\ Produces
  BY DEF SendPrepare, Goto, ToNode, durable, notices, custody, nodeLog, node,
     history, Produces
<1> QED BY <1>1, <1>2, <1>3, <1>4, <1>5, Frame

LEMMA PrepareNotSentInv ==
    ASSUME Inv, NEW r \in Requests, PrepareNotSent(r)
    PROVE  Inv'
<1>1. RecOK' /\ Evolves
  BY Rereads DEF PrepareNotSent, durable
<1>2. QueueOK'
  BY NodeAssumption DEF Inv, QueueOK, PrepareNotSent, Goto, durable, link, notices,
     custody, messages, nodeLog, node, history, Kinds, JobPlaces, Connections,
     NoConn, Idle
<1>3. NodeOK'
  BY DEF Inv, NodeOK, PrepareNotSent, node, history
<1>4. Harmless /\ Handled
  BY DEF Harmless, Handled, PrepareNotSent, Goto, durable, link, notices, custody,
     messages, nodeLog, node, history
<1>5. UNCHANGED <<cursor, outbox, command, executed>> /\ acked' \in {acked} \cup 0 .. cursor /\ Produces
  BY DEF PrepareNotSent, Goto, durable, link, notices, custody, messages, nodeLog,
     node, history, Produces
<1> QED BY <1>1, <1>2, <1>3, <1>4, <1>5, Frame

LEMMA BindPreparedInv ==
    ASSUME Inv, NEW r \in Requests, BindPrepared(r)
    PROVE  Inv'
<1>1. RecOK' /\ Evolves
  <2> DEFINE v == BindDispatch(rec[r], rconn)
  <2>1. CASE Write(r, v) /\ MayBind(rec[r], epoch) /\ LiveSlot(rconn)
    <3>1. v \in NodeRecords
      BY BindIsRecord DEF Inv, RecOK, QueueOK
    <3>2. RecordSound(v) /\ Keeps(rec[r], v)
      BY <2>1 DEF Inv, RecOK, RecordSound, NodeRecords, Keeps, HasAuthorizationId, Bound, BindDispatch, MayBind, LiveSlot, BindPrepared
    <3> QED BY <2>1, <3>1, <3>2, Rewrites
  <2>2. CASE UNCHANGED rec
    BY <2>2, Rereads
  <2> QED BY <2>1, <2>2 DEF BindPrepared
<1>2. QueueOK'
  BY NodeAssumption DEF Inv, QueueOK, BindPrepared, Write, Goto, link, notices,
     custody, nodeLog, node, history, Kinds, JobPlaces, Connections, NoConn, Idle
<1>3. NodeOK'
  BY DEF Inv, NodeOK, BindPrepared, node, history
<1>4. Harmless /\ Handled
  BY DEF Harmless, Handled, BindPrepared, Write, Goto, link, notices, custody,
     nodeLog, node, history
<1>5. UNCHANGED <<cursor, outbox, command, executed>> /\ acked' \in {acked} \cup 0 .. cursor /\ Produces
  BY DEF BindPrepared, Write, Goto, link, notices, custody, nodeLog, node, history,
     Produces
<1> QED BY <1>1, <1>2, <1>3, <1>4, <1>5, Frame

LEMMA PrepareRejectedInv ==
    ASSUME Inv, NEW r \in Requests, PrepareRejected(r)
    PROVE  Inv'
<1>1. RecOK' /\ Evolves
  BY Rereads DEF PrepareRejected, durable
<1>2. QueueOK'
  BY NodeAssumption DEF Inv, QueueOK, PrepareRejected, Goto, durable, link, notices,
     custody, nodeLog, node, history, Kinds, JobPlaces, Connections, NoConn, Idle
<1>3. NodeOK'
  BY DEF Inv, NodeOK, PrepareRejected, node, history
<1>4. Harmless /\ Handled
  BY DEF Harmless, Handled, PrepareRejected, Goto, durable, link, notices, custody,
     nodeLog, node, history
<1>5. UNCHANGED <<cursor, outbox, command, executed>> /\ acked' \in {acked} \cup 0 .. cursor /\ Produces
  BY DEF PrepareRejected, Goto, durable, link, notices, custody, nodeLog, node,
     history, Produces
<1> QED BY <1>1, <1>2, <1>3, <1>4, <1>5, Frame

LEMMA PrepareLostInv ==
    ASSUME Inv, NEW r \in Requests, PrepareLost(r)
    PROVE  Inv'
<1>1. RecOK' /\ Evolves
  BY Rereads DEF PrepareLost, durable
<1>2. QueueOK'
  BY NodeAssumption DEF Inv, QueueOK, PrepareLost, Goto, durable, link, notices,
     custody, messages, nodeLog, node, history, Kinds, JobPlaces, Connections,
     NoConn, Idle
<1>3. NodeOK'
  BY DEF Inv, NodeOK, PrepareLost, node, history
<1>4. Harmless /\ Handled
  BY DEF Harmless, Handled, PrepareLost, Goto, durable, link, notices, custody,
     messages, nodeLog, node, history
<1>5. UNCHANGED <<cursor, outbox, command, executed>> /\ acked' \in {acked} \cup 0 .. cursor /\ Produces
  BY DEF PrepareLost, Goto, durable, link, notices, custody, messages, nodeLog,
     node, history, Produces
<1> QED BY <1>1, <1>2, <1>3, <1>4, <1>5, Frame

LEMMA SendCommandInv ==
    ASSUME Inv, NEW r \in Requests, SendCommand(r)
    PROVE  Inv'
<1>1. RecOK' /\ Evolves
  BY Rereads DEF SendCommand, durable
<1>2. QueueOK'
  BY NodeAssumption DEF Inv, QueueOK, SendCommand, Goto, ToNode, durable, link,
     notices, custody, nodeLog, node, history, Kinds, JobPlaces, Connections,
     NoConn, Idle
<1>3. NodeOK'
  BY DEF Inv, NodeOK, SendCommand, node, history
<1>4. Harmless /\ Handled
  BY DEF Harmless, Handled, SendCommand, Goto, ToNode, durable, link, notices,
     custody, nodeLog, node, history
<1>5. UNCHANGED <<cursor, outbox, command, executed>> /\ acked' \in {acked} \cup 0 .. cursor /\ Produces
  BY DEF SendCommand, Goto, ToNode, durable, link, notices, custody, nodeLog, node,
     history, Produces
<1> QED BY <1>1, <1>2, <1>3, <1>4, <1>5, Frame

LEMMA ObserveFenceInv ==
    ASSUME Inv, NEW r \in Requests, ObserveFence(r)
    PROVE  Inv'
<1>1. RecOK' /\ Evolves
  <2> DEFINE v == FenceDispatch(rec[r])
  <2>1. Write(r, v)
    BY DEF ObserveFence
  <2>2. v \in NodeRecords
    BY FenceIsRecord DEF Inv, RecOK
  <2>3. RecordSound(v) /\ Keeps(rec[r], v)
    BY DEF Inv, RecOK, RecordSound, NodeRecords, Keeps, HasAuthorizationId, Bound, FenceDispatch, MayFenceNow, MayFence, ObserveFence
  <2> QED BY <2>1, <2>2, <2>3, Rewrites
<1>2. QueueOK'
  BY NodeAssumption DEF Inv, QueueOK, ObserveFence, Write, Touched, Goto, link,
     notices, custody, messages, nodeLog, node, history, Kinds, JobPlaces,
     Connections, NoConn, Idle
<1>3. NodeOK'
  BY DEF Inv, NodeOK, ObserveFence, node, history
<1>4. Harmless /\ Handled
  BY DEF Harmless, Handled, ObserveFence, Write, Touched, Goto, link, notices,
     custody, messages, nodeLog, node, history
<1>5. UNCHANGED <<cursor, outbox, command, executed>> /\ acked' \in {acked} \cup 0 .. cursor /\ Produces
  BY DEF ObserveFence, Write, Touched, Goto, link, notices, custody, messages,
     nodeLog, node, history, Produces
<1> QED BY <1>1, <1>2, <1>3, <1>4, <1>5, Frame

LEMMA ObserveFetchInv ==
    ASSUME Inv, NEW r \in Requests, ObserveFetch(r)
    PROVE  Inv'
<1>1. RecOK' /\ Evolves
  BY Rereads DEF ObserveFetch, durable
<1>2. QueueOK'
  BY NodeAssumption DEF Inv, QueueOK, ObserveFetch, Goto, durable, link, notices,
     custody, messages, nodeLog, node, history, Kinds, JobPlaces, Connections,
     NoConn, Idle
<1>3. NodeOK'
  BY DEF Inv, NodeOK, ObserveFetch, node, history
<1>4. Harmless /\ Handled
  BY DEF Harmless, Handled, ObserveFetch, Goto, durable, link, notices, custody,
     messages, nodeLog, node, history
<1>5. UNCHANGED <<cursor, outbox, command, executed>> /\ acked' \in {acked} \cup 0 .. cursor /\ Produces
  BY DEF ObserveFetch, Goto, durable, link, notices, custody, messages, nodeLog,
     node, history, Produces
<1> QED BY <1>1, <1>2, <1>3, <1>4, <1>5, Frame

LEMMA ObservePublishInv ==
    ASSUME Inv, NEW r \in Requests, ObservePublish(r)
    PROVE  Inv'
<1> DEFINE publishes == fresh[r] /\ MayPublish(rec[r], epoch)
<1>1. RecOK' /\ Evolves
  <2>1. CASE publishes
    <3> DEFINE v == [rec[r] EXCEPT !.state = "completed"]
    <3>1. Write(r, v)
      BY <2>1 DEF ObservePublish
    <3>2. v \in NodeRecords
      BY DEF Inv, RecOK, NodeRecords
    <3>3. RecordSound(v) /\ Keeps(rec[r], v)
      BY <2>1 DEF Inv, RecOK, RecordSound, NodeRecords, Keeps, HasAuthorizationId, Bound, MayPublish
    <3> QED BY <3>1, <3>2, <3>3, Rewrites
  <2>2. CASE ~ publishes
    BY <2>2, Rereads DEF ObservePublish
  <2> QED BY <2>1, <2>2
<1>2. QueueOK'
  <2>1. job' \in [Requests -> Kinds \X JobPlaces]
    BY RetireTypes, GotoTypes DEF ObservePublish, JobPlaces
  <2>2. wake' \in BOOLEAN /\ noted' \in [Requests -> BOOLEAN]
    BY RetireTypes DEF ObservePublish, notices, Inv, QueueOK
  <2>3. fresh' \in [Requests -> BOOLEAN]
    BY DEF ObservePublish, Touched, Inv, QueueOK
  <2> QED BY <2>1, <2>2, <2>3 DEF Inv, QueueOK, ObservePublish, link
<1>3. NodeOK'
  <2>1. Misses(r) \/ UNCHANGED missed
    BY DEF ObservePublish
  <2> QED BY <2>1, MissesTypes DEF Inv, NodeOK, ObservePublish, node
<1>4. Harmless /\ Handled
  BY DEF Harmless, Handled, ObservePublish, custody, messages, nodeLog, node
<1>5. UNCHANGED <<cursor, outbox, command, executed>> /\ acked' \in {acked} \cup 0 .. cursor /\ Produces
  BY DEF ObservePublish, custody, messages, nodeLog, node, Produces
<1> QED BY <1>1, <1>2, <1>3, <1>4, <1>5, Frame

LEMMA ObserveFailsInv ==
    ASSUME Inv, NEW r \in Requests, ObserveFails(r)
    PROVE  Inv'
<1>1. RecOK' /\ Evolves
  BY Rereads DEF ObserveFails, durable
<1>2. QueueOK'
  BY NodeAssumption DEF Inv, QueueOK, ObserveFails, Goto, Misses, durable, link, notices,
     custody, messages, nodeLog, node, history, Kinds, JobPlaces, Connections,
     NoConn, Idle
<1>3. NodeOK'
  BY MissesTypes DEF Inv, NodeOK, ObserveFails, node
<1>4. Harmless /\ Handled
  BY DEF Harmless, Handled, ObserveFails, Goto, Misses, durable, link, notices, custody,
     messages, nodeLog, node, history
<1>5. UNCHANGED <<cursor, outbox, command, executed>> /\ acked' \in {acked} \cup 0 .. cursor /\ Produces
  BY DEF ObserveFails, Goto, Misses, durable, link, notices, custody, messages, nodeLog,
     node, history, Produces
<1> QED BY <1>1, <1>2, <1>3, <1>4, <1>5, Frame

LEMMA ObserveDeferInv ==
    ASSUME Inv, NEW r \in Requests, ObserveDefer(r)
    PROVE  Inv'
<1>1. RecOK' /\ Evolves
  BY Rereads DEF ObserveDefer, durable
<1>2. QueueOK'
  BY NodeAssumption DEF Inv, QueueOK, ObserveDefer, Goto, durable, link, notices,
     custody, messages, nodeLog, node, history, Kinds, JobPlaces, Connections,
     NoConn, Idle
<1>3. NodeOK'
  BY DEF Inv, NodeOK, ObserveDefer, node, history
<1>4. Harmless /\ Handled
  BY DEF Harmless, Handled, ObserveDefer, Goto, durable, link, notices, custody,
     messages, nodeLog, node, history
<1>5. UNCHANGED <<cursor, outbox, command, executed>> /\ acked' \in {acked} \cup 0 .. cursor /\ Produces
  BY DEF ObserveDefer, Goto, durable, link, notices, custody, messages, nodeLog,
     node, history, Produces
<1> QED BY <1>1, <1>2, <1>3, <1>4, <1>5, Frame

LEMMA AuthorizeEffectInv ==
    ASSUME Inv, NEW r \in Requests, AuthorizeEffect(r)
    PROVE  Inv'
<1>1. RecOK' /\ Evolves
  <2> DEFINE v == AuthorizeDispatch(rec[r])
  <2>1. CASE Write(r, v) /\ MayAuthorize(rec[r], epoch, slot)
    <3>1. v \in NodeRecords
      BY SMTT(30) DEF Inv, RecOK, QueueOK, NodeRecords, AuthorizeDispatch
    <3>2. RecordSound(v) /\ Keeps(rec[r], v)
      BY <2>1 DEF Inv, RecOK, RecordSound, NodeRecords, Keeps, HasAuthorizationId, Bound, AuthorizeDispatch, MayAuthorize, AuthorizeEffect
    <3> QED BY <2>1, <3>1, <3>2, Rewrites
  <2>2. CASE UNCHANGED rec
    BY <2>2, Rereads
  <2> QED BY <2>1, <2>2 DEF AuthorizeEffect
<1>2. QueueOK'
  BY NodeAssumption DEF Inv, QueueOK, AuthorizeEffect, Write, Touched, ToNode, link,
     notices, custody, nodeLog, node, history, Kinds, JobPlaces, Connections,
     NoConn, Idle
<1>3. NodeOK'
  BY DEF Inv, NodeOK, AuthorizeEffect, node, history
<1>4. Harmless /\ Handled
  <2>1. CASE /\ Write(r, AuthorizeDispatch(rec[r])) /\ ToNode(<<"granted", r>>)
    <3>1. HasAuthorizationId(rec'[r])
      BY <2>1 DEF Inv, RecOK, NodeRecords, Write, AuthorizeDispatch, HasAuthorizationId
    <3> QED BY <2>1, <3>1 DEF Harmless, Handled, ToNode, AuthorizeEffect, custody
  <2>2. CASE ToNode(<<"denied", r>>)
    BY <2>2 DEF Harmless, Handled, ToNode, AuthorizeEffect, custody
  <2> QED BY <2>1, <2>2 DEF AuthorizeEffect
<1>5. UNCHANGED <<cursor, outbox, command, executed>> /\ acked' \in {acked} \cup 0 .. cursor /\ Produces
  BY DEF AuthorizeEffect, Write, Touched, ToNode, link, notices, custody, nodeLog,
     node, history, Produces
<1> QED BY <1>1, <1>2, <1>3, <1>4, <1>5, Frame

LEMMA NodePrepareInv ==
    ASSUME Inv, NEW r \in Requests, NodePrepare(r)
    PROVE  Inv'
<1>1. RecOK' /\ Evolves
  BY Rereads DEF NodePrepare, durable
<1>2. QueueOK'
  BY DEF Inv, QueueOK, NodePrepare, durable, link, queue, notices
<1>3. NodeOK'
  BY DEF Inv, NodeOK, NodePrepare, ToGateway, durable, link, queue, notices,
     custody, nodeLog, history, WorkPlaces, Connections, NoConn, NoWork, NoRequest
<1>4. Harmless /\ Handled
  BY DEF Harmless, Handled, NodePrepare, ToGateway, durable, link, queue, notices,
     custody, nodeLog, history
<1>5. UNCHANGED <<cursor, outbox, command, executed>> /\ acked' \in {acked} \cup 0 .. cursor /\ Produces
  BY DEF NodePrepare, ToGateway, durable, link, queue, notices, custody, nodeLog,
     history, Produces, Producing, WorkPlace, NoWork
<1> QED BY <1>1, <1>2, <1>3, <1>4, <1>5, Frame

LEMMA NodeRejectsInv ==
    ASSUME Inv, NEW r \in Requests, NodeRejects(r)
    PROVE  Inv'
<1>1. RecOK' /\ Evolves
  BY Rereads DEF NodeRejects, durable
<1>2. QueueOK'
  BY DEF Inv, QueueOK, NodeRejects, durable, link, queue, notices
<1>3. NodeOK'
  BY DEF Inv, NodeOK, NodeRejects, ToGateway, durable, link, queue, notices,
     custody, nodeLog, history, WorkPlaces, Connections, NoConn, NoWork, NoRequest
<1>4. Harmless /\ Handled
  BY DEF Harmless, Handled, NodeRejects, ToGateway, durable, link, queue, notices,
     custody, nodeLog, history
<1>5. UNCHANGED <<cursor, outbox, command, executed>> /\ acked' \in {acked} \cup 0 .. cursor /\ Produces
  BY DEF NodeRejects, ToGateway, durable, link, queue, notices, custody, nodeLog,
     history, Produces
<1> QED BY <1>1, <1>2, <1>3, <1>4, <1>5, Frame

LEMMA NodeCommandInv ==
    ASSUME Inv, NEW r \in Requests, NodeCommand(r)
    PROVE  Inv'
<1>1. RecOK' /\ Evolves
  BY Rereads DEF NodeCommand, durable
<1>2. QueueOK'
  BY DEF Inv, QueueOK, NodeCommand, durable, link, queue, notices
<1>3. NodeOK'
  <2>1. CASE Halt
    BY <2>1, NodeClosesTypes DEF Inv, NodeOK, NodeCommand, Halt, history
  <2>2. CASE work' = <<"authorizing", r, conn>> /\ hinted' = FALSE /\ UNCHANGED <<conn, nodeDrain, halted, sender>>
    <3>1. work' \in WorkPlaces \X (Requests \cup {NoRequest}) \X Connections
      BY <2>2 DEF Inv, NodeOK, WorkPlaces
    <3> QED BY <2>2, <3>1 DEF Inv, NodeOK, NodeCommand, history
  <2> QED BY <2>1, <2>2 DEF NodeCommand
<1>4. Harmless /\ Handled
  BY DEF Harmless, Handled, NodeCommand, ToGateway, Halt, NodeCloses, durable, link,
     queue, notices, custody, nodeLog, history
<1>5. UNCHANGED <<cursor, outbox, command, executed>> /\ acked' \in {acked} \cup 0 .. cursor /\ Produces
  BY DEF NodeCommand, ToGateway, Halt, NodeCloses, durable, link, queue, notices,
     custody, nodeLog, history, Produces, Producing, WorkPlace, NoWork
<1> QED BY <1>1, <1>2, <1>3, <1>4, <1>5, Frame

LEMMA NodeDeniedInv ==
    ASSUME Inv, NEW r \in Requests, NodeDenied(r)
    PROVE  Inv'
<1>1. RecOK' /\ Evolves
  BY Rereads DEF NodeDenied, durable
<1>2. QueueOK'
  BY DEF Inv, QueueOK, NodeDenied, durable, link, queue, notices
<1>3. NodeOK'
  BY NodeClosesTypes DEF Inv, NodeOK, NodeDenied, history, Halt
<1>4. Harmless /\ Handled
  BY DEF Harmless, Handled, NodeDenied, Halt, NodeCloses, durable, link, queue,
     notices, custody, nodeLog, history
<1>5. UNCHANGED <<cursor, outbox, command, executed>> /\ acked' \in {acked} \cup 0 .. cursor /\ Produces
  BY DEF NodeDenied, Halt, NodeCloses, durable, link, queue, notices, custody,
     nodeLog, history, Produces, Producing, WorkPlace, NoWork
<1> QED BY <1>1, <1>2, <1>3, <1>4, <1>5, Frame

LEMMA WakeNodeInv ==
    ASSUME Inv, WakeNode
    PROVE  Inv'
<1>1. RecOK' /\ Evolves
  BY Rereads DEF WakeNode, durable
<1>2. QueueOK'
  <2>1. \A r \in Requests : WakeEntry(r) \in Kinds \X JobPlaces
    BY DEF Inv, QueueOK, WakeEntry, Kinds, JobPlaces
  <2> QED BY <2>1 DEF Inv, QueueOK, WakeNode, durable, link
<1>3. NodeOK'
  BY DEF Inv, NodeOK, WakeNode, node, history
<1>4. Harmless /\ Handled
  BY DEF Harmless, Handled, WakeNode, durable, link, custody, messages, nodeLog,
     node, history
<1>5. UNCHANGED <<cursor, outbox, command, executed>> /\ acked' \in {acked} \cup 0 .. cursor /\ Produces
  BY DEF WakeNode, durable, link, custody, messages, nodeLog, node, history,
     Produces
<1> QED BY <1>1, <1>2, <1>3, <1>4, <1>5, Frame

LEMMA CursorFailsInv ==
    ASSUME Inv, CursorFails
    PROVE  Inv'
<1>1. RecOK' /\ Evolves
  BY Rereads DEF CursorFails, durable
<1>2. QueueOK'
  <2>1. CASE CloseSlot
    BY <2>1, CloseSlotTypes DEF Inv, QueueOK, CursorFails, durable, queue
  <2>2. CASE UNCHANGED <<slot, ready, drain, toGateway, notices>>
    BY <2>2 DEF Inv, QueueOK, CursorFails, durable, queue, notices
  <2> QED BY <2>1, <2>2 DEF CursorFails, Reject
<1>3. NodeOK'
  BY DEF Inv, NodeOK, CursorFails, node, history
<1>4. Harmless /\ Handled
  BY DEF Harmless, Handled, CursorFails, Reject, CloseSlot, Notify, Active, durable,
     queue, nodeLog, node, history, notices
<1>5. UNCHANGED <<cursor, outbox, command, executed>> /\ acked' \in {acked} \cup 0 .. cursor /\ Produces
  BY DEF CursorFails, Reject, CloseSlot, Notify, Active, durable, queue, nodeLog,
     node, history, notices, Produces
<1> QED BY <1>1, <1>2, <1>3, <1>4, <1>5, Frame

LEMMA GatewayReadyInv ==
    ASSUME Inv, GatewayReady
    PROVE  Inv'
<1>1. RecOK' /\ Evolves
  BY Rereads DEF GatewayReady, durable
<1>2. QueueOK'
  <2>1. CASE CloseSlot
    BY <2>1, CloseSlotTypes DEF Inv, QueueOK, GatewayReady, durable, queue
  <2>2. CASE ready' = TRUE /\ (UNCHANGED notices \/ Notify) /\ UNCHANGED <<slot, drain>>
    BY <2>2, NotifyTypes DEF Inv, QueueOK, GatewayReady, durable, queue, notices
  <2> QED BY <2>1, <2>2 DEF GatewayReady
<1>3. NodeOK'
  BY DEF Inv, NodeOK, GatewayReady, node, history
<1>4. Harmless /\ Handled
  BY DEF Harmless, Handled, GatewayReady, Notify, Active, CloseSlot, durable, queue,
     custody, nodeLog, node, history
<1>5. UNCHANGED <<cursor, outbox, command, executed>> /\ acked' \in {acked} \cup 0 .. cursor /\ Produces
  BY DEF GatewayReady, Notify, Active, CloseSlot, durable, queue, custody, nodeLog,
     node, history, Produces
<1> QED BY <1>1, <1>2, <1>3, <1>4, <1>5, Frame

LEMMA RevokeInv ==
    ASSUME Inv, Revoke
    PROVE  Inv'
<1>1. RecOK' /\ Evolves
  BY Rereads DEF Revoke
<1>2. QueueOK'
  BY NodeAssumption DEF Inv, QueueOK, Revoke, link, queue, notices, custody,
     messages, nodeLog, node, history, Kinds, JobPlaces, Connections, NoConn, Idle
<1>3. NodeOK'
  BY DEF Inv, NodeOK, Revoke, node, history
<1>4. Harmless /\ Handled
  BY DEF Harmless, Handled, Revoke, link, queue, notices, custody, messages,
     nodeLog, node, history
<1>5. UNCHANGED <<cursor, outbox, command, executed>> /\ acked' \in {acked} \cup 0 .. cursor /\ Produces
  BY DEF Revoke, link, queue, notices, custody, messages, nodeLog, node, history,
     Produces
<1> QED BY <1>1, <1>2, <1>3, <1>4, <1>5, Frame

LEMMA RefreshCapabilityInv ==
    ASSUME Inv, RefreshCapability
    PROVE  Inv'
<1>1. RecOK' /\ Evolves
  BY Rereads DEF RefreshCapability, durable
<1>2. QueueOK'
  <2>1. CASE CloseSlot
    BY <2>1, CloseSlotTypes DEF Inv, QueueOK, RefreshCapability, durable, queue
  <2>2. CASE drain' = TRUE /\ ready' = FALSE /\ Notify /\ UNCHANGED slot
    BY <2>2, NotifyTypes DEF Inv, QueueOK, RefreshCapability, durable, queue
  <2> QED BY <2>1, <2>2 DEF RefreshCapability
<1>3. NodeOK'
  BY DEF Inv, NodeOK, RefreshCapability, node, history
<1>4. Harmless /\ Handled
  BY DEF Harmless, Handled, RefreshCapability, ToNode, Notify, Active, CloseSlot,
     durable, queue, custody, nodeLog, node, history
<1>5. UNCHANGED <<cursor, outbox, command, executed>> /\ acked' \in {acked} \cup 0 .. cursor /\ Produces
  BY DEF RefreshCapability, ToNode, Notify, Active, CloseSlot, durable, queue,
     custody, nodeLog, node, history, Produces
<1> QED BY <1>1, <1>2, <1>3, <1>4, <1>5, Frame

LEMMA ConnectInv ==
    ASSUME Inv, Connect
    PROVE  Inv'
<1>1. RecOK' /\ Evolves
  BY Rereads DEF Connect, durable
<1>2. QueueOK'
  <2>1. slot' \in Connections
    BY DEF Inv, QueueOK, NodeOK, Connect, Connections
  <2>2. wake' \in BOOLEAN /\ noted' \in [Requests -> BOOLEAN]
    BY NotifyTypes DEF Inv, QueueOK, Connect, notices
  <2>3. drain' \in BOOLEAN /\ ready' \in BOOLEAN
    BY DEF Connect
  <2> QED BY <2>1, <2>2, <2>3 DEF Inv, QueueOK, Connect, durable, queue
<1>3. NodeOK'
  <2>1. conn' \in Connections
    BY DEF Inv, QueueOK, NodeOK, Connect, Connections
  <2> QED BY <2>1 DEF Inv, NodeOK, Connect, history
<1>4. Harmless /\ Handled
  BY DEF Harmless, Handled, Connect, Notify, Active, durable, queue, custody,
     nodeLog, history
<1>5. UNCHANGED <<cursor, outbox, command, executed>> /\ acked' \in {acked} \cup 0 .. cursor /\ Produces
  BY DEF Connect, Notify, Active, durable, queue, custody, nodeLog, history,
     Produces
<1> QED BY <1>1, <1>2, <1>3, <1>4, <1>5, Frame

LEMMA GatewayDropsInv ==
    ASSUME Inv, GatewayDrops
    PROVE  Inv'
<1>1. RecOK' /\ Evolves
  BY Rereads DEF GatewayDrops, durable
<1>2. QueueOK'
  BY NodeAssumption DEF Inv, QueueOK, GatewayDrops, CloseSlot, Notify, Active,
     durable, queue, custody, nodeLog, node, Kinds, JobPlaces, Connections, NoConn,
     Idle
<1>3. NodeOK'
  BY DEF Inv, NodeOK, GatewayDrops, node
<1>4. Harmless /\ Handled
  BY DEF Harmless, Handled, GatewayDrops, CloseSlot, Notify, Active, durable, queue,
     custody, nodeLog, node
<1>5. UNCHANGED <<cursor, outbox, command, executed>> /\ acked' \in {acked} \cup 0 .. cursor /\ Produces
  BY DEF GatewayDrops, CloseSlot, Notify, Active, durable, queue, custody, nodeLog,
     node, Produces
<1> QED BY <1>1, <1>2, <1>3, <1>4, <1>5, Frame

LEMMA NodeDropsInv ==
    ASSUME Inv, NodeDrops
    PROVE  Inv'
<1>1. RecOK' /\ Evolves
  BY Rereads DEF NodeDrops, durable
<1>2. QueueOK'
  BY DEF Inv, QueueOK, NodeDrops, durable, link, queue, notices
<1>3. NodeOK'
  BY NodeClosesTypes DEF Inv, NodeOK, NodeDrops, history
<1>4. Harmless /\ Handled
  BY DEF Harmless, Handled, NodeDrops, NodeCloses, durable, link, queue, notices,
     custody, nodeLog
<1>5. UNCHANGED <<cursor, outbox, command, executed>> /\ acked' \in {acked} \cup 0 .. cursor /\ Produces
  BY DEF NodeDrops, NodeCloses, durable, link, queue, notices, custody, nodeLog,
     Produces, Producing, WorkPlace, NoWork
<1> QED BY <1>1, <1>2, <1>3, <1>4, <1>5, Frame

LEMMA GatewayNoticesInv ==
    ASSUME Inv, GatewayNotices
    PROVE  Inv'
<1>1. RecOK' /\ Evolves
  BY Rereads DEF GatewayNotices, durable
<1>2. QueueOK'
  BY NodeAssumption DEF Inv, QueueOK, GatewayNotices, CloseSlot, Notify, Active,
     durable, queue, custody, nodeLog, node, history, Kinds, JobPlaces, Connections,
     NoConn, Idle
<1>3. NodeOK'
  BY DEF Inv, NodeOK, GatewayNotices, node, history
<1>4. Harmless /\ Handled
  BY DEF Harmless, Handled, GatewayNotices, CloseSlot, Notify, Active, durable,
     queue, custody, nodeLog, node, history
<1>5. UNCHANGED <<cursor, outbox, command, executed>> /\ acked' \in {acked} \cup 0 .. cursor /\ Produces
  BY DEF GatewayNotices, CloseSlot, Notify, Active, durable, queue, custody,
     nodeLog, node, history, Produces
<1> QED BY <1>1, <1>2, <1>3, <1>4, <1>5, Frame

LEMMA NodeNoticesInv ==
    ASSUME Inv, NodeNotices
    PROVE  Inv'
<1>1. RecOK' /\ Evolves
  BY Rereads DEF NodeNotices, durable
<1>2. QueueOK'
  BY DEF Inv, QueueOK, NodeNotices, durable, link, queue, notices
<1>3. NodeOK'
  BY NodeClosesTypes DEF Inv, NodeOK, NodeNotices, history
<1>4. Harmless /\ Handled
  BY DEF Harmless, Handled, NodeNotices, NodeCloses, durable, link, queue, notices,
     custody, nodeLog, history
<1>5. UNCHANGED <<cursor, outbox, command, executed>> /\ acked' \in {acked} \cup 0 .. cursor /\ Produces
  BY DEF NodeNotices, NodeCloses, durable, link, queue, notices, custody, nodeLog,
     history, Produces, Producing, WorkPlace, NoWork
<1> QED BY <1>1, <1>2, <1>3, <1>4, <1>5, Frame

LEMMA GatewayRestartInv ==
    ASSUME Inv, GatewayRestart
    PROVE  Inv'
<1>1. RecOK' /\ Evolves
  <2>1. \A r \in Requests : Takeover(rec[r], epoch + 1) \in NodeRecords
    BY TakeoverIsRecord DEF Inv, RecOK, QueueOK
  <2>2. \A r \in Requests : RecordSound(Takeover(rec[r], epoch + 1)) /\ Keeps(rec[r], Takeover(rec[r], epoch + 1))
    BY DEF Inv, RecOK, RecordSound, Keeps, HasAuthorizationId, Bound, NodeRecords, Takeover
  <2> QED BY <2>1, <2>2 DEF RecOK, Evolves, GatewayRestart, RecordSound
<1>2. QueueOK'
  <2>1. \A r \in Requests : RecoveredEntry(r) \in Kinds \X JobPlaces
    BY DEF RecoveredEntry, Idle, Kinds, JobPlaces
  <2>2. job' \in [Requests -> Kinds \X JobPlaces]
    BY <2>1 DEF GatewayRestart
  <2>3. fresh' \in [Requests -> BOOLEAN] /\ noted' \in [Requests -> BOOLEAN]
    BY DEF GatewayRestart
  <2>4. slot' \in Connections /\ rconn' \in Connections
    BY DEF GatewayRestart, NoConn, Connections
  <2>5. drain' \in BOOLEAN /\ ready' \in BOOLEAN /\ wake' \in BOOLEAN
    BY DEF GatewayRestart
  <2>6. granted' \in BOOLEAN
    BY DEF Inv, QueueOK, GatewayRestart
  <2>7. epoch' \in Nat /\ gens' \in Nat
    BY DEF Inv, QueueOK, GatewayRestart
  <2> QED BY <2>2, <2>3, <2>4, <2>5, <2>6, <2>7 DEF QueueOK
<1>3. NodeOK'
  BY DEF Inv, NodeOK, GatewayRestart, node, history
<1>4. Harmless /\ Handled
  BY DEF Harmless, Handled, GatewayRestart, nodeLog, node, history
<1>5. UNCHANGED <<cursor, outbox, command, executed>> /\ acked' \in {acked} \cup 0 .. cursor /\ Produces
  BY DEF GatewayRestart, nodeLog, node, history, Produces
<1> QED BY <1>1, <1>2, <1>3, <1>4, <1>5, Frame

LEMMA NodeRestartInv ==
    ASSUME Inv, NodeRestart
    PROVE  Inv'
<1>1. RecOK' /\ Evolves
  BY Rereads DEF NodeRestart, durable
<1>2. QueueOK'
  BY DEF Inv, QueueOK, NodeRestart, durable, link, queue, notices
<1>3. NodeOK'
  <2>1. NoWork \in WorkPlaces \X (Requests \cup {NoRequest}) \X Connections /\ NoConn \in Connections
    BY DEF NoWork, WorkPlaces, NoConn, Connections
  <2>2. nodeEpoch' \in Nat /\ faults' \in Nat
    BY DEF Inv, NodeOK, NodeRestart
  <2>3. nodeDrain' \in BOOLEAN /\ halted' \in BOOLEAN /\ hinted' \in BOOLEAN
    BY DEF NodeRestart
  <2> QED BY <2>1, <2>2, <2>3 DEF Inv, NodeOK, NodeRestart
<1>4. Harmless /\ Handled
  BY DEF Harmless, Handled, NodeRestart, durable, link, queue, notices, custody,
     nodeLog
<1>5. UNCHANGED <<cursor, outbox, command, executed>> /\ acked' \in {acked} \cup 0 .. cursor /\ Produces
  BY DEF NodeRestart, durable, link, queue, notices, custody, nodeLog, Produces,
     Producing, WorkPlace, NoWork
<1> QED BY <1>1, <1>2, <1>3, <1>4, <1>5, Frame

LEMMA LearnDrainInv ==
    ASSUME Inv, LearnDrain
    PROVE  Inv'
<1>1. RecOK' /\ Evolves
  BY Rereads DEF LearnDrain, durable
<1>2. QueueOK'
  BY DEF Inv, QueueOK, LearnDrain, durable, link, queue, notices
<1>3. NodeOK'
  BY DEF Inv, NodeOK, LearnDrain, durable, link, queue, notices, custody, nodeLog,
     history, WorkPlaces, Connections, NoConn, NoWork, NoRequest
<1>4. Harmless /\ Handled
  BY DEF Harmless, Handled, LearnDrain, durable, link, queue, notices, custody,
     nodeLog, history
<1>5. UNCHANGED <<cursor, outbox, command, executed>> /\ acked' \in {acked} \cup 0 .. cursor /\ Produces
  BY DEF LearnDrain, durable, link, queue, notices, custody, nodeLog, history,
     Produces
<1> QED BY <1>1, <1>2, <1>3, <1>4, <1>5, Frame

LEMMA ResumeInv ==
    ASSUME Inv, Resume
    PROVE  Inv'
<1>1. RecOK' /\ Evolves
  BY Rereads DEF Resume, durable
<1>2. QueueOK'
  BY DEF Inv, QueueOK, Resume, durable, link, queue, notices
<1>3. NodeOK'
  <2>1. CASE Halt
    BY <2>1, NodeClosesTypes DEF Inv, NodeOK, Resume, Halt, history
  <2>2. CASE sender' = "send" /\ UNCHANGED <<conn, nodeDrain, toNode, work, hinted, halted>>
    BY <2>2 DEF Inv, NodeOK, Resume, history
  <2> QED BY <2>1, <2>2 DEF Resume
<1>4. Harmless /\ Handled
  BY DEF Harmless, Handled, Resume, Halt, NodeCloses, durable, link, queue, notices,
     custody, nodeLog, history
<1>5. UNCHANGED <<cursor, outbox, command, executed>> /\ acked' \in {acked} \cup 0 .. cursor /\ Produces
  BY DEF Resume, Halt, NodeCloses, durable, link, queue, notices, custody, nodeLog,
     history, Produces, Producing, WorkPlace, NoWork
<1> QED BY <1>1, <1>2, <1>3, <1>4, <1>5, Frame

LEMMA SendReceiptInv ==
    ASSUME Inv, SendReceipt
    PROVE  Inv'
<1>1. RecOK' /\ Evolves
  BY Rereads DEF SendReceipt, durable
<1>2. QueueOK'
  BY DEF Inv, QueueOK, SendReceipt, durable, link, queue, notices
<1>3. NodeOK'
  BY DEF Inv, NodeOK, SendReceipt, ToGateway, durable, link, queue, notices,
     custody, nodeLog, history, WorkPlaces, Connections, NoConn, NoWork, NoRequest
<1>4. Harmless /\ Handled
  BY DEF Harmless, Handled, SendReceipt, ToGateway, durable, link, queue, notices,
     custody, nodeLog, history
<1>5. UNCHANGED <<cursor, outbox, command, executed>> /\ acked' \in {acked} \cup 0 .. cursor /\ Produces
  BY DEF SendReceipt, ToGateway, durable, link, queue, notices, custody, nodeLog,
     history, Produces
<1> QED BY <1>1, <1>2, <1>3, <1>4, <1>5, Frame

LEMMA SenderHandoffInv ==
    ASSUME Inv, SenderHandoff
    PROVE  Inv'
<1>1. RecOK' /\ Evolves
  BY Rereads DEF SenderHandoff, durable
<1>2. QueueOK'
  BY DEF Inv, QueueOK, SenderHandoff, durable, link, queue, notices
<1>3. NodeOK'
  BY DEF Inv, NodeOK, SenderHandoff, durable, link, queue, notices, custody,
     messages, nodeLog, history, WorkPlaces, Connections, NoConn, NoWork, NoRequest
<1>4. Harmless /\ Handled
  BY DEF Harmless, Handled, SenderHandoff, durable, link, queue, notices, custody,
     messages, nodeLog, history
<1>5. UNCHANGED <<cursor, outbox, command, executed>> /\ acked' \in {acked} \cup 0 .. cursor /\ Produces
  BY DEF SenderHandoff, durable, link, queue, notices, custody, messages, nodeLog,
     history, Produces
<1> QED BY <1>1, <1>2, <1>3, <1>4, <1>5, Frame

LEMMA SendReadyInv ==
    ASSUME Inv, SendReady
    PROVE  Inv'
<1>1. RecOK' /\ Evolves
  BY Rereads DEF SendReady, durable
<1>2. QueueOK'
  BY DEF Inv, QueueOK, SendReady, durable, link, queue, notices
<1>3. NodeOK'
  BY DEF Inv, NodeOK, SendReady, ToGateway, durable, link, queue, notices, custody,
     nodeLog, history, WorkPlaces, Connections, NoConn, NoWork, NoRequest
<1>4. Harmless /\ Handled
  BY DEF Harmless, Handled, SendReady, ToGateway, durable, link, queue, notices,
     custody, nodeLog, history
<1>5. UNCHANGED <<cursor, outbox, command, executed>> /\ acked' \in {acked} \cup 0 .. cursor /\ Produces
  BY DEF SendReady, ToGateway, durable, link, queue, notices, custody, nodeLog,
     history, Produces
<1> QED BY <1>1, <1>2, <1>3, <1>4, <1>5, Frame

LEMMA AcceptDuplicateInv ==
    ASSUME Inv, NEW c, NEW n, AcceptDuplicate(c, n)
    PROVE  Inv'
<1>1. RecOK' /\ Evolves
  BY Rereads DEF AcceptDuplicate, durable
<1>2. QueueOK'
  BY DEF Inv, QueueOK, AcceptDuplicate, durable, link, queue, notices
<1>3. NodeOK'
  BY DEF Inv, NodeOK, AcceptDuplicate, node, history
<1>4. Harmless /\ Handled
  <2>1. cursor \in Nat
    BY DEF Inv, CustodyOK
  <2> QED BY <2>1 DEF Harmless, Handled, AcceptDuplicate, Acknowledge, ToNode
<1>5. UNCHANGED <<cursor, outbox, command, executed>> /\ acked' \in {acked} \cup 0 .. cursor /\ Produces
  BY DEF AcceptDuplicate, Acknowledge, ToNode, durable, link, queue, notices,
     nodeLog, node, history, Produces
<1> QED BY <1>1, <1>2, <1>3, <1>4, <1>5, Frame

LEMMA RefuseReceiptInv ==
    ASSUME Inv, NEW c, NEW n, RefuseReceipt(c, n)
    PROVE  Inv'
<1>1. RecOK' /\ Evolves
  BY Rereads DEF RefuseReceipt, durable
<1>2. QueueOK'
  <2>1. CASE CloseSlot
    BY <2>1, CloseSlotTypes DEF Inv, QueueOK, RefuseReceipt, durable, queue
  <2>2. CASE UNCHANGED <<slot, ready, drain, toGateway, notices>>
    BY <2>2 DEF Inv, QueueOK, RefuseReceipt, durable, queue, notices
  <2> QED BY <2>1, <2>2 DEF RefuseReceipt, Reject
<1>3. NodeOK'
  BY DEF Inv, NodeOK, RefuseReceipt, node, history
<1>4. Harmless /\ Handled
  BY DEF Harmless, Handled, RefuseReceipt, Reject, CloseSlot, Notify, Active,
     durable, queue, nodeLog, node, history, notices
<1>5. UNCHANGED <<cursor, outbox, command, executed>> /\ acked' \in {acked} \cup 0 .. cursor /\ Produces
  BY DEF RefuseReceipt, Reject, CloseSlot, Notify, Active, durable, queue, nodeLog,
     node, history, notices, Produces
<1> QED BY <1>1, <1>2, <1>3, <1>4, <1>5, Frame

LEMMA TakeReceiptInv ==
    ASSUME Inv, NEW n \in 1 .. Len(outbox), TakeReceipt(n)
    PROVE  Inv'
<1>1. RecOK' /\ Evolves
  BY Rereads DEF TakeReceipt, durable
<1>2. QueueOK'
  BY DEF Inv, QueueOK, TakeReceipt, durable, link, queue, notices
<1>3. NodeOK'
  BY DEF Inv, NodeOK, TakeReceipt, node, history
<1>4. Harmless /\ Handled
  <2>1. slot \in Connections
    BY DEF Inv, QueueOK
  <2> QED BY <2>1 DEF Harmless, Handled, TakeReceipt
<1>5. UNCHANGED <<cursor, outbox, command, executed>> /\ acked' \in {acked} \cup 0 .. cursor /\ Produces
  BY DEF TakeReceipt, durable, link, queue, notices, nodeLog, node, history,
     Produces
<1> QED BY <1>1, <1>2, <1>3, <1>4, <1>5, Frame

LEMMA NodeAckInv ==
    ASSUME Inv, NEW n \in 1 .. Len(outbox), NodeAck(n)
    PROVE  Inv'
<1>1. RecOK' /\ Evolves
  BY Rereads DEF NodeAck, durable
<1>2. QueueOK'
  BY DEF Inv, QueueOK, NodeAck, durable, link, queue, notices
<1>3. NodeOK'
  BY DEF Inv, NodeOK, NodeAck, durable, link, queue, notices, custody, history,
     WorkPlaces, Connections, NoConn, NoWork, NoRequest
<1>4. Harmless /\ Handled
  BY DEF Harmless, Handled, NodeAck, durable, link, queue, notices, custody, history
<1>5. UNCHANGED <<cursor, outbox, command, executed>> /\ acked' \in {acked} \cup 0 .. cursor /\ Produces
  <2>1. n \in Nat /\ n <= cursor
    BY DEF Inv, CustodyOK, NodeAck
  <2> QED BY <2>1 DEF Inv, CustodyOK, NodeAck, durable, history, Produces, Producing, WorkPlace
<1> QED BY <1>1, <1>2, <1>3, <1>4, <1>5, Frame

LEMMA NodeGrantedInv ==
    ASSUME Inv, NEW r \in Requests, NodeGranted(r)
    PROVE  Inv'
<1>1. RecOK' /\ Evolves
  BY Rereads DEF NodeGranted, durable
<1>2. QueueOK'
  BY DEF Inv, QueueOK, NodeGranted, durable, link, queue, notices
<1>3. NodeOK'
  <2>1. CASE Halt
    BY <2>1, NodeClosesTypes DEF Inv, NodeOK, NodeGranted, Halt, history
  <2>2. CASE work' = <<"start", r, conn>> /\ hinted' = FALSE /\ UNCHANGED <<conn, nodeDrain, halted, sender>>
    <3>1. work' \in WorkPlaces \X (Requests \cup {NoRequest}) \X Connections
      BY <2>2 DEF Inv, NodeOK, WorkPlaces
    <3> QED BY <2>2, <3>1 DEF Inv, NodeOK, NodeGranted, history
  <2> QED BY <2>1, <2>2 DEF NodeGranted
<1>4. Harmless /\ Handled
  BY DEF Harmless, Handled, NodeGranted, Halt, NodeCloses, durable, link, queue,
     notices, custody, nodeLog, history
<1>5. UNCHANGED <<cursor, outbox, command, executed>> /\ acked' \in {acked} \cup 0 .. cursor /\ Produces
  <2>1. HasAuthorizationId(rec[r]) /\ UNCHANGED rec
    BY DEF Inv, WorkOK, NodeGranted, durable
  <2>2. Produces
    BY <2>1, NodeClosesTypes DEF NodeGranted, Halt, Produces, WorkPlace, WorkRequest
  <2> QED BY <2>2 DEF NodeGranted, durable, nodeLog, history
<1> QED BY <1>1, <1>2, <1>3, <1>4, <1>5, Frame

LEMMA WorkerFailsInv ==
    ASSUME Inv, NEW r \in Requests, WorkerFails(r)
    PROVE  Inv'
<1>1. RecOK' /\ Evolves
  BY Rereads DEF WorkerFails, durable
<1>2. QueueOK'
  BY DEF Inv, QueueOK, WorkerFails, durable, gateway
<1>3. NodeOK'
  <2>1. NoWork \in WorkPlaces \X (Requests \cup {NoRequest}) \X Connections
    BY DEF NoWork, WorkPlaces, NoConn, Connections
  <2> QED BY <2>1 DEF Inv, NodeOK, WorkerFails, ProducerEnds, history
<1>4. Harmless /\ Handled
  BY DEF Harmless, Handled, WorkerFails, ProducerEnds, durable, gateway, messages,
     nodeLog, history
<1>5. UNCHANGED <<cursor, outbox, command, executed>> /\ acked' \in {acked} \cup 0 .. cursor /\ Produces
  BY DEF WorkerFails, ProducerEnds, durable, gateway, messages, nodeLog, history,
     Produces, Producing, WorkPlace, NoWork
<1> QED BY <1>1, <1>2, <1>3, <1>4, <1>5, Frame

-----------------------------------------------------------------------------
(* Receipt custody.                                                        *)

(* The receipt being applied is the next one, of a bound request, and its  *)
(* record stays sound with it.                                             *)
LEMMA AppliedReceipt ==
    ASSUME NEW v \in NodeRecords, RecordSound(v), Bound(v),
           NEW s \in Stages \ {"none"}, NEW n \in Nat \ {0}, MayApply(v, v.conn, s, n)
    PROVE  /\ ApplyReceipt(v, s, n) \in NodeRecords /\ RecordSound(ApplyReceipt(v, s, n))
           /\ HasAuthorizationId(v) => HasAuthorizationId(ApplyReceipt(v, s, n))
           /\ ApplyReceipt(v, s, n).seq = n /\ ApplyReceipt(v, s, n).stage = s
<1>1. CASE n = v.seq
  BY <1>1 DEF MayApply, ApplyReceipt, NodeRecords
<1>2. CASE n # v.seq
  <2>1. v.stage # "terminal" /\ v.state # "completed"
    BY <1>2 DEF MayApply, RecordSound
  <2>2. v.auth # "none"
    BY DEF RecordSound
  <2>3. CASE s = "prepared"
    <3>1. ApplyReceipt(v, s, n) = [v EXCEPT !.seq = n, !.stage = s]
      BY <1>2, <2>3 DEF ApplyReceipt, NodeRecords
    <3>2. [v EXCEPT !.seq = n, !.stage = s] \in NodeRecords
      BY DEF NodeRecords
    <3> QED BY <2>1, <2>2, <3>1, <3>2 DEF RecordSound, NodeRecords, Bound, HasAuthorizationId, NoConn
  <2>4. CASE s = "effect-intent"
    <3>1. ApplyReceipt(v, s, n) = [v EXCEPT !.seq = n, !.stage = s, !.auth = "uncertain"]
      BY <1>2, <2>4 DEF ApplyReceipt, NodeRecords
    <3>2. [v EXCEPT !.seq = n, !.stage = s, !.auth = "uncertain"] \in NodeRecords
      BY DEF NodeRecords
    <3> QED BY <2>1, <2>2, <3>1, <3>2 DEF RecordSound, NodeRecords, Bound, HasAuthorizationId, NoConn
  <2>5. CASE s = "terminal"
    <3>1. ApplyReceipt(v, s, n) = [v EXCEPT !.seq = n, !.stage = s, !.auth = "terminal"]
      BY <1>2, <2>5 DEF ApplyReceipt, NodeRecords
    <3>2. [v EXCEPT !.seq = n, !.stage = s, !.auth = "terminal"] \in NodeRecords
      BY DEF NodeRecords
    <3> QED BY <2>1, <2>2, <3>1, <3>2 DEF RecordSound, NodeRecords, Bound, HasAuthorizationId, NoConn
  <2> QED BY <2>3, <2>4, <2>5 DEF Stages
<1> QED BY <1>1, <1>2

LEMMA ApplyCanonicalInv ==
    ASSUME Inv, NEW c, NEW n, ApplyCanonical(c, n)
    PROVE  Inv'
<1> DEFINE r == outbox[n][1]
<1> DEFINE s == outbox[n][2]
<1> DEFINE v == ApplyReceipt(rec[r], s, n)
<1>1. n \in 1 .. Len(outbox) /\ c \in Connections /\ n = cursor + 1
  BY DEF Inv, CustodyOK, ApplyCanonical, Acceptable
<1>2. r \in Requests /\ s \in Stages \ {"none"}
  BY <1>1 DEF Inv, LogOK
<1>3. rec[r] \in NodeRecords /\ RecordSound(rec[r]) /\ Bound(rec[r]) /\ MayApply(rec[r], rec[r].conn, s, n)
  BY <1>2 DEF Inv, RecOK, ApplyCanonical, Acceptable
<1>4. Len(outbox) \in Nat /\ n \in Nat \ {0}
  BY <1>1 DEF Inv, LogOK
<1>5. /\ v \in NodeRecords /\ RecordSound(v) /\ v.seq = n /\ v.stage = s
      /\ HasAuthorizationId(rec[r]) => HasAuthorizationId(v)
  BY <1>2, <1>3, <1>4, AppliedReceipt
<1>6. /\ rec' \in [Requests -> NodeRecords] /\ rec'[r] = v
      /\ \A q \in Requests \ {r} : rec'[q] = rec[q]
  BY <1>2, <1>5 DEF Inv, RecOK, ApplyCanonical, Write
<1>7. RecOK'
  BY <1>2, <1>5, <1>6 DEF Inv, RecOK, RecordSound
<1>8. \A q \in Requests : HasAuthorizationId(rec[q]) => HasAuthorizationId(rec'[q])
  BY <1>5, <1>6
<1>9. QueueOK'
  <2>1. fresh' \in [Requests -> BOOLEAN]
    BY <1>2 DEF Inv, QueueOK, ApplyCanonical
  <2> QED BY <2>1 DEF Inv, QueueOK, ApplyCanonical, link, notices
<1>10. NodeOK'
  BY DEF Inv, NodeOK, ApplyCanonical, node, history
<1>11. LogOK'
  BY DEF Inv, LogOK, ApplyCanonical, nodeLog, history
<1>12. CustodyOK'
  <2>1. UNCHANGED <<cursor, acked, outbox, toNode>> /\ committing' = <<c, n>> /\ inhand' \subseteq inhand
    BY DEF ApplyCanonical, nodeLog, messages
  <2>2. \A m \in 1 .. cursor : outbox[m][1] \in Requests /\ rec'[outbox[m][1]].seq >= m
    <3> SUFFICES ASSUME NEW m \in 1 .. cursor
                 PROVE  outbox[m][1] \in Requests /\ rec'[outbox[m][1]].seq >= m
      OBVIOUS
    <3>1. m \in 1 .. Len(outbox) /\ outbox[m][1] \in Requests
      BY <1>1, <1>4 DEF Inv, LogOK, CustodyOK
    <3>2. rec[outbox[m][1]].seq >= m
      BY DEF Inv, CustodyOK, CustodyApplied
    <3>3. CASE outbox[m][1] = r
      BY <1>1, <1>5, <1>6, <3>1, <3>3 DEF Inv, CustodyOK
    <3> QED BY <1>6, <3>1, <3>2, <3>3
  <2>3. \A q \in Requests :
          rec'[q].seq > 0 =>
            /\ rec'[q].seq <= cursor + 1 /\ rec'[q].seq <= Len(outbox)
            /\ outbox[rec'[q].seq] = <<q, rec'[q].stage>>
    <3> SUFFICES ASSUME NEW q \in Requests, rec'[q].seq > 0
                 PROVE  /\ rec'[q].seq <= cursor + 1 /\ rec'[q].seq <= Len(outbox)
                        /\ outbox[rec'[q].seq] = <<q, rec'[q].stage>>
      OBVIOUS
    <3>1. outbox[n] \in Requests \X Stages
      BY <1>1 DEF Inv, LogOK
    <3>2. outbox[n] = <<r, s>>
      BY <3>1
    <3>3. CASE q = r
      BY <1>1, <1>4, <1>5, <1>6, <3>2, <3>3 DEF Inv, CustodyOK
    <3>4. CASE q # r
      BY <1>6, <3>4 DEF Inv, CustodyOK, CustodyApplied
    <3> QED BY <3>3, <3>4
  <2>4. CustodyApplied'
    BY <2>1, <2>2, <2>3 DEF Inv, CustodyOK, CustodyApplied
  <2>5. committing' \in Connections \X Nat /\ committing'[2] = cursor + 1
    BY <1>1, <1>4, <2>1
  <2> QED BY <1>1, <1>5, <1>6, <2>1, <2>4, <2>5 DEF Inv, CustodyOK
<1>13. WorkOK'
  <2>1. UNCHANGED <<toNode, work, command, executed>>
    BY DEF ApplyCanonical, messages, node, nodeLog, history
  <2> QED BY <1>8, <2>1 DEF Inv, WorkOK, Producing, WorkPlace, WorkRequest
<1> QED BY <1>7, <1>9, <1>10, <1>11, <1>12, <1>13 DEF Inv

LEMMA CommitCursorInv ==
    ASSUME Inv, CommitCursor
    PROVE  Inv'
<1>1. /\ cursor' = cursor + 1 /\ cursor' = committing[2] /\ cursor' <= Len(outbox)
      /\ rec[outbox[cursor + 1][1]].seq = cursor + 1
  BY DEF Inv, CustodyOK, CommitCursor
<1>2. UNCHANGED <<rec, outbox, acked, inhand, command, executed, work>> /\ committing' = NoReceipt
  BY DEF CommitCursor, nodeLog, node, history
<1>3. \A m \in toNode' : m \in toNode \/ m = <<"ack", cursor'>>
  BY <1>1 DEF CommitCursor, Acknowledge, ToNode
<1>4. RecOK'
  BY <1>2, Rereads
<1>5. QueueOK'
  BY NotifyTypes DEF Inv, QueueOK, CommitCursor, link, queue
<1>6. NodeOK'
  BY DEF Inv, NodeOK, CommitCursor, node, history
<1>7. LogOK'
  BY <1>2 DEF Inv, LogOK
<1>8. CustodyOK'
  <2>1. CustodyApplied'
    <3>1. cursor \in Nat /\ acked \in Nat /\ Len(outbox) \in Nat
      BY DEF Inv, CustodyOK, LogOK
    <3>2. acked' <= cursor' /\ cursor' <= Len(outbox')
      BY <1>1, <1>2, <3>1 DEF Inv, CustodyOK, CustodyApplied
    <3>3. \A m \in 1 .. cursor : rec[outbox[m][1]].seq >= m
      BY DEF Inv, CustodyOK, CustodyApplied
    <3>4. \A m \in 1 .. cursor + 1 : rec[outbox[m][1]].seq >= m
      BY <1>1, <3>1, <3>3
    <3>5. \A q \in Requests : rec[q].seq \in Nat
      BY DEF Inv, RecOK, NodeRecords
    <3>6. \A q \in Requests :
            rec[q].seq > 0 =>
              /\ rec[q].seq <= cursor + 2 /\ rec[q].seq <= Len(outbox)
              /\ outbox[rec[q].seq] = <<q, rec[q].stage>>
      BY <3>1, <3>5 DEF Inv, CustodyOK, CustodyApplied
    <3> QED BY <1>1, <1>2, <3>1, <3>2, <3>4, <3>5, <3>6 DEF CustodyApplied
  <2>2. \A m \in toNode' : m[1] = "ack" => m[2] \in Nat /\ m[2] <= cursor'
    BY <1>1, <1>3 DEF Inv, CustodyOK
  <2>3. cursor' \in Nat /\ committing' \in Connections \X Nat
    BY <1>1, <1>2 DEF Inv, CustodyOK, NoReceipt, NoConn, Connections
  <2> QED BY <1>2, <2>1, <2>2, <2>3 DEF Inv, CustodyOK
<1>9. WorkOK'
  <2>1. \A m \in toNode' : m[1] = "granted" => m[2] \in Requests /\ HasAuthorizationId(rec[m[2]])
    BY <1>3 DEF Inv, WorkOK
  <2> QED BY <1>2, <2>1 DEF Inv, WorkOK, Producing, WorkPlace, WorkRequest
<1> QED BY <1>4, <1>5, <1>6, <1>7, <1>8, <1>9 DEF Inv

-----------------------------------------------------------------------------
(* The producer.                                                           *)

(* A receipt of a request whose row is not terminal is added to the log.   *)
LEMMA LogGrows ==
    ASSUME Inv, NEW r \in Requests, NEW s \in Stages \ {"none"}, LogReceipt(r, s),
           command[r] # "terminal", executed' \in [Requests -> Nat],
           UNCHANGED <<rec, cursor, acked, inhand, committing, toNode>>
    PROVE  /\ LogOK' /\ CustodyOK'
           /\ command'[r] = s /\ \A q \in Requests \ {r} : command'[q] = command[q]
<1>1. /\ command' \in [Requests -> Stages] /\ command'[r] = s
      /\ \A q \in Requests \ {r} : command'[q] = command[q]
  BY DEF Inv, LogOK, LogReceipt
<1>2. Len(outbox) \in Nat /\ outbox \in Seq(Requests \X Stages) /\ <<r, s>> \in Requests \X Stages
  BY DEF Inv, LogOK
<1>3. /\ outbox' \in Seq(Requests \X Stages) /\ Len(outbox') = Len(outbox) + 1
      /\ \A k \in 1 .. Len(outbox) : outbox'[k] = outbox[k]
      /\ outbox'[Len(outbox) + 1] = <<r, s>>
  BY <1>2 DEF LogReceipt
<1>4. LogOK'
  <2> SUFFICES ASSUME NEW k \in 1 .. Len(outbox')
               PROVE  outbox'[k][2] # "none" /\ (outbox'[k][2] = "terminal" => command'[outbox'[k][1]] = "terminal")
    BY <1>1, <1>3 DEF LogOK
  <2>1. CASE k = Len(outbox) + 1
    BY <1>1, <1>3, <2>1
  <2>2. CASE k \in 1 .. Len(outbox)
    <3>1. outbox[k][1] \in Requests
      BY <1>2, <2>2
    <3> QED BY <1>1, <1>3, <2>2, <3>1 DEF Inv, LogOK
  <2> QED BY <1>2, <1>3, <2>1, <2>2
<1>5. CustodyOK'
  <2>1. cursor \in Nat /\ cursor <= Len(outbox)
    BY DEF Inv, CustodyOK, CustodyApplied
  <2>2. \A m \in 1 .. cursor : outbox'[m] = outbox[m]
    BY SMTT(30), <1>2, <1>3, <2>1
  <2>3. \A q \in Requests : rec[q].seq \in Nat
    BY DEF Inv, RecOK, NodeRecords
  <2>4. \A q \in Requests :
          rec[q].seq > 0 => rec[q].seq <= Len(outbox') /\ outbox'[rec[q].seq] = outbox[rec[q].seq]
    <3>1. \A q \in Requests : rec[q].seq > 0 => rec[q].seq <= Len(outbox)
      BY DEF Inv, CustodyOK, CustodyApplied
    <3> SUFFICES ASSUME NEW q \in Requests, rec[q].seq > 0
                 PROVE  rec[q].seq <= Len(outbox') /\ outbox'[rec[q].seq] = outbox[rec[q].seq]
      OBVIOUS
    <3> DEFINE k == rec[q].seq
    <3>2. k \in Nat /\ k > 0 /\ k <= Len(outbox)
      BY <2>3, <3>1
    <3> HIDE DEF k
    <3>3. k \in 1 .. Len(outbox) /\ k <= Len(outbox')
      BY <1>2, <1>3, <3>2
    <3> QED BY <1>3, <3>3 DEF k
  <2>5. CustodyApplied'
    <3>1. acked <= cursor /\ cursor <= Len(outbox')
      BY <1>2, <1>3, <2>1 DEF Inv, CustodyOK, CustodyApplied
    <3>2. \A m \in 1 .. cursor : rec[outbox'[m][1]].seq >= m
      BY <2>2 DEF Inv, CustodyOK, CustodyApplied
    <3>3. \A q \in Requests :
            rec[q].seq > 0 => rec[q].seq <= cursor + 1 /\ outbox'[rec[q].seq] = <<q, rec[q].stage>>
      BY <2>4 DEF Inv, CustodyOK, CustodyApplied
    <3> QED BY <2>4, <3>1, <3>2, <3>3 DEF CustodyApplied
  <2>6. \A i \in inhand : i[2] \in 1 .. Len(outbox')
    BY <1>2, <1>3 DEF Inv, CustodyOK
  <2>7. committing # NoReceipt =>
          /\ committing[2] = cursor + 1 /\ committing[2] <= Len(outbox')
          /\ rec[outbox'[committing[2]][1]].seq = committing[2]
    BY SMTT(30), <1>2, <1>3, <2>1 DEF Inv, CustodyOK
  <2> QED BY <2>5, <2>6, <2>7 DEF Inv, CustodyOK
<1> QED BY <1>1, <1>4, <1>5

LEMMA ProducerPrepareInv ==
    ASSUME Inv, NEW r \in Requests, ProducerPrepare(r)
    PROVE  Inv'
<1>1. UNCHANGED <<rec, cursor, acked, inhand, committing, toNode, executed>>
  BY DEF ProducerPrepare, durable, gateway, messages, history
<1>2. RecOK' /\ QueueOK'
  BY <1>1, Rereads DEF Inv, QueueOK, ProducerPrepare, durable, gateway
<1>3. HasAuthorizationId(rec[r]) /\ WorkRequest = r
  BY DEF Inv, WorkOK, ProducerPrepare, Producing
<1>4. CASE MayRun(r)
  <2>1. work' = [work EXCEPT ![1] = "intent"] /\ UNCHANGED <<bound, hinted>>
    BY <1>4 DEF ProducerPrepare
  <2>2. work' = <<"intent", r, work[3]>>
    BY <1>3, <2>1 DEF Inv, NodeOK, WorkRequest
  <2>3. NodeOK'
    BY <2>1, <2>2 DEF Inv, NodeOK, ProducerPrepare, history, WorkPlaces
  <2>4. /\ LogOK' /\ CustodyOK' /\ command'[r] = "prepared"
        /\ \A q \in Requests \ {r} : command'[q] = command[q]
    <3>1. CASE command[r] = "none"
      <4>1. LogReceipt(r, "prepared")
        BY <1>4, <3>1 DEF ProducerPrepare
      <4> QED BY <1>1, <3>1, <4>1, LogGrows DEF Inv, LogOK, Stages
    <3>2. CASE command[r] # "none"
      <4>1. UNCHANGED <<outbox, command>> /\ command[r] = "prepared"
        BY <1>4, <3>2 DEF ProducerPrepare, MayRun
      <4> QED BY <1>1, <4>1 DEF Inv, LogOK, CustodyOK, CustodyApplied
    <3> QED BY <3>1, <3>2
  <2>5. executed[r] = 0
    BY <1>4 DEF Inv, WorkOK, MayRun
  <2>6. WorkOK'
    BY <1>1, <1>3, <2>2, <2>4, <2>5 DEF Inv, WorkOK, Producing, WorkPlace, WorkRequest
  <2> QED BY <1>2, <2>3, <2>4, <2>6 DEF Inv
<1>5. CASE ~ MayRun(r)
  <2>1. ProducerEnds /\ UNCHANGED <<outbox, command>>
    BY <1>5 DEF ProducerPrepare
  <2>2. NoWork \in WorkPlaces \X (Requests \cup {NoRequest}) \X Connections
    BY DEF NoWork, WorkPlaces, NoConn, Connections
  <2>3. NodeOK'
    BY <2>1, <2>2 DEF Inv, NodeOK, ProducerPrepare, ProducerEnds, history
  <2>4. LogOK' /\ CustodyOK'
    BY <1>1, <2>1 DEF Inv, LogOK, CustodyOK, CustodyApplied
  <2>5. WorkOK'
    BY <1>1, <2>1 DEF Inv, WorkOK, Producing, WorkPlace, WorkRequest, ProducerEnds, NoWork
  <2> QED BY <1>2, <2>3, <2>4, <2>5 DEF Inv
<1> QED BY <1>4, <1>5

LEMMA ProducerIntentInv ==
    ASSUME Inv, NEW r \in Requests, ProducerIntent(r)
    PROVE  Inv'
<1>1. UNCHANGED <<rec, cursor, acked, inhand, committing, toNode, executed>>
  BY DEF ProducerIntent, durable, gateway, messages, history
<1>2. RecOK' /\ QueueOK'
  BY <1>1, Rereads DEF Inv, QueueOK, ProducerIntent, durable, gateway
<1>3. HasAuthorizationId(rec[r]) /\ command[r] = "prepared" /\ executed[r] = 0
  BY DEF Inv, WorkOK, LogOK, ProducerIntent, Producing
<1>4. work' = <<"run", r, work[3]>>
  BY DEF Inv, NodeOK, WorkRequest, ProducerIntent
<1>5. NodeOK'
  BY <1>4 DEF Inv, NodeOK, ProducerIntent, history, WorkPlaces
<1>6. /\ LogOK' /\ CustodyOK' /\ command'[r] = "effect-intent"
      /\ \A q \in Requests \ {r} : command'[q] = command[q]
  BY <1>1, <1>3, LogGrows DEF Inv, LogOK, Stages, ProducerIntent
<1>7. WorkOK'
  BY <1>1, <1>3, <1>4, <1>6 DEF Inv, WorkOK, Producing, WorkPlace, WorkRequest
<1> QED BY <1>2, <1>5, <1>6, <1>7 DEF Inv

LEMMA ExecuteInv ==
    ASSUME Inv, NEW r \in Requests, Execute(r)
    PROVE  Inv'
<1>1. UNCHANGED <<rec, cursor, outbox, command, acked, inhand, committing, toNode>>
  BY DEF Execute, durable, gateway, messages, nodeLog
<1>2. RecOK' /\ QueueOK'
  BY <1>1, Rereads DEF Inv, QueueOK, Execute, durable, gateway
<1>3. HasAuthorizationId(rec[r]) /\ command[r] = "effect-intent" /\ executed[r] = 0
  BY DEF Inv, WorkOK, Execute, Producing
<1>4. work' = <<"execute", r, work[3]>>
  BY DEF Inv, NodeOK, WorkRequest, Execute
<1>5. NodeOK'
  BY <1>4 DEF Inv, NodeOK, Execute, WorkPlaces
<1>6. /\ executed' \in [Requests -> Nat] /\ executed'[r] = 1
      /\ \A q \in Requests \ {r} : executed'[q] = executed[q]
  BY <1>3 DEF Inv, LogOK, Execute
<1>7. LogOK' /\ CustodyOK'
  BY <1>1, <1>6 DEF Inv, LogOK, CustodyOK, CustodyApplied
<1>8. WorkOK'
  BY <1>1, <1>3, <1>4, <1>6 DEF Inv, WorkOK, Producing, WorkPlace, WorkRequest
<1> QED BY <1>2, <1>5, <1>7, <1>8 DEF Inv

LEMMA WorkerFinishInv ==
    ASSUME Inv, NEW r \in Requests, WorkerFinish(r)
    PROVE  Inv'
<1>1. UNCHANGED <<rec, cursor, acked, inhand, committing, toNode, executed>> /\ work' = NoWork
  BY DEF WorkerFinish, durable, gateway, messages, history, ProducerEnds
<1>2. RecOK' /\ QueueOK'
  BY <1>1, Rereads DEF Inv, QueueOK, WorkerFinish, durable, gateway
<1>3. HasAuthorizationId(rec[r]) /\ command[r] = "effect-intent" /\ executed[r] = 1
  BY DEF Inv, WorkOK, WorkerFinish, Producing
<1>4. NoWork \in WorkPlaces \X (Requests \cup {NoRequest}) \X Connections
  BY DEF NoWork, WorkPlaces, NoConn, Connections
<1>5. NodeOK'
  BY <1>1, <1>4 DEF Inv, NodeOK, WorkerFinish, ProducerEnds, history
<1>6. /\ LogOK' /\ CustodyOK' /\ command'[r] = "terminal"
      /\ \A q \in Requests \ {r} : command'[q] = command[q]
  BY <1>1, <1>3, LogGrows DEF Inv, LogOK, Stages, WorkerFinish
<1>7. WorkOK'
  BY <1>1, <1>3, <1>6 DEF Inv, WorkOK, Producing, WorkPlace, WorkRequest, NoWork
<1> QED BY <1>2, <1>5, <1>6, <1>7 DEF Inv

-----------------------------------------------------------------------------
(* The invariant.                                                          *)
LEMMA InitInv == Init => Inv
<1> SUFFICES ASSUME Init PROVE Inv
  OBVIOUS
<1>1. NoConn \in Connections /\ NoReceipt \in Connections \X Nat
  BY DEF NoConn, NoReceipt, Connections
<1>2. RecOK
  <2>1. AbsentRecord \in NodeRecords /\ RecordSound(AbsentRecord)
    BY <1>1 DEF AbsentRecord, NodeRecords, RecordSound, Bound, Stages
  <2> QED BY <2>1 DEF Init, RecOK, RecordSound
<1>3. QueueOK
  <2>1. job \in [Requests -> Kinds \X JobPlaces]
    BY DEF Init, Idle, Kinds, JobPlaces
  <2>2. granted \in BOOLEAN /\ drain \in BOOLEAN /\ ready \in BOOLEAN /\ wake \in BOOLEAN
    BY DEF Init
  <2>3. fresh \in [Requests -> BOOLEAN] /\ noted \in [Requests -> BOOLEAN]
    BY DEF Init
  <2>4. epoch \in Nat /\ gens \in Nat
    BY DEF Init
  <2> QED BY <1>1, <2>1, <2>2, <2>3, <2>4 DEF Init, QueueOK
<1>4. NodeOK
  <2>1. NoWork \in WorkPlaces \X (Requests \cup {NoRequest}) \X Connections
    BY <1>1 DEF NoWork, WorkPlaces
  <2>2. nodeDrain \in BOOLEAN /\ halted \in BOOLEAN /\ hinted \in BOOLEAN
    BY DEF Init
  <2>3. nodeEpoch \in Nat /\ faults \in Nat /\ missed \in [Requests -> BOOLEAN]
    BY DEF Init
  <2> QED BY <1>1, <2>1, <2>2, <2>3 DEF Init, NodeOK
<1>5. LogOK
  BY DEF Init, LogOK, Stages
<1>6. CustodyOK
  BY <1>1 DEF Init, CustodyOK, CustodyApplied, AbsentRecord
<1>7. WorkOK
  BY DEF Init, WorkOK, Producing, WorkPlace, NoWork
<1> QED BY <1>2, <1>3, <1>4, <1>5, <1>6, <1>7 DEF Inv

LEMMA StutterInv ==
    ASSUME Inv, UNCHANGED dispatchVars
    PROVE  Inv'
<1>1. RecOK' /\ QueueOK'
  BY Rereads DEF Inv, QueueOK, dispatchVars
<1>2. NodeOK'
  BY DEF Inv, NodeOK, dispatchVars
<1>3. Evolves /\ Harmless /\ Handled /\ Produces
  BY Rereads DEF dispatchVars, Harmless, Handled, Produces
<1> QED BY <1>1, <1>2, <1>3, Frame DEF dispatchVars

LEMMA StepInv == Inv /\ [Next]_dispatchVars => Inv'
<1> SUFFICES ASSUME Inv, [Next]_dispatchVars PROVE Inv'
  OBVIOUS
<1>1. CASE \E r \in Requests : Submit(r) \/ Cancel(r)
  BY <1>1, SubmitInv, CancelInv
<1>2. CASE WakeNode
  BY <1>2, WakeNodeInv
<1>3. CASE QueueStep
  BY <1>3, StartFreshInv, StartObserverInv, DeferReadInv, DeferWriteInv DEF QueueStep
<1>4. CASE RunnerStep
  BY <1>4, SendPrepareInv, PrepareNotSentInv, BindPreparedInv, PrepareRejectedInv, PrepareLostInv,
     SendCommandInv, ObserveFenceInv, ObserveFetchInv, ObservePublishInv,
     ObserveFailsInv, ObserveDeferInv, AuthorizeEffectInv
     DEF RunnerStep
<1>5. CASE CustodyStep
  BY <1>5, TakeReceiptInv, AcceptDuplicateInv, ApplyCanonicalInv, RefuseReceiptInv,
     CommitCursorInv, CursorFailsInv, GatewayReadyInv DEF CustodyStep
<1>6. CASE LinkStep
  BY <1>6, RevokeInv, RefreshCapabilityInv, ConnectInv, GatewayDropsInv, NodeDropsInv,
     GatewayNoticesInv, NodeNoticesInv, GatewayRestartInv, NodeRestartInv DEF LinkStep
<1>7. CASE NodeStep
  BY <1>7, NodePrepareInv, NodeRejectsInv, NodeCommandInv, NodeGrantedInv, NodeDeniedInv,
     ProducerPrepareInv, ProducerIntentInv, ExecuteInv, WorkerFinishInv, WorkerFailsInv,
     LearnDrainInv, ResumeInv, SendReceiptInv, SenderHandoffInv, SendReadyInv, NodeAckInv
     DEF NodeStep
<1>8. CASE UNCHANGED dispatchVars
  BY <1>8, StutterInv
<1> QED BY <1>1, <1>2, <1>3, <1>4, <1>5, <1>6, <1>7, <1>8 DEF Next

LEMMA AlwaysInv == Spec => []Inv
<1> QED BY InitInv, StepInv, PTL DEF Spec

(* The records, queues, receipts, messages and both processes keep their   *)
(* types, for any number of requests, gateways, connections and faults.    *)
THEOREM NodeTypes == Spec => []NodeTypeOK
<1>1. Inv => NodeTypeOK
  BY DEF Inv, RecOK, QueueOK, NodeOK, LogOK, CustodyOK, NodeTypeOK
<1> QED BY <1>1, AlwaysInv, PTL

(* A terminal record has a terminal receipt in the log, so a command the   *)
(* node has begun and not finished is not terminal in its record.          *)
LEMMA TerminalInLog ==
    ASSUME Inv, NEW r \in Requests, rec[r].stage = "terminal"
    PROVE  command[r] = "terminal"
<1>1. rec[r].seq \in Nat /\ rec[r].seq # 0
  BY DEF Inv, RecOK, RecordSound, NodeRecords
<1>2. rec[r].seq \in 1 .. Len(outbox) /\ outbox[rec[r].seq] = <<r, "terminal">>
  BY SMTT(30), <1>1 DEF Inv, CustodyOK, CustodyApplied, LogOK
<1> QED BY <1>2 DEF Inv, LogOK

(* A command the node has begun and not finished keeps the node occupied   *)
(* in the gateway's records (occupancy.record_holds_node), whatever is     *)
(* lost, refused or restarted.                                             *)
THEOREM CapacityIsKept == Spec => []CapacityKept
<1>1. Inv => CapacityKept
  <2> SUFFICES ASSUME Inv, NEW r \in Requests, command[r] \in {"prepared", "effect-intent"}
               PROVE  RecordHoldsNode(rec[r])
    BY DEF CapacityKept, PendingCommands
  <2>1. HasAuthorizationId(rec[r])
    BY DEF Inv, WorkOK
  <2>2. rec[r].stage # "terminal"
    BY TerminalInLog
  <2>3. Bound(rec[r])
    BY <2>1 DEF Inv, RecOK, RecordSound, HasAuthorizationId
  <2> QED BY <2>1, <2>2, <2>3 DEF RecordHoldsNode, HasAuthorizationId
<1> QED BY <1>1, AlwaysInv, PTL

(* A command fenced as no-effect (fence_node_dispatch_no_effect) was never *)
(* run and cannot be any more.                                             *)
THEOREM NoEffectIsHonest == Spec => []NoEffectHonest
<1>1. Inv => NoEffectHonest
  <2> SUFFICES ASSUME Inv, NEW r \in Requests, rec[r].auth = "no-effect"
               PROVE  /\ executed[r] = 0 /\ command[r] = "none"
                      /\ <<"granted", r>> \notin toNode /\ ~ (Producing /\ WorkRequest = r)
    BY DEF NoEffectHonest
  <2>1. ~ HasAuthorizationId(rec[r])
    BY DEF HasAuthorizationId
  <2>2. command[r] = "none" /\ executed[r] = 0
    BY <2>1 DEF Inv, WorkOK
  <2>3. <<"granted", r>> \notin toNode
    BY <2>1 DEF Inv, WorkOK
  <2> QED BY <2>1, <2>2, <2>3 DEF Inv, WorkOK
<1> QED BY <1>1, AlwaysInv, PTL

(* Receipt custody (NodeReceiptCheckpoints.accept): every receipt at or    *)
(* below the cursor is in its record, and no record is more than one       *)
(* receipt ahead of it.                                                    *)
THEOREM CustodyIsApplied == Spec => []CustodyApplied
<1>1. Inv => CustodyApplied
  BY DEF Inv, CustodyOK
<1> QED BY <1>1, AlwaysInv, PTL

-----------------------------------------------------------------------------
(* The refinement of NodeEffect.  What the mapping reads of a record.      *)
SameEffect(u, v) ==
    /\ u.state = "completed" <=> v.state = "completed"
    /\ HasAuthorizationId(u) <=> HasAuthorizationId(v)
    /\ u.auth = "no-effect" <=> v.auth = "no-effect"

(* A step the abstract specification does not see.                         *)
Silent ==
    /\ \A q \in Requests : SameEffect(rec[q], rec'[q])
    /\ \A q \in Requests : command[q] = "terminal" <=> command'[q] = "terminal"
    /\ UNCHANGED executed

LEMMA SilentStutters ==
    ASSUME Silent
    PROVE  UNCHANGED effectOf
BY DEF Silent, SameEffect, effectOf

LEMMA UnreadStutters ==
    ASSUME UNCHANGED <<rec, command, executed>>
    PROVE  UNCHANGED effectOf
BY DEF effectOf

(* One record is written, and the log and the history are not.             *)
LEMMA WriteStutters ==
    ASSUME Inv, NEW r \in Requests, NEW v, Write(r, v), SameEffect(rec[r], v),
           UNCHANGED <<command, executed>>
    PROVE  UNCHANGED effectOf
<1>1. \A q \in Requests : rec'[q] = IF q = r THEN v ELSE rec[q]
  BY DEF Inv, RecOK, Write
<1>2. Silent
  BY <1>1 DEF Silent, SameEffect
<1> QED BY <1>2, SilentStutters

(* The mapping at one request.                                             *)
LEMMA EffectNone ==
    ASSUME Inv, NEW r \in Requests, rec[r].auth \in {"none", "not-authorized"}
    PROVE  effectOf[r] = "none"
BY DEF Inv, RecOK, RecordSound, WorkOK, HasAuthorizationId, effectOf

(* An abstract step changes the effect of one request.                     *)
LEMMA EffectMoves ==
    ASSUME NEW r \in Requests,
           \A q \in Requests \ {r} : effectOf'[q] = effectOf[q]
    PROVE  effectOf' = [effectOf EXCEPT ![r] = effectOf'[r]]
<1>1. effectOf = [q \in Requests |-> effectOf[q]] /\ effectOf' = [q \in Requests |-> effectOf'[q]]
  BY DEF effectOf
<1> QED BY <1>1

(* A record that is granted and not finished holds the node.               *)
LEMMA GrantHoldsNode ==
    ASSUME Inv, NEW q \in Requests, effectOf[q] \in {"granted", "started"}
    PROVE  RecordHoldsNode(rec[q])
<1>1. command[q] # "terminal" /\ HasAuthorizationId(rec[q])
  BY DEF Inv, WorkOK, LogOK, effectOf
<1>2. rec[q].stage # "terminal"
  BY <1>1, TerminalInLog
<1>3. Bound(rec[q])
  BY <1>1 DEF Inv, RecOK, RecordSound, HasAuthorizationId
<1> QED BY <1>1, <1>2, <1>3 DEF RecordHoldsNode, HasAuthorizationId

LEMMA AuthorizeRefines ==
    ASSUME Inv, Inv', NEW r \in Requests, AuthorizeEffect(r)
    PROVE  Effect!Grant(r) \/ UNCHANGED effectOf
<1>1. UNCHANGED <<command, executed>>
  BY DEF AuthorizeEffect, nodeLog, history
<1>2. CASE UNCHANGED rec
  BY <1>1, <1>2, UnreadStutters
<1>3. CASE /\ Write(r, AuthorizeDispatch(rec[r])) /\ ~ Occupied(r)
           /\ MayAuthorize(rec[r], epoch, slot)
  <2>1. CASE rec[r].auth = "authorized"
    <3>1. AuthorizeDispatch(rec[r]) = rec[r]
      BY <2>1 DEF Inv, RecOK, NodeRecords, AuthorizeDispatch
    <3> QED BY <1>1, <1>3, <3>1, WriteStutters DEF SameEffect
  <2>2. CASE rec[r].auth = "not-authorized"
    <3>1. effectOf[r] = "none"
      BY <2>2, EffectNone
    <3>2. \A q \in Requests : effectOf[q] \notin {"granted", "started"}
      BY <1>3, <3>1, GrantHoldsNode DEF Occupied
    <3>3. rec'[r] = AuthorizeDispatch(rec[r]) /\ \A q \in Requests \ {r} : rec'[q] = rec[q]
      BY <1>3 DEF Inv, RecOK, Write
    <3>4. rec'[r].auth = "authorized" /\ rec'[r].state = "running"
      BY <1>3, <3>3 DEF Inv, RecOK, NodeRecords, AuthorizeDispatch, MayAuthorize, FreshEffect
    <3>5. command[r] = "none" /\ executed[r] = 0
      BY <2>2 DEF Inv, WorkOK, HasAuthorizationId
    <3>6. effectOf'[r] = "granted" /\ \A q \in Requests \ {r} : effectOf'[q] = effectOf[q]
      BY <1>1, <3>3, <3>4, <3>5 DEF effectOf, HasAuthorizationId
    <3> QED BY <3>1, <3>2, <3>6, EffectMoves DEF Effect!Grant, Effect!Advance
  <2> QED BY <1>3, <2>1, <2>2 DEF MayAuthorize
<1> QED BY <1>2, <1>3 DEF AuthorizeEffect

LEMMA FenceRefines ==
    ASSUME Inv, NEW r \in Requests, ObserveFence(r)
    PROVE  Effect!Deny(r)
<1>1. UNCHANGED <<command, executed>> /\ rec[r].auth = "not-authorized"
  BY DEF ObserveFence, nodeLog, history, MayFenceNow, MayFence
<1>2. effectOf[r] = "none"
  BY <1>1, EffectNone
<1>3. rec'[r] = FenceDispatch(rec[r]) /\ \A q \in Requests \ {r} : rec'[q] = rec[q]
  BY DEF Inv, RecOK, Write, ObserveFence
<1>4. rec'[r].auth = "no-effect" /\ rec'[r].state # "completed"
  BY <1>1, <1>3 DEF Inv, RecOK, RecordSound, NodeRecords, FenceDispatch
<1>5. command[r] = "none" /\ executed[r] = 0
  BY <1>1 DEF Inv, WorkOK, HasAuthorizationId
<1>6. effectOf'[r] = "denied" /\ \A q \in Requests \ {r} : effectOf'[q] = effectOf[q]
  BY <1>1, <1>3, <1>4, <1>5 DEF effectOf, HasAuthorizationId
<1> QED BY <1>2, <1>6, EffectMoves DEF Effect!Deny, Effect!Advance

LEMMA PublishRefines ==
    ASSUME Inv, NEW r \in Requests, ObservePublish(r)
    PROVE  Effect!Publish(r) \/ UNCHANGED effectOf
<1>1. UNCHANGED <<command, executed>>
  BY DEF ObservePublish, nodeLog
<1>2. CASE ~ (fresh[r] /\ MayPublish(rec[r], epoch))
  BY <1>1, <1>2, UnreadStutters DEF ObservePublish
<1>3. CASE fresh[r] /\ MayPublish(rec[r], epoch)
  <2>1. rec[r].state = "running" /\ rec[r].stage = "terminal"
    BY <1>3 DEF MayPublish
  <2>2. command[r] = "terminal"
    BY <2>1, TerminalInLog
  <2>3. effectOf[r] = "finished"
    BY <2>1, <2>2 DEF effectOf
  <2>4. rec'[r].state = "completed" /\ \A q \in Requests \ {r} : rec'[q] = rec[q]
    BY <1>3 DEF Inv, RecOK, NodeRecords, Write, ObservePublish
  <2>5. effectOf'[r] = "published" /\ \A q \in Requests \ {r} : effectOf'[q] = effectOf[q]
    BY <1>1, <2>4 DEF effectOf
  <2> QED BY <2>3, <2>5, EffectMoves DEF Effect!Publish, Effect!Advance
<1> QED BY <1>2, <1>3

(* A request whose row is not terminal is not published.                   *)
LEMMA OpenIsUnpublished ==
    ASSUME Inv, NEW r \in Requests, command[r] # "terminal"
    PROVE  rec[r].state # "completed"
BY TerminalInLog DEF Inv, RecOK, RecordSound

LEMMA ExecuteRefines ==
    ASSUME Inv, NEW r \in Requests, Execute(r)
    PROVE  Effect!Start(r)
<1>1. UNCHANGED <<rec, command>>
  BY DEF Execute, durable, nodeLog
<1>2. HasAuthorizationId(rec[r]) /\ command[r] = "effect-intent" /\ executed[r] = 0
  BY DEF Inv, WorkOK, Execute, Producing
<1>3. rec[r].state # "completed"
  BY <1>2, OpenIsUnpublished
<1>4. executed'[r] = 1 /\ \A q \in Requests \ {r} : executed'[q] = executed[q]
  BY <1>2 DEF Inv, LogOK, Execute
<1>5. effectOf[r] = "granted" /\ effectOf'[r] = "started"
  BY <1>1, <1>2, <1>3, <1>4 DEF effectOf
<1>6. \A q \in Requests \ {r} : effectOf'[q] = effectOf[q]
  BY <1>1, <1>4 DEF effectOf
<1> QED BY <1>5, <1>6, EffectMoves DEF Effect!Start, Effect!Advance

LEMMA FinishRefines ==
    ASSUME Inv, NEW r \in Requests, WorkerFinish(r)
    PROVE  Effect!Finish(r)
<1>1. UNCHANGED <<rec, executed>>
  BY DEF WorkerFinish, durable, history
<1>2. command[r] = "effect-intent" /\ executed[r] = 1
  BY DEF Inv, WorkOK, WorkerFinish, Producing
<1>3. rec[r].state # "completed"
  BY <1>2, OpenIsUnpublished
<1>4. command'[r] = "terminal" /\ \A q \in Requests \ {r} : command'[q] = command[q]
  BY DEF Inv, LogOK, WorkerFinish, LogReceipt
<1>5. effectOf[r] = "started" /\ effectOf'[r] = "finished"
  BY <1>1, <1>2, <1>3, <1>4 DEF effectOf
<1>6. \A q \in Requests \ {r} : effectOf'[q] = effectOf[q]
  BY <1>1, <1>4 DEF effectOf
<1> QED BY <1>5, <1>6, EffectMoves DEF Effect!Finish, Effect!Advance

(* The steps that write a record and that NodeEffect does not see.         *)
LEMMA SubmitSilent ==
    ASSUME Inv, NEW r \in Requests, Submit(r)
    PROVE  UNCHANGED effectOf
<1>1. SameEffect(rec[r], [AbsentRecord EXCEPT !.state = "queued", !.owner = epoch])
  BY DEF Inv, RecOK, RecordSound, Submit, SameEffect, AbsentRecord, HasAuthorizationId
<1> QED BY <1>1, WriteStutters DEF Submit, nodeLog, history

LEMMA CancelSilent ==
    ASSUME Inv, NEW r \in Requests, Cancel(r)
    PROVE  UNCHANGED effectOf
<1>1. SameEffect(rec[r], [rec[r] EXCEPT !.cancel = TRUE])
  BY DEF Inv, RecOK, NodeRecords, SameEffect, HasAuthorizationId
<1>2. rec[r].state = "queued" => SameEffect(rec[r], [rec[r] EXCEPT !.state = "cancelled"])
  BY DEF Inv, RecOK, NodeRecords, SameEffect, HasAuthorizationId
<1>3. CASE rec[r].state = "queued"
  BY <1>2, <1>3, WriteStutters DEF Cancel, nodeLog
<1>4. CASE rec[r].state # "queued"
  BY <1>1, <1>4, WriteStutters DEF Cancel, nodeLog
<1> QED BY <1>3, <1>4

LEMMA StartFreshSilent ==
    ASSUME Inv, NEW r \in Requests, StartFresh(r)
    PROVE  UNCHANGED effectOf
<1>1. SameEffect(rec[r], [rec[r] EXCEPT !.state = "running", !.recovery = @ /\ rec[r].state = "running"])
  BY DEF Inv, RecOK, NodeRecords, SameEffect, HasAuthorizationId, StartFresh, Unfinished
<1> QED BY <1>1, WriteStutters DEF StartFresh, nodeLog, history

LEMMA DeferWriteSilent ==
    ASSUME Inv, NEW r \in Requests, DeferWrite(r)
    PROVE  UNCHANGED effectOf
<1>1. SameEffect(rec[r], IF fresh[r] THEN Defer(rec[r]) ELSE rec[r])
  BY DEF Inv, RecOK, NodeRecords, SameEffect, HasAuthorizationId, Defer
<1> QED BY <1>1, WriteStutters DEF DeferWrite, nodeLog, history

LEMMA BindPreparedSilent ==
    ASSUME Inv, NEW r \in Requests, BindPrepared(r)
    PROVE  UNCHANGED effectOf
<1>1. CASE UNCHANGED rec
  BY <1>1, UnreadStutters DEF BindPrepared, nodeLog, history
<1>2. CASE Write(r, BindDispatch(rec[r], rconn)) /\ MayBind(rec[r], epoch)
  <2>1. SameEffect(rec[r], BindDispatch(rec[r], rconn))
    BY <1>2 DEF Inv, RecOK, RecordSound, NodeRecords, SameEffect, HasAuthorizationId, BindDispatch,
       MayBind
  <2> QED BY <1>2, <2>1, WriteStutters DEF BindPrepared, nodeLog, history
<1> QED BY <1>1, <1>2 DEF BindPrepared

LEMMA ApplyCanonicalSilent ==
    ASSUME Inv, NEW c, NEW n, ApplyCanonical(c, n)
    PROVE  UNCHANGED effectOf
<1> DEFINE r == outbox[n][1]
<1> DEFINE s == outbox[n][2]
<1>1. n \in 1 .. Len(outbox)
  BY DEF Inv, CustodyOK, ApplyCanonical
<1>2. r \in Requests /\ s \in Stages \ {"none"}
  BY <1>1 DEF Inv, LogOK
<1>3. MayApply(rec[r], rec[r].conn, s, n) /\ Write(r, ApplyReceipt(rec[r], s, n))
  BY DEF ApplyCanonical, Acceptable
<1>4. SameEffect(rec[r], ApplyReceipt(rec[r], s, n))
  <2>1. CASE n = rec[r].seq
    BY <2>1 DEF ApplyReceipt, SameEffect
  <2>2. CASE n # rec[r].seq /\ s = "prepared"
    <3>1. ApplyReceipt(rec[r], s, n) = [rec[r] EXCEPT !.seq = n, !.stage = s]
      BY <1>2, <2>2 DEF Inv, RecOK, ApplyReceipt, NodeRecords
    <3> QED BY <1>2, <3>1 DEF Inv, RecOK, NodeRecords, SameEffect, HasAuthorizationId
  <2>3. CASE n # rec[r].seq /\ s # "prepared"
    <3>1. HasAuthorizationId(rec[r])
      BY <1>3, <2>3 DEF MayApply
    <3>2. \/ ApplyReceipt(rec[r], s, n) = [rec[r] EXCEPT !.seq = n, !.stage = s, !.auth = "uncertain"]
          \/ ApplyReceipt(rec[r], s, n) = [rec[r] EXCEPT !.seq = n, !.stage = s, !.auth = "terminal"]
      BY <1>2, <2>3 DEF ApplyReceipt, Stages
    <3> QED BY <1>2, <3>1, <3>2 DEF Inv, RecOK, NodeRecords, SameEffect, HasAuthorizationId
  <2> QED BY <2>1, <2>2, <2>3
<1> QED BY <1>2, <1>3, <1>4, WriteStutters DEF ApplyCanonical, nodeLog, history

LEMMA GatewayRestartSilent ==
    ASSUME Inv, GatewayRestart
    PROVE  UNCHANGED effectOf
<1>1. \A q \in Requests : SameEffect(rec[q], Takeover(rec[q], epoch + 1))
  BY DEF Inv, RecOK, NodeRecords, SameEffect, HasAuthorizationId, Takeover
<1>2. Silent
  BY <1>1 DEF Silent, GatewayRestart, nodeLog, history
<1> QED BY <1>2, SilentStutters

LEMMA ProducerSilent ==
    ASSUME Inv, NEW r \in Requests, ProducerPrepare(r) \/ ProducerIntent(r)
    PROVE  UNCHANGED effectOf
<1>1. UNCHANGED <<rec, executed>>
  BY DEF ProducerPrepare, ProducerIntent, durable, history
<1>2. \A q \in Requests : command[q] = "terminal" <=> command'[q] = "terminal"
  <2>1. CASE ProducerPrepare(r)
    BY <2>1 DEF Inv, LogOK, ProducerPrepare, LogReceipt, MayRun
  <2>2. CASE ProducerIntent(r)
    <3>1. command[r] = "prepared"
      BY <2>2 DEF Inv, WorkOK, ProducerIntent
    <3> QED BY <2>2, <3>1 DEF Inv, LogOK, ProducerIntent, LogReceipt
  <2> QED BY <2>1, <2>2
<1>3. Silent
  BY <1>1, <1>2 DEF Silent, SameEffect
<1> QED BY <1>3, SilentStutters

(* The queue, the connection, the messages and the node's process alone.   *)
LEMMA QueueSilent ==
    ASSUME NEW r \in Requests,
           \/ StartObserver(r) \/ DeferRead(r) \/ SendPrepare(r) \/ PrepareNotSent(r)
           \/ PrepareRejected(r) \/ PrepareLost(r) \/ SendCommand(r)
           \/ ObserveFetch(r) \/ ObserveFails(r) \/ ObserveDefer(r)
    PROVE  UNCHANGED effectOf
<1>1. UNCHANGED <<rec, command, executed>>
  BY DEF StartObserver, DeferRead, SendPrepare, PrepareNotSent, PrepareRejected, PrepareLost,
     SendCommand, ObserveFetch, ObserveFails, ObserveDefer, durable, nodeLog, history
<1> QED BY <1>1, UnreadStutters

LEMMA LinkSilent ==
    ASSUME \/ WakeNode \/ Revoke \/ RefreshCapability \/ Connect \/ GatewayDrops \/ NodeDrops
           \/ GatewayNotices \/ NodeNotices \/ NodeRestart
    PROVE  UNCHANGED effectOf
<1>1. UNCHANGED <<rec, command, executed>>
  BY DEF WakeNode, Revoke, RefreshCapability, Connect, GatewayDrops, NodeDrops, GatewayNotices,
     NodeNotices, NodeRestart, durable, nodeLog, history
<1> QED BY <1>1, UnreadStutters

LEMMA CustodySilent ==
    ASSUME NEW c, NEW n,
           \/ TakeReceipt(n) \/ AcceptDuplicate(c, n) \/ RefuseReceipt(c, n)
           \/ CommitCursor \/ CursorFails \/ GatewayReady
    PROVE  UNCHANGED effectOf
<1>1. UNCHANGED <<rec, command, executed>>
  BY DEF TakeReceipt, AcceptDuplicate, RefuseReceipt, CommitCursor, CursorFails, GatewayReady,
     durable, nodeLog, history
<1> QED BY <1>1, UnreadStutters

LEMMA NodeSilent ==
    ASSUME NEW r, NEW n,
           \/ NodePrepare(r) \/ NodeRejects(r) \/ NodeCommand(r) \/ NodeGranted(r) \/ NodeDenied(r)
           \/ WorkerFails(r) \/ LearnDrain \/ Resume \/ SendReceipt \/ SenderHandoff \/ SendReady
           \/ NodeAck(n)
    PROVE  UNCHANGED effectOf
<1>1. UNCHANGED <<rec, command, executed>>
  BY DEF NodePrepare, NodeRejects, NodeCommand, NodeGranted, NodeDenied, WorkerFails, LearnDrain,
     Resume, SendReceipt, SenderHandoff, SendReady, NodeAck, durable, nodeLog, history
<1> QED BY <1>1, UnreadStutters

LEMMA StepRefines ==
    ASSUME Inv, Inv', [Next]_dispatchVars
    PROVE  Effect!EffectNext \/ UNCHANGED effectOf
<1>1. CASE \E r \in Requests : Submit(r) \/ Cancel(r)
  BY <1>1, SubmitSilent, CancelSilent
<1>2. CASE WakeNode
  BY <1>2, LinkSilent
<1>3. CASE QueueStep
  BY <1>3, StartFreshSilent, QueueSilent, DeferWriteSilent DEF QueueStep
<1>4. CASE RunnerStep
  <2>1. PICK r \in Requests :
          \/ SendPrepare(r) \/ PrepareNotSent(r) \/ BindPrepared(r) \/ PrepareRejected(r)
          \/ PrepareLost(r) \/ SendCommand(r)
          \/ ObserveFence(r) \/ ObserveFetch(r) \/ ObservePublish(r) \/ ObserveFails(r)
          \/ ObserveDefer(r) \/ AuthorizeEffect(r)
    BY <1>4 DEF RunnerStep
  <2>2. Effect!Grant(r) \/ Effect!Deny(r) \/ Effect!Publish(r) \/ UNCHANGED effectOf
    BY <2>1, QueueSilent, BindPreparedSilent, FenceRefines, PublishRefines, AuthorizeRefines
  <2> QED BY <2>2 DEF Effect!EffectNext
<1>5. CASE CustodyStep
  BY <1>5, CustodySilent, ApplyCanonicalSilent DEF CustodyStep
<1>6. CASE LinkStep
  BY <1>6, LinkSilent, GatewayRestartSilent DEF LinkStep
<1>7. CASE NodeStep
  <2>1. CASE \E r \in Requests : Execute(r) \/ WorkerFinish(r)
    BY <2>1, ExecuteRefines, FinishRefines DEF Effect!EffectNext
  <2>2. CASE ~ \E r \in Requests : Execute(r) \/ WorkerFinish(r)
    BY <1>7, <2>2, NodeSilent, ProducerSilent DEF NodeStep
  <2> QED BY <2>1, <2>2
<1>8. CASE UNCHANGED dispatchVars
  BY <1>8, UnreadStutters DEF dispatchVars
<1> QED BY <1>1, <1>2, <1>3, <1>4, <1>5, <1>6, <1>7, <1>8 DEF Next

(* Dispatch to a node implements NodeEffect: over lost connections, late   *)
(* and repeated messages and restarts of both sides the worker call of a   *)
(* request (execution_owner.run_one) happens at most once, after its grant *)
(* (authorize_owned_node_effect), one granted request of the node at a     *)
(* time, and only a finished effect is published.                          *)
THEOREM DispatchImplementsEffect == Spec => ImplementsEffect
<1>1. Init => Effect!EffectInit
  BY DEF Init, AbsentRecord, HasAuthorizationId, effectOf, Effect!EffectInit
<1>2. Inv /\ Inv' /\ [Next]_dispatchVars => [Effect!EffectNext]_effectOf
  BY StepRefines
<1> QED BY <1>1, <1>2, AlwaysInv, PTL DEF Spec, ImplementsEffect, Effect!EffectSpec

=============================================================================
