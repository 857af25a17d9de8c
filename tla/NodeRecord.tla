---------------------------- MODULE NodeRecord ----------------------------
(***************************************************************************)
(* The request record of a request that runs on an execution node: what    *)
(* the store's node functions (store/_transitions.py) read and write.      *)
(*                                                                         *)
(* A connection is named by <<gateway owner epoch, node epoch,             *)
(* generation>>.  The identity of a command is bound once and carries the  *)
(* connection it was prepared on; as a request is bound at most once, that *)
(* connection stands for the whole identity.  Digests are left out: what   *)
(* they cover never changes under one name.                                *)
(***************************************************************************)
EXTENDS Naturals

NoConn == <<0, 0, 0>>
Connections == Nat \X Nat \X Nat
GatewayOf(c) == c[1]
NodeOf(c) == c[2]
GenerationOf(c) == c[3]

Stages == {"none", "prepared", "effect-intent", "terminal"}
Rank(stage) == CASE stage = "none" -> 0
                 [] stage = "prepared" -> 1
                 [] stage = "effect-intent" -> 2
                 [] stage = "terminal" -> 3

(* recovery: of a running record recovery-required, of a queued one that   *)
(* recovery metadata was written.  conn, auth, stage and seq are           *)
(* node-dispatch; conn = NoConn when it is null.                           *)
NodeRecords ==
    [state : {"absent", "queued", "running", "completed", "cancelled"},
     owner : Nat,
     cancel : BOOLEAN,
     recovery : BOOLEAN,
     conn : Connections,
     auth : {"none", "not-authorized", "authorized", "uncertain", "terminal", "no-effect"},
     stage : Stages,
     seq : Nat]

AbsentRecord ==
    [state |-> "absent", owner |-> 0, cancel |-> FALSE, recovery |-> FALSE,
     conn |-> NoConn, auth |-> "none", stage |-> "none", seq |-> 0]

Bound(rec) == rec.conn # NoConn
HasAuthorizationId(rec) == rec.auth \in {"authorized", "uncertain", "terminal"}
Unfinished(rec) == rec.state \in {"queued", "running"}

(* Mutant: a command whose outcome is uncertain frees the node.            *)
RecordHoldsKnown(rec) == Bound(rec) /\ rec.auth \notin {"uncertain", "terminal"}

(* occupancy.record_holds_node.                                            *)
RecordHoldsNode(rec) ==
    /\ Bound(rec)
    /\ ~ (rec.auth = "terminal" /\ rec.stage = "terminal" /\ rec.seq > 0)
    /\ ~ (~ Unfinished(rec) /\ rec.auth = "not-authorized" /\ rec.stage \in {"none", "prepared"})

(* _node_fresh_effect.                                                     *)
FreshEffect(rec, owner) ==
    /\ rec.state = "running" /\ rec.owner = owner
    /\ ~ rec.cancel /\ ~ rec.recovery

(* bind_owned_node_dispatch: the first binding, of a fresh attempt or, with *)
(* resume_unbound, of a recovered one whose recovery flag it clears.       *)
MayBind(rec, owner) ==
    /\ rec.state = "running" /\ rec.owner = owner
    /\ ~ rec.cancel /\ ~ Bound(rec)

BindDispatch(rec, c) ==
    [rec EXCEPT !.conn = c, !.auth = "not-authorized", !.recovery = FALSE]

(* authorize_owned_node_effect.                                            *)
MayAuthorize(rec, owner, c) ==
    /\ FreshEffect(rec, owner)
    /\ rec.conn = c /\ GatewayOf(c) = owner
    /\ rec.auth \in {"not-authorized", "authorized"}

AuthorizeDispatch(rec) == [rec EXCEPT !.auth = "authorized"]

(* Mutant: the fence does not look at the authorization.                   *)
MayFenceBlindly(rec, owner, generation) ==
    /\ Bound(rec) /\ rec.owner = owner
    /\ GatewayOf(rec.conn) = owner
    /\ generation > GenerationOf(rec.conn)

(* fence_node_dispatch_no_effect.                                          *)
MayFence(rec, owner, generation) ==
    /\ Bound(rec) /\ rec.owner = owner /\ rec.auth = "not-authorized"
    /\ GatewayOf(rec.conn) = owner
    /\ generation > GenerationOf(rec.conn)

FenceDispatch(rec) == [rec EXCEPT !.auth = "no-effect"]

(* apply_owned_node_receipt: an exact replay of the latest receipt writes  *)
(* nothing; older ones, a stage that goes back, anything after the terminal *)
(* receipt and an effect without authorization are conflicts.              *)
MayApply(rec, c, stage, seq) ==
    /\ rec.conn = c
    /\ \/ seq = rec.seq /\ stage = rec.stage
       \/ /\ seq > rec.seq
          /\ Rank(stage) >= Rank(rec.stage) /\ rec.stage # "terminal"
          /\ stage = "prepared" \/ HasAuthorizationId(rec)

(* Mutant: a receipt without an effect is not written.                     *)
ApplyReceiptOfEffect(rec, stage, seq) ==
    IF seq = rec.seq \/ stage = "prepared"
      THEN rec
      ELSE [rec EXCEPT !.seq = seq, !.stage = stage,
              !.auth = IF stage = "terminal" THEN "terminal" ELSE "uncertain"]

ApplyReceipt(rec, stage, seq) ==
    IF seq = rec.seq
      THEN rec
      ELSE [rec EXCEPT !.seq = seq, !.stage = stage,
              !.auth = CASE stage = "prepared" -> @
                         [] stage = "effect-intent" -> "uncertain"
                         [] stage = "terminal" -> "terminal"]

(* Mutant: an uncertain effect is published like a terminal one.           *)
MayPublishUncertain(rec, owner) ==
    rec.state = "running" /\ rec.owner = owner /\ rec.auth \in {"uncertain", "terminal"}

(* publish_owned_node_terminal.                                            *)
MayPublish(rec, owner) ==
    /\ rec.state = "running" /\ rec.owner = owner
    /\ rec.auth = "terminal" /\ rec.stage = "terminal"

(* takeover_nonterminal_owner, without a new worker id for node work.      *)
Takeover(rec, owner) ==
    IF Unfinished(rec) THEN [rec EXCEPT !.owner = owner, !.recovery = TRUE] ELSE rec

(* defer_owned_recovery and defer_owned_queued_recovery.                   *)
Defer(rec) == [rec EXCEPT !.recovery = TRUE]

=============================================================================
