-------------------------- MODULE SessionPurgeProofs --------------------------
(***************************************************************************)
(* Proofs about SessionPurge, for any sessions, requests, operations and   *)
(* number of generations and failures, overlapping or not.                 *)
(*                                                                         *)
(* The invariant has a part per variable, so that an action disturbs only  *)
(* the parts of what it assigns.  FinishedMeansDone rests on the owner     *)
(* fence of finish and fail; that a deletion is never abandoned rests on   *)
(* SessionOK: a session that is being deleted is claimed.                  *)
(*                                                                         *)
(* Safe is the invariant of the race with an admission: what each pump     *)
(* that is inside a session still knows of it (HeldBy), whatever the other *)
(* pumps, the admissions and the manual purge have done since it looked.   *)
(***************************************************************************)
EXTENDS SessionPurge, WellFoundedInduction, TLAPS

OpRec == [state : {"none", "bare", "accepted", "running"} \cup Terminal, owner : Generations \cup {NoOwner}]

SessionRec ==
    [state : {"open", "closed", "gone", "erased"}, claim : Ops \cup {NoOp}, deleting : BOOLEAN,
     plan : SUBSET Requests, attached : SUBSET Requests, recent : BOOLEAN]

PumpRec ==
    [pc : Steps, todo : SUBSET Ops, op : Ops \cup {NoOp}, sessions : SUBSET Sessions,
     session : SUBSET Sessions, ids : SUBSET Requests, recent : BOOLEAN]

\* A pump at one of the other steps has claimed an operation.
Unoccupied == {"idle", "recover", "list", "next"}

SessionSound(n) ==
    /\ n \in SessionRec
    /\ n.plan # {} => n.deleting
    /\ n.deleting => n.claim # NoOp

PumpSound(n) == n \in PumpRec /\ (n.pc \in Unoccupied \/ n.op # NoOp)

OpsOK == op \in [Ops -> OpRec]

SessionOK ==
    /\ session \in [Sessions -> SessionRec]
    /\ \A s \in Sessions : SessionSound(session[s])

PumpOK ==
    /\ pump \in [Generations -> PumpRec]
    /\ \A g \in Generations : PumpSound(pump[g])
    /\ \A g, h \in Generations : At(g, "delete") /\ At(h, "delete") => g = h

RestOK ==
    /\ request \in [Requests -> {"none", "queued", "terminal"}]
    /\ turn \in [Requests -> {"idle", "fenced", "stamped", "done"}]
    /\ manual \in [Sessions -> {Idle} \cup SUBSET Requests]
    /\ live \in Generations /\ policy \in BOOLEAN /\ failures \in 0..MaxFailures

Inv == OpsOK /\ SessionOK /\ PumpOK /\ RestOK /\ FinishedMeansDone

-----------------------------------------------------------------------------
\* The next candidate of run_once is one of those it listed.
LEMMA LeastExists ==
    ASSUME NEW S \in SUBSET Nat, S # {}
    PROVE  \E m \in S : \A n \in S : m <= n
<1>1. PICK m \in S : \A y \in S : ~(<<y, m>> \in OpToRel(<, Nat))
  BY NatLessThanWellFounded, WFMin
<1>2. \A n \in S : ~(n < m)
  <2>1. SUFFICES ASSUME NEW n \in S, n < m PROVE FALSE
    OBVIOUS
  <2>2. <<n, m>> \in OpToRel(<, Nat)
    BY <2>1 DEF OpToRel
  <2> QED BY <2>2, <1>1
<1> QED BY <1>2

\* A pump that goes on with sound locals, and deletes only under the lock.
LEMMA PumpMoves ==
    ASSUME Inv, NEW g \in Generations, NEW n, Pump(g, n), PumpSound(n), n.pc = "delete" => RetentionFree
    PROVE  PumpOK' /\ pump'[g] = n /\ \A h \in Generations \ {g} : pump'[h] = pump[h]
<1>1. pump'[g] = n /\ \A h \in Generations \ {g} : pump'[h] = pump[h]
  BY DEF Inv, PumpOK, Pump
<1>2. pump' \in [Generations -> PumpRec]
  BY DEF Inv, PumpOK, Pump, PumpSound
<1>3. \A h \in Generations : PumpSound(pump'[h])
  BY <1>1 DEF Inv, PumpOK
<1>4. \A h, i \in Generations : pump'[h].pc = "delete" /\ pump'[i].pc = "delete" => h = i
  BY <1>1 DEF Inv, PumpOK, At, RetentionFree
<1> QED BY <1>1, <1>2, <1>3, <1>4 DEF PumpOK, At, PumpSound

\* A pump that keeps its operation or drops it leaves FinishedMeansDone.
LEMMA SameOperation ==
    ASSUME Inv, NEW g \in Generations, UNCHANGED op,
           pump'[g].op \in {NoOp, pump[g].op}, \A h \in Generations \ {g} : pump'[h] = pump[h]
    PROVE  FinishedMeansDone'
<1>1. NoOp \notin Ops
  BY PurgeAssumption DEF NoOp
<1> QED BY <1>1 DEF Inv, FinishedMeansDone

\* A session record that stays sound.
LEMMA SessionMoves ==
    ASSUME Inv, NEW s \in Sessions, NEW n, session' = [session EXCEPT ![s] = n], SessionSound(n)
    PROVE  SessionOK'
<1>1. session' \in [Sessions -> SessionRec]
  BY DEF Inv, SessionOK, SessionSound
<1>2. \A t \in Sessions : SessionSound(session'[t])
  BY DEF Inv, SessionOK
<1> QED BY <1>1, <1>2 DEF SessionOK, SessionSound

LEMMA PollInv ==
    ASSUME Inv, NEW g \in Generations, Poll(g)
    PROVE  Inv'
<1> DEFINE n == [IdlePump EXCEPT !.pc = "recover"]
<1>1. Pump(g, n)
  BY DEF Poll
<1>2. PumpSound(n) /\ n.op \in {NoOp, pump[g].op} /\ n.pc # "delete"
  BY DEF Inv, PumpOK, Poll, At, PumpSound, PumpRec, Steps, Unoccupied, IdlePump
<1>3. PumpOK' /\ FinishedMeansDone'
  BY <1>1, <1>2, PumpMoves, SameOperation DEF Poll
<1>4. OpsOK' /\ SessionOK' /\ RestOK'
  BY DEF Inv, Poll, OpsOK, SessionOK, RestOK
<1> QED BY <1>1, <1>2, <1>3, <1>4 DEF Inv

LEMMA ListDispatchableInv ==
    ASSUME Inv, NEW g \in Generations, ListDispatchable(g)
    PROVE  Inv'
<1> DEFINE n == [pump[g] EXCEPT !.pc = "next", !.todo = {o \in Ops : op[o].state = "accepted"}]
<1>1. Pump(g, n)
  BY DEF ListDispatchable
<1>2. PumpSound(n) /\ n.op \in {NoOp, pump[g].op} /\ n.pc # "delete"
  BY DEF Inv, PumpOK, ListDispatchable, At, PumpSound, PumpRec, Steps, Unoccupied
<1>3. PumpOK' /\ FinishedMeansDone'
  BY <1>1, <1>2, PumpMoves, SameOperation DEF ListDispatchable
<1>4. OpsOK' /\ SessionOK' /\ RestOK'
  BY DEF Inv, ListDispatchable, OpsOK, SessionOK, RestOK
<1> QED BY <1>1, <1>2, <1>3, <1>4 DEF Inv

LEMMA EndRunInv ==
    ASSUME Inv, NEW g \in Generations, EndRun(g)
    PROVE  Inv'
<1> DEFINE n == IdlePump
<1>1. Pump(g, n)
  BY DEF EndRun
<1>2. PumpSound(n) /\ n.op \in {NoOp, pump[g].op} /\ n.pc # "delete"
  BY DEF Inv, PumpOK, EndRun, At, PumpSound, PumpRec, Steps, Unoccupied, IdlePump
<1>3. PumpOK' /\ FinishedMeansDone'
  BY <1>1, <1>2, PumpMoves, SameOperation DEF EndRun
<1>4. OpsOK' /\ SessionOK' /\ RestOK'
  BY DEF Inv, EndRun, OpsOK, SessionOK, RestOK
<1> QED BY <1>1, <1>2, <1>3, <1>4 DEF Inv

LEMMA EndSessionsInv ==
    ASSUME Inv, NEW g \in Generations, EndSessions(g)
    PROVE  Inv'
<1> DEFINE n == [pump[g] EXCEPT !.pc = "finish"]
<1>1. Pump(g, n)
  BY DEF EndSessions
<1>2. PumpSound(n) /\ n.op \in {NoOp, pump[g].op} /\ n.pc # "delete"
  BY DEF Inv, PumpOK, EndSessions, At, PumpSound, PumpRec, Steps, Unoccupied
<1>3. PumpOK' /\ FinishedMeansDone'
  BY <1>1, <1>2, PumpMoves, SameOperation DEF EndSessions
<1>4. OpsOK' /\ SessionOK' /\ RestOK'
  BY DEF Inv, EndSessions, OpsOK, SessionOK, RestOK
<1> QED BY <1>1, <1>2, <1>3, <1>4 DEF Inv

LEMMA SelectSessionsInv ==
    ASSUME Inv, NEW g \in Generations, SelectSessions(g)
    PROVE  Inv'
<1>1. PICK n : Pump(g, n) /\ PumpSound(n) /\ n.op \in {NoOp, pump[g].op} /\ n.pc # "delete"
  <2> DEFINE n1 == [pump[g] EXCEPT !.pc = "finish"]
             n2(S) == [pump[g] EXCEPT !.pc = "session", !.session = {}, !.sessions = S]
  <2>1. Pump(g, n1) \/ \E S \in SUBSET Sessions : Pump(g, n2(S))
    BY DEF SelectSessions
  <2>2. pump[g] \in PumpRec /\ pump[g].op # NoOp
    BY DEF Inv, PumpOK, PumpSound, SelectSessions, At, Unoccupied
  <2>3. PumpSound(n1) /\ n1.op = pump[g].op /\ n1.pc # "delete"
    BY <2>2 DEF PumpSound, PumpRec, Steps
  <2>4. \A S \in SUBSET Sessions : PumpSound(n2(S)) /\ n2(S).op = pump[g].op /\ n2(S).pc # "delete"
    BY <2>2 DEF PumpSound, PumpRec, Steps
  <2> QED BY <2>1, <2>3, <2>4
<1>2. PumpOK' /\ FinishedMeansDone'
  BY <1>1, PumpMoves, SameOperation DEF SelectSessions
<1>3. OpsOK' /\ SessionOK' /\ RestOK'
  BY DEF Inv, SelectSessions, OpsOK, SessionOK, RestOK
<1> QED BY <1>1, <1>2, <1>3 DEF Inv

LEMMA EnterSessionInv ==
    ASSUME Inv, NEW g \in Generations, NEW s \in Sessions, EnterSession(g, s)
    PROVE  Inv'
<1>1. PICK n : Pump(g, n) /\ PumpSound(n) /\ n.op \in {NoOp, pump[g].op} /\ n.pc # "delete"
  <2> DEFINE left == pump[g].sessions \ {s}
             n1 == [pump[g] EXCEPT !.pc = "closure", !.session = {s}, !.sessions = left,
                                   !.ids = session[s].plan \cup session[s].attached]
             n2 == [pump[g] EXCEPT !.pc = "claim", !.session = {s}, !.sessions = left]
             n3 == [pump[g] EXCEPT !.sessions = left]
  <2>1. Pump(g, n1) \/ Pump(g, n2) \/ Pump(g, n3)
    BY DEF EnterSession
  <2>2. pump[g] \in PumpRec /\ pump[g].op # NoOp /\ pump[g].pc = "session" /\ session[s] \in SessionRec
    BY DEF Inv, PumpOK, SessionOK, PumpSound, EnterSession, At, Unoccupied
  <2>3. PumpSound(n1) /\ n1.op = pump[g].op /\ n1.pc # "delete"
    BY <2>2 DEF PumpSound, PumpRec, SessionRec, Steps
  <2>4. PumpSound(n2) /\ n2.op = pump[g].op /\ n2.pc # "delete"
    BY <2>2 DEF PumpSound, PumpRec, Steps
  <2>5. PumpSound(n3) /\ n3.op = pump[g].op /\ n3.pc # "delete"
    BY <2>2 DEF PumpSound, PumpRec, Steps
  <2> QED BY <2>1, <2>3, <2>4, <2>5
<1>2. PumpOK' /\ FinishedMeansDone'
  BY <1>1, PumpMoves, SameOperation DEF EnterSession
<1>3. OpsOK' /\ SessionOK' /\ RestOK'
  BY DEF Inv, EnterSession, OpsOK, SessionOK, RestOK
<1> QED BY <1>1, <1>2, <1>3 DEF Inv

LEMMA RecheckInv ==
    ASSUME Inv, NEW g \in Generations, NEW s \in Sessions, Recheck(g, s)
    PROVE  Inv'
<1>1. PICK n : Pump(g, n) /\ PumpSound(n) /\ n.op \in {NoOp, pump[g].op} /\ n.pc # "delete"
  <2> DEFINE n(p) == [pump[g] EXCEPT !.ids = Closure(s), !.recent = FALSE, !.pc = p]
  <2>1. \E p \in {"release", "begin"} : Pump(g, n(p))
    BY DEF Recheck
  <2>2. pump[g] \in PumpRec /\ pump[g].op # NoOp /\ session[s] \in SessionRec
    BY DEF Inv, PumpOK, SessionOK, PumpSound, Recheck, At, Unoccupied
  <2>3. Closure(s) \subseteq Requests
    BY <2>2 DEF Closure, Of, SessionRec
  <2>4. \A p \in {"release", "begin"} : PumpSound(n(p)) /\ n(p).op = pump[g].op /\ n(p).pc # "delete"
    BY <2>2, <2>3 DEF PumpSound, PumpRec, Steps
  <2> QED BY <2>1, <2>4
<1>2. PumpOK' /\ FinishedMeansDone'
  BY <1>1, PumpMoves, SameOperation DEF Recheck
<1>3. OpsOK' /\ SessionOK' /\ RestOK'
  BY DEF Inv, Recheck, OpsOK, SessionOK, RestOK
<1> QED BY <1>1, <1>2, <1>3 DEF Inv

LEMMA FinalClosureInv ==
    ASSUME Inv, NEW g \in Generations, NEW s \in Sessions, FinalClosure(g, s)
    PROVE  Inv'
<1>1. PICK n : Pump(g, n) /\ PumpSound(n) /\ n.op \in {NoOp, pump[g].op} /\ n.pc # "delete"
  <2> DEFINE n == [pump[g] EXCEPT !.pc = "locks", !.ids = @ \cup {r \in Of(s) : Exists(r)}]
  <2>1. Pump(g, n)
    BY DEF FinalClosure
  <2>2. pump[g] \in PumpRec /\ pump[g].op # NoOp
    BY DEF Inv, PumpOK, PumpSound, FinalClosure, At, Unoccupied
  <2>3. PumpSound(n) /\ n.op = pump[g].op /\ n.pc # "delete"
    BY <2>2 DEF PumpSound, PumpRec, Steps, Of
  <2> QED BY <2>1, <2>3
<1>2. PumpOK' /\ FinishedMeansDone'
  BY <1>1, PumpMoves, SameOperation DEF FinalClosure
<1>3. OpsOK' /\ SessionOK' /\ RestOK'
  BY DEF Inv, FinalClosure, OpsOK, SessionOK, RestOK
<1> QED BY <1>1, <1>2, <1>3 DEF Inv

LEMMA OwnershipLostInv ==
    ASSUME Inv, NEW g \in Generations, OwnershipLost(g)
    PROVE  Inv'
<1>1. PumpSound(IdlePump) /\ IdlePump.op = NoOp /\ IdlePump.pc # "delete"
  BY DEF IdlePump, PumpSound, PumpRec, Steps, Unoccupied
<1>2. PumpOK' /\ FinishedMeansDone'
  BY <1>1, PumpMoves, SameOperation DEF OwnershipLost
<1>3. OpsOK' /\ SessionOK' /\ RestOK'
  BY DEF Inv, OwnershipLost, OpsOK, SessionOK, RestOK
<1> QED BY <1>1, <1>2, <1>3 DEF Inv

LEMMA OldPumpDiesInv ==
    ASSUME Inv, NEW g \in Generations, OldPumpDies(g)
    PROVE  Inv'
<1>1. PumpSound(IdlePump) /\ IdlePump.op = NoOp /\ IdlePump.pc # "delete"
  BY DEF IdlePump, PumpSound, PumpRec, Steps, Unoccupied
<1>2. PumpOK' /\ FinishedMeansDone'
  BY <1>1, PumpMoves, SameOperation DEF OldPumpDies
<1>3. OpsOK' /\ SessionOK' /\ RestOK'
  BY DEF Inv, OldPumpDies, OpsOK, SessionOK, RestOK
<1> QED BY <1>1, <1>2, <1>3 DEF Inv

LEMMA TakeRetentionInv ==
    ASSUME Inv, NEW g \in Generations, TakeRetention(g)
    PROVE  Inv'
<1>1. PICK n : Pump(g, n) /\ PumpSound(n) /\ n.op \in {NoOp, pump[g].op} /\ RetentionFree
  <2> DEFINE n == [pump[g] EXCEPT !.pc = "delete"]
  <2>1. Pump(g, n) /\ RetentionFree
    BY DEF TakeRetention
  <2>2. pump[g] \in PumpRec /\ pump[g].op # NoOp
    BY DEF Inv, PumpOK, PumpSound, TakeRetention, At, Unoccupied
  <2>3. PumpSound(n) /\ n.op = pump[g].op
    BY <2>2 DEF PumpSound, PumpRec, Steps
  <2> QED BY <2>1, <2>3
<1>2. PumpOK' /\ FinishedMeansDone'
  BY <1>1, PumpMoves, SameOperation DEF TakeRetention
<1>3. OpsOK' /\ SessionOK' /\ RestOK'
  BY DEF Inv, TakeRetention, OpsOK, SessionOK, RestOK
<1> QED BY <1>1, <1>2, <1>3 DEF Inv

\* An exception in the executor leaves the pump its operation.
LEMMA RaiseMoves ==
    ASSUME Inv, NEW g \in Generations, pump[g].op # NoOp, Raise(g)
    PROVE  /\ PumpOK'
           /\ pump'[g].op = pump[g].op
           /\ \A h \in Generations \ {g} : pump'[h] = pump[h]
<1> DEFINE n == [pump[g] EXCEPT !.pc = "fail", !.sessions = {}, !.session = {}, !.ids = {}]
<1>1. Pump(g, n)
  BY DEF Raise
<1>2. PumpSound(n) /\ n.op = pump[g].op /\ n.pc # "delete"
  BY DEF Inv, PumpOK, PumpSound, PumpRec, Steps
<1> QED BY <1>1, <1>2, PumpMoves

LEMMA RemovalFailsInv ==
    ASSUME Inv, NEW g \in Generations, RemovalFails(g)
    PROVE  Inv'
<1>1. pump[g].op # NoOp
  BY DEF Inv, PumpOK, PumpSound, RemovalFails, At, Unoccupied
<1>2. PumpOK' /\ FinishedMeansDone'
  BY <1>1, RaiseMoves, SameOperation DEF RemovalFails
<1>3. RestOK'
  BY PurgeAssumption DEF Inv, RestOK, RemovalFails
<1>4. OpsOK' /\ SessionOK'
  BY DEF Inv, RemovalFails, OpsOK, SessionOK
<1> QED BY <1>1, <1>2, <1>3, <1>4 DEF Inv

LEMMA ClaimRetentionInv ==
    ASSUME Inv, NEW g \in Generations, NEW s \in Sessions, ClaimRetention(g, s)
    PROVE  Inv'
<1>1. pump[g] \in PumpRec /\ pump[g].op # NoOp /\ pump[g].pc \in Steps
  BY DEF Inv, PumpOK, PumpSound, PumpRec, ClaimRetention, At, Unoccupied
<1> DEFINE n == [pump[g] EXCEPT !.pc = "recheck", !.recent = session[s].recent]
           t == [session[s] EXCEPT !.claim = pump[g].op]
<1>2. ASSUME Raise(g), UNCHANGED session
      PROVE  SessionOK' /\ PumpOK' /\ FinishedMeansDone'
  <2>1. PumpOK' /\ FinishedMeansDone'
    BY <1>1, <1>2, RaiseMoves, SameOperation DEF ClaimRetention
  <2>2. SessionOK'
    BY <1>2 DEF Inv, SessionOK
  <2> QED BY <2>1, <2>2
<1>3. ASSUME Pump(g, n), session' = [session EXCEPT ![s] = t], session[s].claim \in {NoOp, pump[g].op}
      PROVE  SessionOK' /\ PumpOK' /\ FinishedMeansDone'
  <2>1. SessionSound(t)
    BY <1>1, <1>3 DEF Inv, SessionOK, SessionSound, SessionRec, PumpRec
  <2>2. PumpSound(n) /\ n.op = pump[g].op /\ n.pc # "delete"
    BY <1>1, <2>1 DEF PumpSound, PumpRec, Steps, Inv, SessionOK, SessionSound, SessionRec
  <2>3. PumpOK' /\ FinishedMeansDone'
    BY <1>3, <2>2, PumpMoves, SameOperation DEF ClaimRetention
  <2>4. SessionOK'
    BY <1>3, <2>1, SessionMoves
  <2> QED BY <2>3, <2>4
<1>4. SessionOK' /\ PumpOK' /\ FinishedMeansDone'
  BY <1>2, <1>3 DEF ClaimRetention, Inv, SessionOK
<1>5. OpsOK' /\ RestOK'
  BY DEF Inv, ClaimRetention, OpsOK, RestOK
<1> QED BY <1>1, <1>2, <1>3, <1>4, <1>5 DEF Inv

LEMMA ReleaseClaimInv ==
    ASSUME Inv, NEW g \in Generations, NEW s \in Sessions, ReleaseClaim(g, s)
    PROVE  Inv'
<1>1. pump[g] \in PumpRec /\ pump[g].op # NoOp /\ pump[g].pc \in Steps
  BY DEF Inv, PumpOK, PumpSound, PumpRec, ReleaseClaim, At, Unoccupied
<1> DEFINE n == [pump[g] EXCEPT !.pc = "session", !.session = {}, !.ids = {}]
           t == [session[s] EXCEPT !.claim = NoOp]
<1>2. ASSUME Raise(g), UNCHANGED session
      PROVE  SessionOK' /\ PumpOK' /\ FinishedMeansDone'
  <2>1. PumpOK' /\ FinishedMeansDone'
    BY <1>1, <1>2, RaiseMoves, SameOperation DEF ReleaseClaim
  <2>2. SessionOK'
    BY <1>2 DEF Inv, SessionOK
  <2> QED BY <2>1, <2>2
<1>3. ASSUME Pump(g, n), session' = [session EXCEPT ![s] = t], ~session[s].deleting
      PROVE  SessionOK' /\ PumpOK' /\ FinishedMeansDone'
  <2>1. SessionSound(t)
    BY <1>1, <1>3 DEF Inv, SessionOK, SessionSound, SessionRec, PumpRec
  <2>2. PumpSound(n) /\ n.op = pump[g].op /\ n.pc # "delete"
    BY <1>1, <2>1 DEF PumpSound, PumpRec, Steps, Inv, SessionOK, SessionSound, SessionRec
  <2>3. PumpOK' /\ FinishedMeansDone'
    BY <1>3, <2>2, PumpMoves, SameOperation DEF ReleaseClaim
  <2>4. SessionOK'
    BY <1>3, <2>1, SessionMoves
  <2> QED BY <2>3, <2>4
<1>4. SessionOK' /\ PumpOK' /\ FinishedMeansDone'
  BY <1>2, <1>3 DEF ReleaseClaim, Inv, SessionOK
<1>5. OpsOK' /\ RestOK'
  BY DEF Inv, ReleaseClaim, OpsOK, RestOK
<1> QED BY <1>1, <1>2, <1>3, <1>4, <1>5 DEF Inv

LEMMA BeginDeletionInv ==
    ASSUME Inv, NEW g \in Generations, NEW s \in Sessions, BeginDeletion(g, s)
    PROVE  Inv'
<1>1. pump[g] \in PumpRec /\ pump[g].op # NoOp /\ session[s] \in SessionRec
  BY DEF Inv, PumpOK, SessionOK, PumpSound, BeginDeletion, At, Unoccupied
<1> DEFINE t == IF session[s].deleting THEN session[s]
                ELSE [session[s] EXCEPT !.deleting = TRUE, !.plan = pump[g].ids]
           n == [pump[g] EXCEPT !.pc = "closure", !.ids = t.plan \cup session[s].attached]
<1>2. ASSUME Raise(g), UNCHANGED session
      PROVE  SessionOK' /\ PumpOK' /\ FinishedMeansDone'
  <2>1. PumpOK' /\ FinishedMeansDone'
    BY <1>1, <1>2, RaiseMoves, SameOperation DEF BeginDeletion
  <2>2. SessionOK'
    BY <1>2 DEF Inv, SessionOK
  <2> QED BY <2>1, <2>2
<1>3. ASSUME session[s].claim = pump[g].op
      PROVE  SessionOK' /\ PumpOK' /\ FinishedMeansDone'
  <2>1. session' = [session EXCEPT ![s] = t]
    BY <1>1, <1>3 DEF BeginDeletion, Inv, SessionOK
  <2>2. SessionSound(t)
    BY <1>1, <1>3 DEF Inv, SessionOK, SessionSound, SessionRec, PumpRec
  <2>3. SessionOK' /\ session'[s] = t
    BY <2>1, <2>2, SessionMoves DEF Inv, SessionOK
  <2>4. Pump(g, n)
    BY <1>3, <2>3 DEF BeginDeletion
  <2>5. PumpSound(n) /\ n.op = pump[g].op /\ n.pc # "delete"
    BY <1>1, <2>2 DEF PumpSound, PumpRec, SessionSound, SessionRec, Steps
  <2>6. PumpOK' /\ FinishedMeansDone'
    BY <2>4, <2>5, PumpMoves, SameOperation DEF BeginDeletion
  <2> QED BY <2>3, <2>6
<1>4. SessionOK' /\ PumpOK' /\ FinishedMeansDone'
  BY <1>2, <1>3 DEF BeginDeletion
<1>5. OpsOK' /\ RestOK'
  BY DEF Inv, BeginDeletion, OpsOK, RestOK
<1> QED BY <1>1, <1>2, <1>3, <1>4, <1>5 DEF Inv

LEMMA DeleteSessionInv ==
    ASSUME Inv, NEW g \in Generations, NEW s \in Sessions, DeleteSession(g, s)
    PROVE  Inv'
<1> DEFINE n == [pump[g] EXCEPT !.pc = "session", !.session = {}, !.ids = {}]
<1>1. PumpSound(n) /\ n.op = pump[g].op /\ n.pc # "delete"
  BY DEF Inv, PumpOK, PumpSound, PumpRec, Steps, DeleteSession, At, Unoccupied
<1>2. PumpOK' /\ FinishedMeansDone'
  BY <1>1, PumpMoves, SameOperation DEF DeleteSession
<1>3. SessionSound(NoSession("gone"))
  BY DEF SessionSound, NoSession, SessionRec, NoOp
<1>4. SessionOK'
  <2>1. CASE UNCHANGED session
    BY <2>1 DEF Inv, SessionOK
  <2>2. CASE session' = [session EXCEPT ![s] = NoSession("gone")]
    BY <1>3, <2>2, SessionMoves
  <2> QED BY <2>1, <2>2 DEF DeleteSession
<1>5. OpsOK' /\ RestOK'
  BY DEF Inv, DeleteSession, OpsOK, RestOK
<1> QED BY <1>1, <1>2, <1>3, <1>4, <1>5 DEF Inv

LEMMA RecoverClaimsInv ==
    ASSUME Inv, NEW g \in Generations, RecoverClaims(g)
    PROVE  Inv'
<1> DEFINE listed == [pump[g] EXCEPT !.pc = "list"]
<1> DEFINE n == IF \E o \in Ops : Recordless(o) THEN IdlePump ELSE listed
<1>1. PumpSound(n) /\ n.op \in {NoOp, pump[g].op} /\ n.pc # "delete"
  <2>1. PumpSound(listed) /\ listed.op = pump[g].op /\ listed.pc # "delete"
    BY DEF Inv, PumpOK, PumpSound, PumpRec, Steps, Unoccupied, RecoverClaims
  <2>2. PumpSound(IdlePump) /\ IdlePump.op = NoOp /\ IdlePump.pc # "delete"
    BY DEF PumpSound, PumpRec, Steps, Unoccupied, IdlePump
  <2> QED BY <2>1, <2>2
<1>2. PumpOK' /\ pump'[g].op \in {NoOp, pump[g].op} /\ \A h \in Generations \ {g} : pump'[h] = pump[h]
  BY <1>1, PumpMoves DEF RecoverClaims
<1>3. OpsOK'
  BY DEF Inv, OpsOK, OpRec, RecoverClaims
<1>4. \A o \in Ops : op'[o].state \in Terminal => op'[o] = op[o]
  BY DEF Inv, OpsOK, OpRec, RecoverClaims, Terminal
<1>5. FinishedMeansDone'
  <2>1. NoOp \notin Ops
    BY PurgeAssumption DEF NoOp
  <2> QED BY <1>2, <1>4, <2>1 DEF Inv, FinishedMeansDone
<1>6. SessionOK' /\ RestOK'
  BY DEF Inv, RecoverClaims, SessionOK, RestOK
<1> QED BY <1>1, <1>2, <1>3, <1>4, <1>5, <1>6 DEF Inv

LEMMA ClaimOperationInv ==
    ASSUME Inv, NEW g \in Generations, ClaimOperation(g)
    PROVE  Inv'
<1> DEFINE o == CHOOSE x \in pump[g].todo : \A y \in pump[g].todo : x <= y
           n1 == [pump[g] EXCEPT !.pc = "select", !.op = o, !.todo = @ \ {o}]
           n2 == [pump[g] EXCEPT !.todo = @ \ {o}]
<1>1. pump[g] \in PumpRec /\ pump[g].pc = "next"
  BY DEF Inv, PumpOK, ClaimOperation, At
<1>2. o \in Ops /\ o # NoOp
  <2>1. pump[g].todo \in SUBSET Nat /\ pump[g].todo # {} /\ pump[g].todo \subseteq Ops
    BY <1>1, PurgeAssumption DEF PumpRec, ClaimOperation
  <2>2. \E x \in pump[g].todo : \A y \in pump[g].todo : x <= y
    BY <2>1, LeastExists
  <2>3. o \in pump[g].todo
    BY <2>2
  <2> QED BY <2>1, <2>3, PurgeAssumption DEF NoOp
<1>3. ASSUME op[o].state = "accepted", op' = [op EXCEPT ![o] = [state |-> "running", owner |-> g]], Pump(g, n1)
      PROVE  OpsOK' /\ PumpOK' /\ FinishedMeansDone'
  <2>1. PumpSound(n1) /\ n1.op = o /\ n1.pc # "delete"
    BY <1>1, <1>2 DEF PumpSound, PumpRec, Steps
  <2>2. PumpOK' /\ pump'[g].op = o /\ \A h \in Generations \ {g} : pump'[h] = pump[h]
    BY <1>3, <2>1, PumpMoves
  <2>3. OpsOK'
    BY <1>2, <1>3 DEF Inv, OpsOK, OpRec
  <2>4. op'[o].state \notin Terminal /\ \A p \in Ops \ {o} : op'[p] = op[p]
    BY <1>2, <1>3 DEF Inv, OpsOK, Terminal
  <2>5. ASSUME NEW p \in Ops, NEW h \in Generations, op'[p].state \in Terminal, op'[p].owner = h
        PROVE  pump'[h].op # p
    <3>1. p # o /\ op'[p] = op[p]
      BY <2>4, <2>5
    <3>2. CASE h = g
      BY <2>2, <3>1, <3>2
    <3>3. CASE h # g
      <4>1. pump[h].op # p
        BY <2>5, <3>1 DEF Inv, FinishedMeansDone
      <4> QED BY <2>2, <3>3, <4>1
    <3> QED BY <3>2, <3>3
  <2>6. FinishedMeansDone'
    BY <2>5 DEF FinishedMeansDone
  <2> QED BY <2>2, <2>3, <2>6
<1>4. ASSUME UNCHANGED op, Pump(g, n2)
      PROVE  OpsOK' /\ PumpOK' /\ FinishedMeansDone'
  <2>1. PumpSound(n2) /\ n2.op = pump[g].op /\ n2.pc # "delete"
    BY <1>1 DEF PumpSound, PumpRec, Unoccupied
  <2>2. PumpOK' /\ FinishedMeansDone'
    BY <1>4, <2>1, PumpMoves, SameOperation
  <2> QED BY <1>4, <2>2 DEF Inv, OpsOK
<1>5. OpsOK' /\ PumpOK' /\ FinishedMeansDone'
  BY <1>3, <1>4 DEF ClaimOperation
<1>6. SessionOK' /\ RestOK'
  BY DEF Inv, ClaimOperation, SessionOK, RestOK
<1> QED BY <1>1, <1>2, <1>3, <1>4, <1>5, <1>6 DEF Inv

LEMMA FinishInv ==
    ASSUME Inv, NEW g \in Generations, Finish(g)
    PROVE  Inv'
<1> DEFINE n == [pump[g] EXCEPT !.pc = "next", !.op = NoOp]
<1>1. pump[g].op \in Ops /\ pump[g] \in PumpRec
  BY DEF Inv, PumpOK, PumpSound, PumpRec, Unoccupied, Finish, At
<1>2. PumpSound(n) /\ n.op = NoOp /\ n.pc # "delete"
  BY <1>1 DEF PumpSound, PumpRec, Steps, Unoccupied
<1>3. PumpOK' /\ pump'[g].op = NoOp /\ \A h \in Generations \ {g} : pump'[h] = pump[h]
  BY <1>2, PumpMoves DEF Finish
<1>4. OpsOK'
  BY <1>1 DEF Inv, OpsOK, OpRec, Terminal, Finish
<1>5. /\ op'[pump[g].op].owner = g
      /\ \A p \in Ops \ {pump[g].op} : op'[p] = op[p]
  BY <1>1 DEF Inv, OpsOK, OpRec, Finish, Owns
<1>6. NoOp \notin Ops
  BY PurgeAssumption DEF NoOp
<1>7. FinishedMeansDone'
  BY <1>3, <1>5, <1>6 DEF Inv, FinishedMeansDone
<1>8. SessionOK' /\ RestOK'
  BY DEF Inv, Finish, SessionOK, RestOK
<1> QED BY <1>1, <1>2, <1>3, <1>4, <1>5, <1>6, <1>7, <1>8 DEF Inv

LEMMA FailInv ==
    ASSUME Inv, NEW g \in Generations, Fail(g)
    PROVE  Inv'
<1> DEFINE n == [pump[g] EXCEPT !.pc = "next", !.op = NoOp]
<1>1. pump[g].op \in Ops /\ pump[g] \in PumpRec
  BY DEF Inv, PumpOK, PumpSound, PumpRec, Unoccupied, Fail, At
<1>2. PumpSound(n) /\ n.op = NoOp /\ n.pc # "delete"
  BY <1>1 DEF PumpSound, PumpRec, Steps, Unoccupied
<1>3. PumpOK' /\ pump'[g].op = NoOp /\ \A h \in Generations \ {g} : pump'[h] = pump[h]
  BY <1>2, PumpMoves DEF Fail
<1>4. OpsOK'
  BY <1>1 DEF Inv, OpsOK, OpRec, Terminal, Fail
<1>5. /\ op'[pump[g].op].owner = g
      /\ \A p \in Ops \ {pump[g].op} : op'[p] = op[p]
  BY <1>1 DEF Inv, OpsOK, OpRec, Fail, Owns
<1>6. NoOp \notin Ops
  BY PurgeAssumption DEF NoOp
<1>7. FinishedMeansDone'
  BY <1>3, <1>5, <1>6 DEF Inv, FinishedMeansDone
<1>8. SessionOK' /\ RestOK'
  BY DEF Inv, Fail, SessionOK, RestOK
<1> QED BY <1>1, <1>2, <1>3, <1>4, <1>5, <1>6, <1>7, <1>8 DEF Inv

LEMMA CreateInv ==
    ASSUME Inv, NEW o \in Ops, Create(o)
    PROVE  Inv'
<1>1. OpsOK'
  BY DEF Inv, OpsOK, OpRec, Create
<1>2. FinishedMeansDone'
  BY DEF Inv, OpsOK, OpRec, FinishedMeansDone, Terminal, Create
<1>3. SessionOK' /\ PumpOK' /\ RestOK'
  BY DEF Inv, Create, SessionOK, PumpOK, RestOK, At
<1> QED BY <1>1, <1>2, <1>3 DEF Inv

LEMMA RecordlessInv ==
    ASSUME Inv, NEW o \in Ops, CreateCrashes(o) \/ ReadUnknown(o)
    PROVE  Inv'
<1>1. OpsOK'
  BY DEF Inv, OpsOK, OpRec, CreateCrashes, ReadUnknown
<1>2. FinishedMeansDone'
  BY DEF Inv, OpsOK, OpRec, FinishedMeansDone, Terminal, CreateCrashes, ReadUnknown
<1>3. SessionOK' /\ PumpOK'
  BY DEF Inv, CreateCrashes, ReadUnknown, SessionOK, PumpOK, At
<1>4. RestOK'
  BY PurgeAssumption DEF Inv, CreateCrashes, ReadUnknown, RestOK
<1> QED BY <1>1, <1>2, <1>3, <1>4 DEF Inv

LEMMA DeleteRequestInv ==
    ASSUME Inv, NEW g \in Generations, NEW r \in Requests, DeleteRequest(g, r)
    PROVE  Inv'
<1>1. RestOK'
  BY DEF Inv, RestOK, DeleteRequest
<1>2. OpsOK' /\ SessionOK' /\ PumpOK' /\ FinishedMeansDone'
  BY DEF Inv, DeleteRequest, OpsOK, SessionOK, PumpOK, FinishedMeansDone, At
<1> QED BY <1>1, <1>2 DEF Inv

LEMMA AdmitTurnInv ==
    ASSUME Inv, NEW r \in Requests, AdmitTurn(r)
    PROVE  Inv'
<1>1. RestOK'
  BY DEF Inv, RestOK, AdmitTurn
<1>2. OpsOK' /\ SessionOK' /\ PumpOK' /\ FinishedMeansDone'
  BY DEF Inv, AdmitTurn, OpsOK, SessionOK, PumpOK, FinishedMeansDone, At
<1> QED BY <1>1, <1>2 DEF Inv

LEMMA WriteTurnInv ==
    ASSUME Inv, NEW r \in Requests, WriteTurn(r)
    PROVE  Inv'
<1>1. RestOK'
  BY DEF Inv, RestOK, WriteTurn
<1>2. OpsOK' /\ SessionOK' /\ PumpOK' /\ FinishedMeansDone'
  BY DEF Inv, WriteTurn, OpsOK, SessionOK, PumpOK, FinishedMeansDone, At
<1> QED BY <1>1, <1>2 DEF Inv

LEMMA ChangePolicyInv ==
    ASSUME Inv, ChangePolicy
    PROVE  Inv'
<1>1. failures' \in 0..MaxFailures
  BY PurgeAssumption DEF Inv, RestOK, ChangePolicy
<1>2. RestOK'
  BY <1>1 DEF Inv, RestOK, ChangePolicy
<1>3. OpsOK' /\ SessionOK' /\ PumpOK' /\ FinishedMeansDone'
  BY DEF Inv, ChangePolicy, OpsOK, SessionOK, PumpOK, FinishedMeansDone, At
<1> QED BY <1>1, <1>2, <1>3 DEF Inv

LEMMA StampTurnInv ==
    ASSUME Inv, NEW r \in Requests, StampTurn(r)
    PROVE  Inv'
<1> DEFINE t == [session[SessionOf[r]] EXCEPT !.recent = TRUE]
<1>1. SessionOf[r] \in Sessions /\ SessionSound(session[SessionOf[r]])
  BY PurgeAssumption DEF Inv, SessionOK
<1>2. SessionSound(t)
  BY <1>1 DEF SessionSound, SessionRec
<1>3. UNCHANGED session \/ session' = [session EXCEPT ![SessionOf[r]] = t]
  BY <1>1 DEF Inv, SessionOK, StampTurn
<1>4. SessionOK'
  <2>1. CASE UNCHANGED session
    BY <2>1 DEF Inv, SessionOK
  <2>2. CASE session' = [session EXCEPT ![SessionOf[r]] = t]
    BY <1>1, <1>2, <2>2, SessionMoves
  <2> QED BY <1>3, <2>1, <2>2
<1>5. RestOK'
  BY DEF Inv, RestOK, StampTurn
<1>6. OpsOK' /\ PumpOK' /\ FinishedMeansDone'
  BY DEF Inv, StampTurn, OpsOK, PumpOK, FinishedMeansDone, At
<1> QED BY <1>1, <1>2, <1>3, <1>4, <1>5, <1>6 DEF Inv

LEMMA RunTurnInv ==
    ASSUME Inv, NEW r \in Requests, RunTurn(r)
    PROVE  Inv'
<1> DEFINE t == [session[SessionOf[r]] EXCEPT !.attached = @ \cup {r}]
<1>1. SessionOf[r] \in Sessions /\ SessionSound(session[SessionOf[r]])
  BY PurgeAssumption DEF Inv, SessionOK
<1>2. SessionSound(t)
  BY <1>1 DEF SessionSound, SessionRec
<1>3. UNCHANGED session \/ session' = [session EXCEPT ![SessionOf[r]] = t]
  BY <1>1 DEF Inv, SessionOK, RunTurn
<1>4. SessionOK'
  <2>1. CASE UNCHANGED session
    BY <2>1 DEF Inv, SessionOK
  <2>2. CASE session' = [session EXCEPT ![SessionOf[r]] = t]
    BY <1>1, <1>2, <2>2, SessionMoves
  <2> QED BY <1>3, <2>1, <2>2
<1>5. RestOK'
  BY DEF Inv, RestOK, RunTurn
<1>6. OpsOK' /\ PumpOK' /\ FinishedMeansDone'
  BY DEF Inv, RunTurn, OpsOK, PumpOK, FinishedMeansDone, At
<1> QED BY <1>1, <1>2, <1>3, <1>4, <1>5, <1>6 DEF Inv

LEMMA CloseSessionInv ==
    ASSUME Inv, NEW s \in Sessions, CloseSession(s)
    PROVE  Inv'
<1> DEFINE t == [session[s] EXCEPT !.state = "closed"]
<1>1. s \in Sessions /\ SessionSound(session[s])
  BY PurgeAssumption DEF Inv, SessionOK
<1>2. SessionSound(t)
  BY <1>1 DEF SessionSound, SessionRec
<1>3. UNCHANGED session \/ session' = [session EXCEPT ![s] = t]
  BY <1>1 DEF Inv, SessionOK, CloseSession
<1>4. SessionOK'
  <2>1. CASE UNCHANGED session
    BY <2>1 DEF Inv, SessionOK
  <2>2. CASE session' = [session EXCEPT ![s] = t]
    BY <1>1, <1>2, <2>2, SessionMoves
  <2> QED BY <1>3, <2>1, <2>2
<1>5. OpsOK' /\ PumpOK' /\ RestOK' /\ FinishedMeansDone'
  BY DEF Inv, CloseSession, OpsOK, PumpOK, RestOK, FinishedMeansDone, At
<1> QED BY <1>1, <1>2, <1>3, <1>4, <1>5 DEF Inv

LEMMA TimePassesInv ==
    ASSUME Inv, NEW s \in Sessions, TimePasses(s)
    PROVE  Inv'
<1> DEFINE t == [session[s] EXCEPT !.recent = FALSE]
<1>1. s \in Sessions /\ SessionSound(session[s])
  BY PurgeAssumption DEF Inv, SessionOK
<1>2. SessionSound(t)
  BY <1>1 DEF SessionSound, SessionRec
<1>3. UNCHANGED session \/ session' = [session EXCEPT ![s] = t]
  BY <1>1 DEF Inv, SessionOK, TimePasses
<1>4. SessionOK'
  <2>1. CASE UNCHANGED session
    BY <2>1 DEF Inv, SessionOK
  <2>2. CASE session' = [session EXCEPT ![s] = t]
    BY <1>1, <1>2, <2>2, SessionMoves
  <2> QED BY <1>3, <2>1, <2>2
<1>5. OpsOK' /\ PumpOK' /\ RestOK' /\ FinishedMeansDone'
  BY DEF Inv, TimePasses, OpsOK, PumpOK, RestOK, FinishedMeansDone, At
<1> QED BY <1>1, <1>2, <1>3, <1>4, <1>5 DEF Inv

LEMMA ManualScanInv ==
    ASSUME Inv, NEW s \in Sessions, ManualScan(s)
    PROVE  Inv'
<1> DEFINE t == [session[s] EXCEPT !.state = "closed"]
<1>1. s \in Sessions /\ SessionSound(session[s])
  BY PurgeAssumption DEF Inv, SessionOK
<1>2. SessionSound(t)
  BY <1>1 DEF SessionSound, SessionRec
<1>3. UNCHANGED session \/ session' = [session EXCEPT ![s] = t]
  BY <1>1 DEF Inv, SessionOK, ManualScan
<1>4. SessionOK'
  <2>1. CASE UNCHANGED session
    BY <2>1 DEF Inv, SessionOK
  <2>2. CASE session' = [session EXCEPT ![s] = t]
    BY <1>1, <1>2, <2>2, SessionMoves
  <2> QED BY <1>3, <2>1, <2>2
<1>5. RestOK'
  <2>1. Closure(s) \subseteq Requests
    BY <1>1 DEF Closure, Of, SessionSound, SessionRec
  <2> QED BY <2>1 DEF Inv, RestOK, ManualScan
<1>6. OpsOK' /\ PumpOK' /\ FinishedMeansDone'
  BY DEF Inv, ManualScan, OpsOK, PumpOK, FinishedMeansDone, At
<1> QED BY <1>1, <1>2, <1>3, <1>4, <1>5, <1>6 DEF Inv

LEMMA ManualDeleteInv ==
    ASSUME Inv, NEW s \in Sessions, ManualDelete(s)
    PROVE  Inv'
<1>1. SessionSound(NoSession("erased"))
  BY DEF SessionSound, NoSession, SessionRec, NoOp
<1>2. SessionOK'
  <2>1. CASE UNCHANGED session
    BY <2>1 DEF Inv, SessionOK
  <2>2. CASE session' = [session EXCEPT ![s] = NoSession("erased")]
    BY <1>1, <2>2, SessionMoves
  <2> QED BY <2>1, <2>2 DEF ManualDelete
<1>3. RestOK'
  BY DEF Inv, RestOK, ManualDelete
<1>4. OpsOK' /\ PumpOK' /\ FinishedMeansDone'
  BY DEF Inv, ManualDelete, OpsOK, PumpOK, FinishedMeansDone, At
<1> QED BY <1>1, <1>2, <1>3, <1>4 DEF Inv

LEMMA NextGenerationInv ==
    ASSUME Inv, NextGeneration
    PROVE  Inv'
<1>1. PumpSound(IdlePump) /\ IdlePump.op = NoOp /\ IdlePump.pc # "delete" /\ IdlePump \in PumpRec
  BY DEF IdlePump, PumpSound, PumpRec, Steps, Unoccupied
<1>2. NoOp \notin Ops
  BY PurgeAssumption DEF NoOp
<1>3. RestOK'
  BY PurgeAssumption DEF Inv, RestOK, NextGeneration, Generations
<1>4. ASSUME pump' = [g \in Generations |-> IdlePump] PROVE PumpOK' /\ FinishedMeansDone'
  BY <1>1, <1>2, <1>4 DEF PumpOK, At, FinishedMeansDone, NextGeneration
<1>5. ASSUME UNCHANGED pump PROVE PumpOK' /\ FinishedMeansDone'
  BY <1>5 DEF Inv, PumpOK, At, FinishedMeansDone, NextGeneration
<1>6. PumpOK' /\ FinishedMeansDone'
  BY <1>4, <1>5 DEF NextGeneration
<1>7. OpsOK' /\ SessionOK'
  BY DEF Inv, NextGeneration, OpsOK, SessionOK
<1> QED BY <1>1, <1>2, <1>3, <1>4, <1>5, <1>6, <1>7 DEF Inv

-----------------------------------------------------------------------------
\* The initial states satisfy the invariant.
LEMMA InitInv ==
    ASSUME PurgeInit
    PROVE  Inv
<1>1. OpsOK
  BY DEF PurgeInit, OpsOK, OpRec
<1>2. SessionOK
  BY DEF PurgeInit, SessionOK, SessionSound, SessionRec, Of, NoOp
<1>3. PumpOK
  BY DEF PurgeInit, PumpOK, PumpSound, PumpRec, IdlePump, Steps, Unoccupied, At
<1>4. RestOK
  BY PurgeAssumption DEF PurgeInit, RestOK, Generations
<1>5. FinishedMeansDone
  BY DEF PurgeInit, FinishedMeansDone, Terminal
<1> QED BY <1>1, <1>2, <1>3, <1>4, <1>5 DEF Inv

\* Every step preserves it.
LEMMA StepInv ==
    ASSUME Inv, [PurgeNext]_vars
    PROVE  Inv'
<1>1. ASSUME NEW g \in Generations, PumpStep(g) PROVE Inv'
  <2>1. CASE \E s \in Sessions :
               \/ EnterSession(g, s) \/ ClaimRetention(g, s) \/ Recheck(g, s) \/ ReleaseClaim(g, s)
               \/ BeginDeletion(g, s) \/ FinalClosure(g, s) \/ DeleteSession(g, s)
    BY <2>1, EnterSessionInv, ClaimRetentionInv, RecheckInv, ReleaseClaimInv, BeginDeletionInv,
       FinalClosureInv, DeleteSessionInv
  <2>2. CASE \E r \in Requests : DeleteRequest(g, r)
    BY <2>2, DeleteRequestInv
  <2> QED BY <1>1, <2>1, <2>2, PollInv, RecoverClaimsInv, ListDispatchableInv, ClaimOperationInv, EndRunInv,
             SelectSessionsInv, EndSessionsInv, TakeRetentionInv, FinishInv, FailInv, OwnershipLostInv
          DEF PumpStep
<1>2. ASSUME NEW g \in Generations, RemovalFails(g) \/ OldPumpDies(g) PROVE Inv'
  BY <1>2, RemovalFailsInv, OldPumpDiesInv
<1>3. ASSUME NEW r \in Requests, AdmitTurn(r) \/ StampTurn(r) \/ WriteTurn(r) \/ RunTurn(r) PROVE Inv'
  BY <1>3, AdmitTurnInv, StampTurnInv, WriteTurnInv, RunTurnInv
<1>4. ASSUME NEW s \in Sessions, CloseSession(s) \/ TimePasses(s) \/ ManualScan(s) \/ ManualDelete(s)
      PROVE  Inv'
  BY <1>4, CloseSessionInv, TimePassesInv, ManualScanInv, ManualDeleteInv
<1>5. CASE UNCHANGED vars
  BY <1>5 DEF vars, Inv, OpsOK, SessionOK, PumpOK, At, RestOK, FinishedMeansDone
<1> QED BY <1>1, <1>2, <1>3, <1>4, <1>5, CreateInv, RecordlessInv, ChangePolicyInv, NextGenerationInv DEF PurgeNext

LEMMA AlwaysInv == PurgeSpec => []Inv
BY InitInv, StepInv, PTL DEF PurgeSpec

LEMMA InvTypes == Inv => PurgeTypeOK
<1> SUFFICES ASSUME Inv PROVE PurgeTypeOK
  OBVIOUS
<1>1. \A s \in Sessions : session[s].plan # {} => session[s].deleting
  BY DEF Inv, SessionOK, SessionSound
<1> QED BY <1>1 DEF Inv, OpsOK, SessionOK, PumpOK, RestOK, OpRec, SessionRec, PumpRec, PurgeTypeOK

\* Every state of the purge is well typed: a plan is only on a claim that
\* deletes, and at most one pump is inside lineage_delete, however many
\* generations overlap (the retention lock).
THEOREM PurgeTypes == PurgeSpec => []PurgeTypeOK
BY AlwaysInv, InvTypes, PTL

\* A finished operation is not under way at the owner it is recorded under
\* (finish and fail compare the owner epoch, CON-AGM-002).
THEOREM FinishedIsDone == PurgeSpec => []FinishedMeansDone
<1>1. Inv => FinishedMeansDone
  BY DEF Inv
<1> QED BY <1>1, AlwaysInv, PTL

\* A pump's steps that write a session record keep a deletion.
LEMMA PumpKeepsDeletion ==
    ASSUME Inv, NEW g \in Generations, PumpStep(g), NEW s \in Sessions, session[s].deleting
    PROVE  \/ session'[s].deleting /\ session'[s].claim = session[s].claim
           \/ session'[s].state \in {"gone", "erased"}
<1>1. session \in [Sessions -> SessionRec] /\ session[s].claim # NoOp
  <2>1. session \in [Sessions -> SessionRec] /\ SessionSound(session[s])
    BY Zenon DEF Inv, SessionOK
  <2> QED BY <2>1 DEF SessionSound
<1>2. \/ UNCHANGED session
      \/ \E t \in Sessions :
            \/ ClaimRetention(g, t) \/ ReleaseClaim(g, t) \/ BeginDeletion(g, t) \/ DeleteSession(g, t)
  BY Zenon DEF PumpStep, Poll, RecoverClaims, ListDispatchable, ClaimOperation, EndRun, SelectSessions,
     EndSessions, EnterSession, Recheck, FinalClosure, TakeRetention, DeleteRequest, Finish, Fail,
     OwnershipLost
<1>3. CASE UNCHANGED session
  BY <1>3
<1>4. ASSUME NEW t \in Sessions, ClaimRetention(g, t) PROVE session'[s].deleting /\ session'[s].claim = session[s].claim
  BY <1>1, <1>4 DEF ClaimRetention, SessionRec
<1>5. ASSUME NEW t \in Sessions, ReleaseClaim(g, t) PROVE session'[s].deleting /\ session'[s].claim = session[s].claim
  BY <1>1, <1>5 DEF ReleaseClaim, SessionRec
<1>6. ASSUME NEW t \in Sessions, BeginDeletion(g, t) PROVE session'[s].deleting /\ session'[s].claim = session[s].claim
  BY <1>1, <1>6 DEF BeginDeletion, SessionRec
<1>7. ASSUME NEW t \in Sessions, DeleteSession(g, t)
      PROVE  session'[s] = session[s] \/ session'[s].state = "gone"
  BY <1>1, <1>7 DEF DeleteSession, NoSession
<1> QED BY <1>2, <1>3, <1>4, <1>5, <1>6, <1>7

LEMMA StepKeepsDeletion ==
    ASSUME Inv, [PurgeNext]_vars, NEW s \in Sessions, session[s].deleting
    PROVE  \/ session'[s].deleting /\ session'[s].claim = session[s].claim
           \/ session'[s].state \in {"gone", "erased"}
<1>1. session \in [Sessions -> SessionRec]
  BY DEF Inv, SessionOK
<1>2. ASSUME NEW g \in Generations, PumpStep(g)
      PROVE  \/ session'[s].deleting /\ session'[s].claim = session[s].claim
             \/ session'[s].state \in {"gone", "erased"}
  BY <1>2, PumpKeepsDeletion
<1>3. ASSUME NEW r \in Requests, StampTurn(r) \/ RunTurn(r)
      PROVE  session'[s].deleting /\ session'[s].claim = session[s].claim
  BY <1>1, <1>3, PurgeAssumption DEF StampTurn, RunTurn, SessionRec
<1>4. ASSUME NEW t \in Sessions, CloseSession(t) \/ TimePasses(t) \/ ManualScan(t)
      PROVE  session'[s].deleting /\ session'[s].claim = session[s].claim
  BY <1>1, <1>4 DEF CloseSession, TimePasses, ManualScan, SessionRec
<1>5. ASSUME NEW t \in Sessions, ManualDelete(t)
      PROVE  session'[s] = session[s] \/ session'[s].state = "erased"
  BY <1>1, <1>5 DEF ManualDelete, NoSession
<1>6. \/ UNCHANGED session
      \/ \E g \in Generations : PumpStep(g)
      \/ \E r \in Requests : StampTurn(r) \/ RunTurn(r)
      \/ \E t \in Sessions : CloseSession(t) \/ TimePasses(t) \/ ManualScan(t) \/ ManualDelete(t)
  BY DEF PurgeNext, vars, Create, CreateCrashes, ReadUnknown, RemovalFails, OldPumpDies, AdmitTurn,
     WriteTurn, ChangePolicy, NextGeneration
<1> QED BY <1>2, <1>3, <1>4, <1>5, <1>6

\* Once begin_retention_deletion has run, the session stays claimed by the
\* same operation until its record goes, for any number of generations that
\* execute it at once (release_retention_claim refuses, CON-AGW-168).
THEOREM DeletionIsKept == PurgeSpec => DeletionNeverAbandoned
<1>1. Inv /\ [PurgeNext]_vars =>
        [\A s \in Sessions :
            session[s].deleting =>
              \/ session'[s].deleting /\ session'[s].claim = session[s].claim
              \/ session'[s].state \in {"gone", "erased"}]_vars
  BY StepKeepsDeletion
<1> QED BY <1>1, AlwaysInv, PTL DEF PurgeSpec, DeletionNeverAbandoned

-----------------------------------------------------------------------------
\* No turn of the session waits to run, and none is about to be written.
Quiet(s) == \A r \in Of(s) : request[r] # "queued" /\ turn[r] # "stamped"

\* The steps of a pump that is inside one session.
Inside == {"claim", "recheck", "release", "begin", "closure", "locks", "delete"}

\* An admitted turn has its session, and the session knows of the turn as
\* long as it is only stamped.
TurnSafe(r) ==
    /\ request[r] = "queued" \/ turn[r] = "stamped" =>
          session[SessionOf[r]].state # "gone" /\ ~session[SessionOf[r]].deleting
    /\ turn[r] = "stamped" => session[SessionOf[r]].recent \/ Gone(SessionOf[r])

\* A session whose deletion has not begun has all its requests.
SessionSafe(s) ==
    /\ Gone(s) => session[s].claim = NoOp
    /\ session[s].attached \subseteq Of(s) /\ session[s].plan \subseteq Of(s)
    /\ ~Gone(s) /\ ~session[s].deleting => \A r \in session[s].attached : Exists(r)
    /\ manual[s] # Idle => manual[s] \subseteq Of(s)

\* Before the deletion: a turn that was accepted since the session was found
\* eligible is on its record.
Eligible(g, s) ==
    pump[g].pc \in {"claim", "recheck", "begin"} => session[s].recent \/ Quiet(s) \/ Gone(s)

\* A pump that saw no such turn when it claimed the session will see none.
Claimed(g, s) ==
    At(g, "begin") \/ (At(g, "recheck") /\ ~pump[g].recent) =>
        Gone(s) \/ (session[s].claim = pump[g].op /\ ~session[s].recent)

\* A pump releases its claim for such a turn, or because another pump of the
\* same operation already deletes.
Released(g, s) ==
    At(g, "release") \/ (At(g, "recheck") /\ pump[g].recent) =>
        session[s].recent \/ session[s].deleting \/ Gone(s)

\* A pump that deletes has the plan on disk, the ids are the session's, and
\* no request has appeared since they were collected.
Deletes(g, s) ==
    /\ pump[g].pc \in {"closure", "locks", "delete"} => session[s].deleting \/ Gone(s)
    /\ pump[g].pc \in {"begin", "closure", "locks", "delete"} => pump[g].ids \subseteq Of(s)
    /\ pump[g].pc \in {"locks", "delete"} /\ ~Gone(s) =>
          \A r \in Of(s) : Exists(r) => r \in pump[g].ids

HeldBy(g, s) ==
    /\ pump[g].session = {s}
    /\ Eligible(g, s) /\ Claimed(g, s) /\ Released(g, s) /\ Deletes(g, s)

PumpSafe(g) == pump[g].pc \in Inside => \E s \in Sessions : HeldBy(g, s)

Safe ==
    /\ \A r \in Requests : TurnSafe(r)
    /\ \A s \in Sessions : SessionSafe(s)
    /\ \A g \in Generations : PumpSafe(g)

\* What a pump knows of its session lasts while neither changes.
LEMMA HeldKept ==
    ASSUME NEW g \in Generations, NEW s \in Sessions, HeldBy(g, s), pump'[g] = pump[g],
           session'[s] = session[s], \A r \in Of(s) : request'[r] = request[r] /\ turn'[r] = turn[r]
    PROVE  HeldBy(g, s)'
<1>1. Gone(s)' = Gone(s) /\ Quiet(s)' = Quiet(s)
  BY DEF Gone, Quiet, Of
<1>2. Eligible(g, s)' /\ Claimed(g, s)' /\ Released(g, s)'
  BY <1>1 DEF HeldBy, Eligible, Claimed, Released, At
<1>3. Deletes(g, s)'
  BY <1>1 DEF HeldBy, Deletes, Exists, Of
<1> QED BY <1>2, <1>3 DEF HeldBy

\* A step of one session leaves the others alone.
LEMMA StepOfSession ==
    ASSUME Safe, NEW s0 \in Sessions,
           \A s \in Sessions \ {s0} : session'[s] = session[s] /\ manual'[s] = manual[s],
           \A r \in Requests : SessionOf[r] # s0 => request'[r] = request[r] /\ turn'[r] = turn[r],
           \A r \in Of(s0) : TurnSafe(r)',
           SessionSafe(s0)',
           \A h \in Generations : pump'[h] = pump[h] /\ HeldBy(h, s0) => HeldBy(h, s0)',
           \A h \in Generations : pump'[h] # pump[h] => PumpSafe(h)'
    PROVE  Safe'
<1>1. ASSUME NEW r \in Requests PROVE TurnSafe(r)'
  <2>1. CASE SessionOf[r] # s0
    <3>1. TurnSafe(r) /\ SessionOf[r] \in Sessions
      BY PurgeAssumption DEF Safe
    <3> QED BY <3>1, <2>1 DEF TurnSafe, Gone
  <2> QED BY <2>1 DEF Of
<1>2. ASSUME NEW s \in Sessions PROVE SessionSafe(s)'
  <2>1. CASE s # s0
    <3>1. SessionSafe(s) /\ session'[s] = session[s] /\ manual'[s] = manual[s]
      BY <2>1 DEF Safe
    <3>2. \A r \in Of(s) : request'[r] = request[r]
      BY <2>1 DEF Of
    <3>3. ASSUME ~Gone(s)', ~session'[s].deleting, NEW r \in session'[s].attached PROVE Exists(r)'
      BY <3>1, <3>2, <3>3 DEF SessionSafe, Exists, Gone
    <3> QED BY <3>1, <3>2, <3>3 DEF SessionSafe, Gone, Of
  <2> QED BY <2>1
<1>3. ASSUME NEW h \in Generations PROVE PumpSafe(h)'
  <2>1. CASE pump'[h] = pump[h] /\ pump[h].pc \in Inside
    <3>1. PICK s \in Sessions : HeldBy(h, s)
      BY <2>1 DEF Safe, PumpSafe
    <3>2. HeldBy(h, s)'
      <4>1. CASE s # s0
        <5>1. \A r \in Of(s) : request'[r] = request[r] /\ turn'[r] = turn[r]
          BY <4>1 DEF Of
        <5> QED BY <2>1, <3>1, <4>1, <5>1, HeldKept
      <4> QED BY <2>1, <3>1, <4>1
    <3> QED BY <3>2 DEF PumpSafe
  <2>2. CASE pump'[h] = pump[h] /\ pump[h].pc \notin Inside
    BY <2>2 DEF PumpSafe
  <2> QED BY <2>1, <2>2
<1> QED BY <1>1, <1>2, <1>3 DEF Safe

\* A step that writes no record and no turn.
LEMMA StepOfPump ==
    ASSUME Safe, UNCHANGED <<session, request, turn, manual>>,
           \A h \in Generations : pump'[h] # pump[h] => PumpSafe(h)'
    PROVE  Safe'
<1>1. ASSUME NEW r \in Requests PROVE TurnSafe(r)'
  BY DEF Safe, TurnSafe, Gone
<1>2. ASSUME NEW s \in Sessions PROVE SessionSafe(s)'
  <2>1. SessionSafe(s)
    BY DEF Safe
  <2> QED BY <2>1 DEF SessionSafe, Gone, Exists, Of
<1>3. ASSUME NEW h \in Generations, pump'[h] = pump[h] PROVE PumpSafe(h)'
  <2>1. ASSUME NEW s \in Sessions, HeldBy(h, s) PROVE HeldBy(h, s)'
    BY <1>3, <2>1, HeldKept
  <2>2. PumpSafe(h)
    BY DEF Safe
  <2> QED BY <1>3, <2>1, <2>2 DEF PumpSafe
<1> QED BY <1>1, <1>2, <1>3 DEF Safe

\* A pump outside a session, or leaving one.
LEMMA OutsideSafe ==
    ASSUME Inv, Safe, UNCHANGED <<session, request, turn, manual>>, NEW g \in Generations, NEW n, Pump(g, n),
           n.pc \notin Inside
    PROVE  Safe'
<1>1. pump'[g] = n /\ \A h \in Generations \ {g} : pump'[h] = pump[h]
  BY DEF Inv, PumpOK, Pump
<1>2. PumpSafe(g)'
  BY <1>1 DEF PumpSafe
<1> QED BY <1>1, <1>2, StepOfPump

LEMMA RaiseSafe ==
    ASSUME Inv, Safe, UNCHANGED <<session, request, turn, manual>>, NEW g \in Generations, Raise(g)
    PROVE  Safe'
<1> DEFINE n == [pump[g] EXCEPT !.pc = "fail", !.sessions = {}, !.session = {}, !.ids = {}]
<1>1. Pump(g, n) /\ n.pc \notin Inside
  BY DEF Raise, Inv, PumpOK, PumpRec, Inside
<1> QED BY <1>1, OutsideSafe

\* The steps of a pump between two sessions.
LEMMA LoopSafe ==
    ASSUME Inv, Safe, NEW g \in Generations,
           \/ Poll(g) \/ RecoverClaims(g) \/ ListDispatchable(g) \/ ClaimOperation(g) \/ EndRun(g)
           \/ SelectSessions(g) \/ EndSessions(g) \/ Finish(g) \/ Fail(g) \/ OwnershipLost(g)
           \/ RemovalFails(g) \/ OldPumpDies(g)
    PROVE  Safe'
<1>1. pump[g] \in PumpRec
  BY DEF Inv, PumpOK
<1>2. CASE Poll(g) \/ RecoverClaims(g) \/ ListDispatchable(g) \/ EndRun(g) \/ EndSessions(g) \/ Finish(g)
           \/ Fail(g) \/ OwnershipLost(g) \/ OldPumpDies(g)
  <2>1. UNCHANGED <<session, request, turn, manual>>
    BY <1>2 DEF Poll, RecoverClaims, ListDispatchable, EndRun, EndSessions, Finish, Fail, OwnershipLost,
                OldPumpDies
  <2>2. \E n : Pump(g, n) /\ n.pc \notin Inside
    <3>1. IdlePump.pc \notin Inside
      BY DEF IdlePump, Inside
    <3>2. [IdlePump EXCEPT !.pc = "recover"].pc \notin Inside
      BY DEF IdlePump, Inside
    <3>3. /\ [pump[g] EXCEPT !.pc = "list"].pc \notin Inside
          /\ [pump[g] EXCEPT !.pc = "finish"].pc \notin Inside
          /\ [pump[g] EXCEPT !.pc = "next", !.op = NoOp].pc \notin Inside
      BY <1>1 DEF PumpRec, Inside
    <3>4. \A T : [pump[g] EXCEPT !.pc = "next", !.todo = T].pc \notin Inside
      BY <1>1 DEF PumpRec, Inside
    <3>5. CASE Poll(g)
      BY <3>5, <3>2 DEF Poll
    <3>6. CASE ListDispatchable(g)
      BY <3>6, <3>4 DEF ListDispatchable
    <3>7. CASE RecoverClaims(g) \/ EndSessions(g) \/ Finish(g) \/ Fail(g)
      BY <3>7, <3>1, <3>3 DEF RecoverClaims, EndSessions, Finish, Fail
    <3>8. CASE EndRun(g) \/ OwnershipLost(g) \/ OldPumpDies(g)
      BY <3>8, <3>1 DEF EndRun, OwnershipLost, OldPumpDies
    <3> QED BY <1>2, <3>5, <3>6, <3>7, <3>8
  <2> QED BY <2>1, <2>2, OutsideSafe
<1>3. CASE ClaimOperation(g)
  <2>1. \A o : /\ [pump[g] EXCEPT !.pc = "select", !.op = o, !.todo = @ \ {o}].pc \notin Inside
               /\ pump[g].pc = "next" => [pump[g] EXCEPT !.todo = @ \ {o}].pc \notin Inside
    BY <1>1 DEF PumpRec, Inside
  <2>2. \E n : Pump(g, n) /\ n.pc \notin Inside
    BY <1>3, <2>1 DEF ClaimOperation, At
  <2> QED BY <1>3, <2>2, OutsideSafe DEF ClaimOperation
<1>4. CASE SelectSessions(g)
  <2>1. \A S : [pump[g] EXCEPT !.pc = "session", !.session = {}, !.sessions = S].pc \notin Inside
    BY <1>1 DEF PumpRec, Inside
  <2>2. [pump[g] EXCEPT !.pc = "finish"].pc \notin Inside
    BY <1>1 DEF PumpRec, Inside
  <2>3. \E n : Pump(g, n) /\ n.pc \notin Inside
    BY <1>4, <2>1, <2>2 DEF SelectSessions
  <2> QED BY <1>4, <2>3, OutsideSafe DEF SelectSessions
<1>5. CASE RemovalFails(g)
  BY <1>5, RaiseSafe DEF RemovalFails
<1> QED BY <1>2, <1>3, <1>4, <1>5

\* A pump inside a session holds that one.
LEMMA HoldsIts ==
    ASSUME Safe, NEW g \in Generations, NEW s \in Sessions, pump[g].pc \in Inside, pump[g].session = {s}
    PROVE  HeldBy(g, s)
<1>1. PICK t \in Sessions : HeldBy(g, t)
  BY DEF Safe, PumpSafe
<1>2. t = s
  BY <1>1 DEF HeldBy
<1> QED BY <1>1, <1>2

\* A pump's own step inside a session that writes no record and no turn.
LEMMA InsideSafe ==
    ASSUME Inv, Safe, UNCHANGED <<session, request, turn, manual>>, NEW g \in Generations, NEW n, Pump(g, n),
           NEW s \in Sessions, HeldBy(g, s)'
    PROVE  Safe'
<1>1. \A h \in Generations \ {g} : pump'[h] = pump[h]
  BY DEF Inv, PumpOK, Pump
<1>2. PumpSafe(g)'
  BY DEF PumpSafe
<1> QED BY <1>1, <1>2, StepOfPump

\* A session that is not blocked has no turn on its way: a stamped one has
\* made it recent.
LEMMA UnblockedIsQuiet ==
    ASSUME Safe, NEW s \in Sessions, NEW o, ~Gone(s), ~Blocked(s, o)
    PROVE  Quiet(s)
<1>1. SUFFICES ASSUME NEW r \in Of(s) PROVE request[r] # "queued" /\ turn[r] # "stamped"
  BY DEF Quiet
<1>2. TurnSafe(r) /\ SessionOf[r] = s
  BY <1>1 DEF Safe, Of
<1> QED BY <1>1, <1>2 DEF TurnSafe, Blocked, RequestsBlock, Exists

LEMMA EnterSessionSafe ==
    ASSUME Inv, Safe, NEW g \in Generations, NEW s \in Sessions, EnterSession(g, s)
    PROVE  Safe'
<1> DEFINE left == pump[g].sessions \ {s}
           n1 == [pump[g] EXCEPT !.pc = "closure", !.session = {s}, !.sessions = left,
                                 !.ids = session[s].plan \cup session[s].attached]
           n2 == [pump[g] EXCEPT !.pc = "claim", !.session = {s}, !.sessions = left]
           n3 == [pump[g] EXCEPT !.sessions = left]
<1>1. pump \in [Generations -> PumpRec] /\ pump[g] \in PumpRec /\ pump[g].pc = "session"
  BY DEF Inv, PumpOK, EnterSession, At
<1>2. UNCHANGED <<session, request, turn, manual>>
  BY DEF EnterSession
<1>3. CASE ~Gone(s) /\ session[s].claim = pump[g].op /\ session[s].deleting
  <2>1. Pump(g, n1) /\ pump'[g] = n1
    BY <1>1, <1>3 DEF EnterSession, Pump
  <2>2. n1.pc = "closure" /\ n1.session = {s} /\ n1.ids = session[s].plan \cup session[s].attached
    BY <1>1 DEF PumpRec
  <2>3. session[s].attached \subseteq Of(s) /\ session[s].plan \subseteq Of(s)
    BY DEF Safe, SessionSafe
  <2> HIDE DEF n1
  <2>4. HeldBy(g, s)'
    BY <1>2, <1>3, <2>1, <2>2, <2>3 DEF HeldBy, Eligible, Claimed, Released, Deletes, At, Of
  <2> QED BY <1>2, <2>1, <2>4, InsideSafe
<1>4. CASE ~Gone(s) /\ ~Blocked(s, pump[g].op) /\ ~(session[s].claim = pump[g].op /\ session[s].deleting)
  <2>1. Pump(g, n2) /\ pump'[g] = n2
    BY <1>1, <1>4 DEF EnterSession, Pump
  <2>2. n2.pc = "claim" /\ n2.session = {s}
    BY <1>1 DEF PumpRec
  <2>3. Quiet(s)'
    BY <1>2, <1>4, UnblockedIsQuiet DEF Quiet, Of
  <2> HIDE DEF n2
  <2>4. HeldBy(g, s)'
    BY <2>1, <2>2, <2>3 DEF HeldBy, Eligible, Claimed, Released, Deletes, At
  <2> QED BY <1>2, <2>1, <2>4, InsideSafe
<1>5. CASE ~(~Gone(s) /\ session[s].claim = pump[g].op /\ session[s].deleting)
           /\ ~(~Gone(s) /\ ~Blocked(s, pump[g].op))
  <2>1. Pump(g, n3)
    BY <1>5 DEF EnterSession
  <2>2. n3.pc \notin Inside
    BY <1>1 DEF PumpRec, Inside
  <2> QED BY <1>2, <2>1, <2>2, OutsideSafe
<1> QED BY <1>3, <1>4, <1>5

\* The second check releases the claim only for a turn on the record, or
\* when the requests are already being deleted.
LEMMA RecheckSafe ==
    ASSUME Inv, Safe, NEW g \in Generations, NEW s \in Sessions, Recheck(g, s)
    PROVE  Safe'
<1> DEFINE blocked == pump[g].recent \/ RequestsBlock(s)
           n == [pump[g] EXCEPT !.ids = Closure(s), !.recent = FALSE,
                                !.pc = IF blocked THEN "release" ELSE "begin"]
<1>1. pump \in [Generations -> PumpRec] /\ pump[g] \in PumpRec
  BY DEF Inv, PumpOK
<1>2. UNCHANGED <<session, request, turn, manual>> /\ pump[g].pc = "recheck" /\ pump[g].session = {s}
  BY DEF Recheck, At
<1>3. Pump(g, n) /\ pump'[g] = n
  BY <1>1 DEF Recheck, Pump
<1>4. /\ n.session = {s} /\ n.ids = Closure(s) /\ n.op = pump[g].op
      /\ blocked => n.pc = "release"
      /\ ~blocked => n.pc = "begin"
  BY <1>1, <1>2 DEF PumpRec
<1>5. HeldBy(g, s)
  BY <1>2, HoldsIts DEF Inside
<1>6. Closure(s) \subseteq Of(s)
  BY DEF Safe, SessionSafe, Closure
<1> HIDE DEF n
<1>7. CASE ~blocked
  <2>1. Gone(s) \/ (session[s].claim = pump[g].op /\ ~session[s].recent)
    BY <1>2, <1>5, <1>7 DEF HeldBy, Claimed, At
  <2>2. session[s].recent \/ Quiet(s) \/ Gone(s)
    BY <1>2, <1>5 DEF HeldBy, Eligible
  <2>3. Quiet(s)' = Quiet(s) /\ Gone(s)' = Gone(s) /\ Of(s)' = Of(s)
    BY <1>2 DEF Quiet, Gone, Of
  <2>4. HeldBy(g, s)'
    BY <1>2, <1>3, <1>4, <1>6, <1>7, <2>1, <2>2, <2>3 DEF HeldBy, Eligible, Claimed, Released, Deletes, At
  <2> QED BY <1>2, <1>3, <2>4, InsideSafe
<1>8. CASE blocked
  <2>1. session[s].recent \/ session[s].deleting \/ Gone(s)
    <3>1. CASE pump[g].recent
      BY <1>2, <1>5, <3>1 DEF HeldBy, Released, At
    <3>2. CASE ~pump[g].recent
      <4>1. Gone(s) \/ ~session[s].recent
        BY <1>2, <1>5, <3>2 DEF HeldBy, Claimed, At
      <4>2. Gone(s) \/ Quiet(s)
        BY <1>2, <1>5, <4>1 DEF HeldBy, Eligible
      <4>3. CASE \E r \in session[s].attached : ~Exists(r)
        BY <4>3 DEF Safe, SessionSafe
      <4>4. CASE \E r \in Of(s) : Exists(r) /\ request[r] # "terminal"
        BY <4>2, <4>4 DEF Quiet, Of, Exists, Inv, RestOK
      <4> QED BY <1>8, <3>2, <4>3, <4>4 DEF RequestsBlock
    <3> QED BY <3>1, <3>2
  <2>2. HeldBy(g, s)'
    BY <1>2, <1>3, <1>4, <1>8, <2>1 DEF HeldBy, Eligible, Claimed, Released, Deletes, At, Gone
  <2> QED BY <1>2, <1>3, <2>2, InsideSafe
<1> QED BY <1>7, <1>8

LEMMA FinalClosureSafe ==
    ASSUME Inv, Safe, NEW g \in Generations, NEW s \in Sessions, FinalClosure(g, s)
    PROVE  Safe'
<1> DEFINE n == [pump[g] EXCEPT !.pc = "locks", !.ids = @ \cup {r \in Of(s) : Exists(r)}]
<1>1. pump \in [Generations -> PumpRec] /\ pump[g] \in PumpRec
  BY DEF Inv, PumpOK
<1>2. UNCHANGED <<session, request, turn, manual>> /\ pump[g].pc = "closure" /\ pump[g].session = {s}
  BY DEF FinalClosure, At
<1>3. Pump(g, n) /\ pump'[g] = n
  BY <1>1 DEF FinalClosure, Pump
<1>4. n.session = {s} /\ n.pc = "locks" /\ n.ids = pump[g].ids \cup {r \in Of(s) : Exists(r)}
  BY <1>1, <1>2 DEF PumpRec
<1>5. HeldBy(g, s)
  BY <1>2, HoldsIts DEF Inside
<1> HIDE DEF n
<1>6. session[s].deleting \/ Gone(s)
  BY <1>2, <1>5 DEF HeldBy, Deletes
<1>7. pump[g].ids \subseteq Of(s)
  BY <1>2, <1>5 DEF HeldBy, Deletes
<1>8. HeldBy(g, s)'
  BY <1>2, <1>3, <1>4, <1>6, <1>7 DEF HeldBy, Eligible, Claimed, Released, Deletes, At, Gone, Of, Exists
<1> QED BY <1>2, <1>3, <1>8, InsideSafe

LEMMA TakeRetentionSafe ==
    ASSUME Inv, Safe, NEW g \in Generations, TakeRetention(g)
    PROVE  Safe'
<1> DEFINE n == [pump[g] EXCEPT !.pc = "delete"]
<1>1. pump \in [Generations -> PumpRec] /\ pump[g] \in PumpRec
  BY DEF Inv, PumpOK
<1>2. UNCHANGED <<session, request, turn, manual>> /\ pump[g].pc = "locks"
  BY DEF TakeRetention, At
<1>3. Pump(g, n) /\ pump'[g] = n
  BY <1>1 DEF TakeRetention, Pump
<1>4. n.session = pump[g].session /\ n.pc = "delete" /\ n.ids = pump[g].ids
  BY <1>1, <1>2 DEF PumpRec
<1>5. PICK s \in Sessions : HeldBy(g, s)
  BY <1>2 DEF Inside, Safe, PumpSafe
<1> HIDE DEF n
<1>6. Deletes(g, s)'
  BY <1>2, <1>3, <1>4, <1>5 DEF HeldBy, Deletes, At, Gone, Of, Exists
<1>7. HeldBy(g, s)'
  BY <1>3, <1>4, <1>5, <1>6 DEF HeldBy, Eligible, Claimed, Released, At
<1> QED BY <1>2, <1>3, <1>7, InsideSafe

\* A pump inside a session has an operation.
LEMMA InsideHasOp ==
    ASSUME Inv, NEW g \in Generations, pump[g].pc \in Inside
    PROVE  pump[g].op # NoOp
BY DEF Inv, PumpOK, PumpSound, Unoccupied, Inside

LEMMA ClaimRetentionSafe ==
    ASSUME Inv, Safe, NEW g \in Generations, NEW s \in Sessions, ClaimRetention(g, s)
    PROVE  Safe'
<1> DEFINE n == [pump[g] EXCEPT !.pc = "recheck", !.recent = session[s].recent]
           t == [session[s] EXCEPT !.claim = pump[g].op]
<1>1. /\ pump \in [Generations -> PumpRec] /\ pump[g] \in PumpRec
      /\ session \in [Sessions -> SessionRec] /\ session[s] \in SessionRec
  BY DEF Inv, PumpOK, SessionOK
<1>2. UNCHANGED <<request, turn, manual>> /\ pump[g].pc = "claim" /\ pump[g].session = {s}
  BY DEF ClaimRetention, At
<1>3. HeldBy(g, s)
  BY <1>2, HoldsIts DEF Inside
<1>4. CASE Raise(g) /\ UNCHANGED session
  BY <1>2, <1>4, RaiseSafe
<1>5. CASE /\ session[s].claim \in {NoOp, pump[g].op} /\ session[s].state = "closed"
           /\ session' = [session EXCEPT ![s].claim = pump[g].op] /\ Pump(g, n)
  <2>1. session'[s] = t /\ \A u \in Sessions \ {s} : session'[u] = session[u]
    BY <1>1, <1>5
  <2>2. /\ t.claim = pump[g].op /\ t.state = session[s].state /\ t.deleting = session[s].deleting
        /\ t.plan = session[s].plan /\ t.attached = session[s].attached /\ t.recent = session[s].recent
    BY <1>1 DEF SessionRec
  <2>3. pump'[g] = n /\ \A h \in Generations \ {g} : pump'[h] = pump[h]
    BY <1>1, <1>5 DEF Pump
  <2>4. n.pc = "recheck" /\ n.session = {s} /\ n.op = pump[g].op /\ n.recent = session[s].recent
    BY <1>1, <1>2 DEF PumpRec
  <2> HIDE DEF n, t
  <2>5. ~Gone(s) /\ ~Gone(s)' /\ Quiet(s)' = Quiet(s) /\ Of(s)' = Of(s)
    BY <1>2, <1>5, <2>1, <2>2 DEF Gone, Quiet, Of
  <2>6. ASSUME NEW r \in Of(s) PROVE TurnSafe(r)'
    <3>1. TurnSafe(r) /\ SessionOf[r] = s
      BY <2>6 DEF Safe, Of
    <3> QED BY <1>2, <2>1, <2>2, <2>5, <3>1 DEF TurnSafe
  <2>7. SessionSafe(s)'
    <3>1. SessionSafe(s)
      BY DEF Safe
    <3> QED BY <1>2, <2>1, <2>2, <2>5, <3>1 DEF SessionSafe, Exists
  <2>8. ASSUME NEW h \in Generations, pump'[h] = pump[h], HeldBy(h, s) PROVE HeldBy(h, s)'
    <3>1. Claimed(h, s)'
      BY <1>5, <2>1, <2>2, <2>5, <2>8, InsideHasOp DEF HeldBy, Claimed, At, Inside
    <3>2. Eligible(h, s)' /\ Released(h, s)'
      BY <2>1, <2>2, <2>5, <2>8 DEF HeldBy, Eligible, Released, At
    <3>3. Deletes(h, s)'
      BY <1>2, <2>1, <2>2, <2>5, <2>8 DEF HeldBy, Deletes, Exists
    <3> QED BY <2>8, <3>1, <3>2, <3>3 DEF HeldBy
  <2>9. HeldBy(g, s)'
    BY <1>2, <1>3, <2>1, <2>2, <2>3, <2>4, <2>5 DEF HeldBy, Eligible, Claimed, Released, Deletes, At
  <2>10. PumpSafe(g)'
    BY <2>9 DEF PumpSafe
  <2> QED BY <1>2, <2>1, <2>3, <2>6, <2>7, <2>8, <2>10, StepOfSession
<1> QED BY <1>4, <1>5 DEF ClaimRetention

\* A claim is given up only while a turn is on the record, so no pump of the
\* same operation that saw none relies on it.
LEMMA ReleaseClaimSafe ==
    ASSUME Inv, Safe, NEW g \in Generations, NEW s \in Sessions, ReleaseClaim(g, s)
    PROVE  Safe'
<1> DEFINE n == [pump[g] EXCEPT !.pc = "session", !.session = {}, !.ids = {}]
           t == [session[s] EXCEPT !.claim = NoOp]
<1>1. /\ pump \in [Generations -> PumpRec] /\ pump[g] \in PumpRec
      /\ session \in [Sessions -> SessionRec] /\ session[s] \in SessionRec
  BY DEF Inv, PumpOK, SessionOK
<1>2. UNCHANGED <<request, turn, manual>> /\ pump[g].pc = "release" /\ pump[g].session = {s}
  BY DEF ReleaseClaim, At
<1>3. HeldBy(g, s)
  BY <1>2, HoldsIts DEF Inside
<1>4. CASE Raise(g) /\ UNCHANGED session
  BY <1>2, <1>4, RaiseSafe
<1>5. CASE /\ ~Gone(s) /\ ~session[s].deleting
           /\ session' = [session EXCEPT ![s].claim = NoOp] /\ Pump(g, n)
  <2>1. session'[s] = t /\ \A u \in Sessions \ {s} : session'[u] = session[u]
    BY <1>1, <1>5
  <2>2. /\ t.claim = NoOp /\ t.state = session[s].state /\ t.deleting = session[s].deleting
        /\ t.plan = session[s].plan /\ t.attached = session[s].attached /\ t.recent = session[s].recent
    BY <1>1 DEF SessionRec
  <2>3. pump'[g] = n /\ \A h \in Generations \ {g} : pump'[h] = pump[h]
    BY <1>1, <1>5 DEF Pump
  <2>4. n.pc \notin Inside
    BY <1>1 DEF PumpRec, Inside
  <2> HIDE DEF n, t
  <2>5. ~Gone(s)' /\ Quiet(s)' = Quiet(s) /\ Of(s)' = Of(s) /\ session[s].recent
    <3>1. session[s].recent
      BY <1>2, <1>3, <1>5 DEF HeldBy, Released, At
    <3> QED BY <1>2, <1>5, <2>1, <2>2, <3>1 DEF Gone, Quiet, Of
  <2>6. ASSUME NEW r \in Of(s) PROVE TurnSafe(r)'
    <3>1. TurnSafe(r) /\ SessionOf[r] = s
      BY <2>6 DEF Safe, Of
    <3> QED BY <1>2, <2>1, <2>2, <2>5, <3>1 DEF TurnSafe
  <2>7. SessionSafe(s)'
    <3>1. SessionSafe(s)
      BY DEF Safe
    <3> QED BY <1>2, <1>5, <2>1, <2>2, <2>5, <3>1 DEF SessionSafe, Exists
  <2>8. ASSUME NEW h \in Generations, pump'[h] = pump[h], HeldBy(h, s) PROVE HeldBy(h, s)'
    <3>1. Claimed(h, s)'
      BY <1>5, <2>1, <2>2, <2>5, <2>8 DEF HeldBy, Claimed, At
    <3>2. Eligible(h, s)' /\ Released(h, s)'
      BY <1>5, <2>1, <2>2, <2>5, <2>8 DEF HeldBy, Eligible, Released, At
    <3>3. Deletes(h, s)'
      BY <1>2, <1>5, <2>1, <2>2, <2>5, <2>8 DEF HeldBy, Deletes, Exists
    <3> QED BY <2>8, <3>1, <3>2, <3>3 DEF HeldBy
  <2>9. PumpSafe(g)'
    BY <2>3, <2>4 DEF PumpSafe
  <2> QED BY <1>2, <2>1, <2>3, <2>6, <2>7, <2>8, <2>9, StepOfSession
<1> QED BY <1>4, <1>5 DEF ReleaseClaim

\* Destruction begins in a quiet session: the pump still has the claim it
\* made when no turn was on the record.
LEMMA BeginDeletionSafe ==
    ASSUME Inv, Safe, NEW g \in Generations, NEW s \in Sessions, BeginDeletion(g, s)
    PROVE  Safe'
<1> DEFINE n == [pump[g] EXCEPT !.pc = "closure", !.ids = session'[s].plan \cup session[s].attached]
           t == [session[s] EXCEPT !.deleting = TRUE, !.plan = pump[g].ids]
<1>1. /\ pump \in [Generations -> PumpRec] /\ pump[g] \in PumpRec
      /\ session \in [Sessions -> SessionRec] /\ session[s] \in SessionRec
  BY DEF Inv, PumpOK, SessionOK
<1>2. UNCHANGED <<request, turn, manual>> /\ pump[g].pc = "begin" /\ pump[g].session = {s}
  BY DEF BeginDeletion, At
<1>3. HeldBy(g, s) /\ pump[g].op # NoOp
  BY <1>2, HoldsIts, InsideHasOp DEF Inside
<1>4. CASE Raise(g) /\ UNCHANGED session
  BY <1>2, <1>4, RaiseSafe
<1>5. ASSUME session[s].claim = pump[g].op, Pump(g, n),
             session'[s].state = session[s].state, session'[s].claim = session[s].claim,
             session'[s].deleting, session'[s].plan \subseteq Of(s),
             session'[s].attached = session[s].attached, session'[s].recent = session[s].recent,
             \A u \in Sessions \ {s} : session'[u] = session[u]
      PROVE  Safe'
  <2>1. SessionSafe(s)
    BY DEF Safe
  <2>2. ~Gone(s) /\ ~Gone(s)'
    BY <1>3, <1>5, <2>1 DEF SessionSafe, Gone
  <2>3. Quiet(s) /\ Quiet(s)' /\ Of(s)' = Of(s)
    <3>1. ~session[s].recent
      BY <1>2, <1>3, <2>2 DEF HeldBy, Claimed, At
    <3>2. Quiet(s)
      BY <1>2, <1>3, <2>2, <3>1 DEF HeldBy, Eligible
    <3> QED BY <1>2, <3>2 DEF Quiet, Of
  <2>4. pump'[g] = n /\ \A h \in Generations \ {g} : pump'[h] = pump[h]
    BY <1>1, <1>5 DEF Pump
  <2>5. n.pc = "closure" /\ n.session = {s} /\ n.ids = session'[s].plan \cup session[s].attached
    BY <1>1, <1>2 DEF PumpRec
  <2> HIDE DEF n
  <2>6. ASSUME NEW r \in Of(s) PROVE TurnSafe(r)'
    BY <2>3, <2>6 DEF TurnSafe, Quiet, Of
  <2>7. SessionSafe(s)'
    BY <1>2, <1>5, <2>1, <2>2, <2>3 DEF SessionSafe
  <2>8. ASSUME NEW h \in Generations, pump'[h] = pump[h], HeldBy(h, s) PROVE HeldBy(h, s)'
    <3>1. Eligible(h, s)' /\ Released(h, s)' /\ Claimed(h, s)'
      BY <1>5, <2>2, <2>3, <2>8 DEF HeldBy, Eligible, Claimed, Released, At
    <3>2. Deletes(h, s)'
      BY <1>2, <1>5, <2>2, <2>3, <2>8 DEF HeldBy, Deletes, Exists
    <3> QED BY <2>8, <3>1, <3>2 DEF HeldBy
  <2>9. HeldBy(g, s)'
    BY <1>5, <2>1, <2>3, <2>4, <2>5 DEF HeldBy, Eligible, Claimed, Released, Deletes, At, SessionSafe
  <2>10. PumpSafe(g)'
    BY <2>9 DEF PumpSafe
  <2> QED BY <1>2, <1>5, <2>4, <2>6, <2>7, <2>8, <2>10, StepOfSession
<1>6. CASE session[s].claim = pump[g].op /\ session[s].deleting /\ session' = session /\ Pump(g, n)
  <2>1. session[s].plan \subseteq Of(s)
    BY DEF Safe, SessionSafe
  <2> HIDE DEF n
  <2> QED BY <1>5, <1>6, <2>1
<1>7. CASE /\ session[s].claim = pump[g].op /\ Pump(g, n)
           /\ session' = [session EXCEPT ![s].deleting = TRUE, ![s].plan = pump[g].ids]
  <2>1. session'[s] = t /\ \A u \in Sessions \ {s} : session'[u] = session[u]
    BY <1>1, <1>7
  <2>2. /\ t.claim = session[s].claim /\ t.state = session[s].state /\ t.deleting
        /\ t.plan = pump[g].ids /\ t.attached = session[s].attached /\ t.recent = session[s].recent
    BY <1>1 DEF SessionRec
  <2>3. pump[g].ids \subseteq Of(s)
    BY <1>2, <1>3 DEF HeldBy, Deletes
  <2> HIDE DEF n, t
  <2> QED BY <1>5, <1>7, <2>1, <2>2, <2>3
<1> QED BY <1>4, <1>6, <1>7 DEF BeginDeletion

\* The session record goes when no request is left and no turn is on its way.
LEMMA DeleteSessionSafe ==
    ASSUME Inv, Safe, NEW g \in Generations, NEW s \in Sessions, DeleteSession(g, s)
    PROVE  Safe'
<1> DEFINE n == [pump[g] EXCEPT !.pc = "session", !.session = {}, !.ids = {}]
<1>1. /\ pump \in [Generations -> PumpRec] /\ pump[g] \in PumpRec
      /\ session \in [Sessions -> SessionRec]
  BY DEF Inv, PumpOK, SessionOK
<1>2. UNCHANGED <<request, turn, manual>> /\ pump[g].pc = "delete" /\ pump[g].session = {s} /\ Pump(g, n)
  BY DEF DeleteSession, At
<1>3. HeldBy(g, s)
  BY <1>2, HoldsIts DEF Inside
<1>4. n.pc \notin Inside
  BY <1>1 DEF PumpRec, Inside
<1> HIDE DEF n
<1>5. CASE Gone(s)
  BY <1>2, <1>4, <1>5, OutsideSafe DEF DeleteSession
<1>6. CASE ~Gone(s)
  <2>1. session'[s] = NoSession("gone") /\ \A u \in Sessions \ {s} : session'[u] = session[u]
    BY <1>1, <1>6 DEF DeleteSession
  <2>2. session'[s].claim = NoOp /\ session'[s].plan = {} /\ session'[s].attached = {} /\ Gone(s)'
    BY <2>1 DEF NoSession, Gone
  <2>3. session[s].deleting
    BY <1>2, <1>3, <1>6 DEF HeldBy, Deletes
  <2>4. pump'[g] = n /\ \A h \in Generations \ {g} : pump'[h] = pump[h]
    BY <1>1, <1>2 DEF Pump
  <2>5. ASSUME NEW r \in Of(s) PROVE TurnSafe(r)'
    <3>1. TurnSafe(r) /\ SessionOf[r] = s
      BY <2>5 DEF Safe, Of
    <3> QED BY <1>2, <2>3, <3>1 DEF TurnSafe
  <2>6. SessionSafe(s)'
    BY <1>2, <2>2 DEF Safe, SessionSafe, Of
  <2>7. ASSUME NEW h \in Generations, pump'[h] = pump[h], HeldBy(h, s) PROVE HeldBy(h, s)'
    BY <2>2, <2>7 DEF HeldBy, Eligible, Claimed, Released, Deletes, At, Of
  <2>8. PumpSafe(g)'
    BY <1>4, <2>4 DEF PumpSafe
  <2> QED BY <1>2, <2>1, <2>4, <2>5, <2>6, <2>7, <2>8, StepOfSession
<1> QED BY <1>5, <1>6

LEMMA DeleteRequestSafe ==
    ASSUME Inv, Safe, NEW g \in Generations, NEW r \in Requests, DeleteRequest(g, r)
    PROVE  Safe'
<1>1. UNCHANGED <<session, turn, manual, pump>> /\ pump[g].pc = "delete" /\ r \in pump[g].ids
  BY DEF DeleteRequest, At
<1>2. request'[r] = "none" /\ \A q \in Requests \ {r} : request'[q] = request[q]
  BY DEF DeleteRequest, Inv, RestOK
<1>3. PICK s \in Sessions : HeldBy(g, s)
  BY <1>1 DEF Inside, Safe, PumpSafe
<1>4. SessionOf[r] = s /\ (session[s].deleting \/ Gone(s))
  BY <1>1, <1>3 DEF HeldBy, Deletes, Of
<1>5. Gone(s)' = Gone(s) /\ Of(s)' = Of(s) /\ (Quiet(s) => Quiet(s)')
  BY <1>1, <1>2 DEF Gone, Of, Quiet
<1>6. ASSUME NEW q \in Of(s) PROVE TurnSafe(q)'
  <2>1. TurnSafe(q) /\ SessionOf[q] = s
    BY <1>6 DEF Safe, Of
  <2> QED BY <1>1, <1>2, <1>5, <1>6, <2>1 DEF TurnSafe, Of
<1>7. SessionSafe(s)'
  BY <1>1, <1>4, <1>5 DEF Safe, SessionSafe
<1>8. ASSUME NEW h \in Generations, HeldBy(h, s) PROVE HeldBy(h, s)'
  <2>1. Eligible(h, s)' /\ Claimed(h, s)' /\ Released(h, s)'
    BY <1>1, <1>5, <1>8 DEF HeldBy, Eligible, Claimed, Released, At
  <2>2. Deletes(h, s)'
    BY <1>1, <1>2, <1>5, <1>8 DEF HeldBy, Deletes, Exists, Of
  <2> QED BY <1>1, <1>8, <2>1, <2>2 DEF HeldBy
<1> QED BY <1>1, <1>2, <1>4, <1>6, <1>7, <1>8, StepOfSession

LEMMA AdmitTurnSafe ==
    ASSUME Inv, Safe, NEW r \in Requests, AdmitTurn(r)
    PROVE  Safe'
<1> DEFINE s == SessionOf[r]
<1>1. s \in Sessions
  BY PurgeAssumption
<1>2. UNCHANGED <<session, request, manual, pump>>
  BY DEF AdmitTurn
<1>3. turn'[r] # "stamped" /\ \A q \in Requests \ {r} : turn'[q] = turn[q]
  BY DEF AdmitTurn, Inv, RestOK
<1> HIDE DEF s
<1>4. Gone(s)' = Gone(s) /\ Of(s)' = Of(s) /\ (Quiet(s) => Quiet(s)')
  BY <1>2, <1>3 DEF Gone, Of, Quiet
<1>5. ASSUME NEW q \in Of(s) PROVE TurnSafe(q)'
  <2>1. TurnSafe(q) /\ SessionOf[q] = s
    BY <1>5 DEF Safe, Of
  <2> QED BY <1>2, <1>3, <1>4, <1>5, <2>1 DEF TurnSafe, Of
<1>6. SessionSafe(s)'
  BY <1>1, <1>2, <1>4 DEF Safe, SessionSafe, Exists
<1>7. ASSUME NEW h \in Generations, HeldBy(h, s) PROVE HeldBy(h, s)'
  BY <1>2, <1>4, <1>7 DEF HeldBy, Eligible, Claimed, Released, Deletes, At, Exists
<1>8. \A q \in Requests : SessionOf[q] # s => turn'[q] = turn[q]
  BY <1>3 DEF s
<1> QED BY <1>1, <1>2, <1>5, <1>6, <1>7, <1>8, StepOfSession

\* A turn is stamped in an unclaimed session, so no pump that saw none still
\* means to delete it, and none deletes.
LEMMA StampTurnSafe ==
    ASSUME Inv, Safe, NEW r \in Requests, StampTurn(r)
    PROVE  Safe'
<1> DEFINE s == SessionOf[r]
           t == [session[s] EXCEPT !.recent = TRUE]
<1>1. s \in Sessions /\ session \in [Sessions -> SessionRec] /\ session[s] \in SessionRec
  BY PurgeAssumption DEF Inv, SessionOK
<1>2. UNCHANGED <<request, manual, pump>> /\ turn[r] = "fenced"
  BY DEF StampTurn
<1>3. \A q \in Requests \ {r} : turn'[q] = turn[q]
  BY DEF StampTurn, Inv, RestOK
<1>4. CASE Gone(s) \/ session[s].claim # NoOp
  <2>1. UNCHANGED session /\ turn'[r] # "stamped"
    BY <1>4 DEF StampTurn, Inv, RestOK
  <2> HIDE DEF s
  <2>2. Gone(s)' = Gone(s) /\ Of(s)' = Of(s) /\ (Quiet(s) => Quiet(s)')
    BY <1>2, <1>3, <2>1 DEF Gone, Of, Quiet
  <2>3. ASSUME NEW q \in Of(s) PROVE TurnSafe(q)'
    <3>1. TurnSafe(q) /\ SessionOf[q] = s
      BY <2>3 DEF Safe, Of
    <3> QED BY <1>2, <1>3, <2>1, <2>2, <2>3, <3>1 DEF TurnSafe, Of
  <2>4. SessionSafe(s)'
    BY <1>1, <1>2, <2>1, <2>2 DEF Safe, SessionSafe, Exists
  <2>5. ASSUME NEW h \in Generations, HeldBy(h, s) PROVE HeldBy(h, s)'
    BY <1>2, <2>1, <2>2, <2>5 DEF HeldBy, Eligible, Claimed, Released, Deletes, At, Exists
  <2>6. \A q \in Requests : SessionOf[q] # s => turn'[q] = turn[q]
    BY <1>3 DEF s
  <2> QED BY <1>1, <1>2, <2>1, <2>3, <2>4, <2>5, <2>6, StepOfSession
<1>5. CASE ~Gone(s) /\ session[s].claim = NoOp
  <2>1. session'[s] = t /\ \A u \in Sessions \ {s} : session'[u] = session[u]
    BY <1>1, <1>5 DEF StampTurn
  <2>2. /\ t.claim = NoOp /\ t.state = session[s].state /\ t.deleting = session[s].deleting
        /\ t.plan = session[s].plan /\ t.attached = session[s].attached /\ t.recent
    BY <1>1, <1>5 DEF SessionRec
  <2>3. \A q \in Requests : SessionOf[q] # s => turn'[q] = turn[q]
    BY <1>3
  <2> HIDE DEF s, t
  <2>4. ~Gone(s)' /\ Of(s)' = Of(s) /\ ~session[s].deleting
    BY <1>1, <1>5, <2>1, <2>2 DEF Gone, Of, Inv, SessionOK, SessionSound
  <2>5. ASSUME NEW q \in Of(s) PROVE TurnSafe(q)'
    BY <1>5, <2>1, <2>2, <2>4, <2>5 DEF TurnSafe, Of, Gone
  <2>6. SessionSafe(s)'
    BY <1>1, <1>2, <1>5, <2>1, <2>2, <2>4 DEF Safe, SessionSafe, Exists
  <2>7. ASSUME NEW h \in Generations, HeldBy(h, s) PROVE HeldBy(h, s)'
    <3>1. Eligible(h, s)' /\ Released(h, s)'
      BY <2>1, <2>2 DEF Eligible, Released
    <3>2. Claimed(h, s)'
      BY <1>2, <1>5, <2>7, InsideHasOp DEF HeldBy, Claimed, At, Inside
    <3>3. Deletes(h, s)'
      BY <1>2, <1>5, <2>1, <2>2, <2>4, <2>7 DEF HeldBy, Deletes, Exists
    <3> QED BY <1>2, <2>7, <3>1, <3>2, <3>3 DEF HeldBy
  <2> QED BY <1>1, <1>2, <2>1, <2>3, <2>5, <2>6, <2>7, StepOfSession
<1> QED BY <1>4, <1>5

LEMMA WriteTurnSafe ==
    ASSUME Inv, Safe, NEW r \in Requests, WriteTurn(r)
    PROVE  Safe'
<1> DEFINE s == SessionOf[r]
<1>1. s \in Sessions /\ r \in Of(s)
  BY PurgeAssumption DEF Of
<1>2. UNCHANGED <<session, manual, pump>> /\ turn[r] = "stamped"
  BY DEF WriteTurn
<1>3. /\ turn'[r] = "done" /\ request'[r] = "queued"
      /\ \A q \in Requests \ {r} : turn'[q] = turn[q] /\ request'[q] = request[q]
  BY DEF WriteTurn, Inv, RestOK
<1>4. /\ session[s].state # "gone" /\ ~session[s].deleting
      /\ session[s].recent \/ Gone(s)
  BY <1>2 DEF Safe, TurnSafe
<1>5. \A q \in Requests : SessionOf[q] # s => turn'[q] = turn[q] /\ request'[q] = request[q]
  BY <1>3
<1> HIDE DEF s
<1>6. Gone(s)' = Gone(s) /\ Of(s)' = Of(s) /\ (\A q \in Requests : Exists(q) => Exists(q)')
  BY <1>2, <1>3 DEF Gone, Of, Exists
<1>7. ASSUME NEW q \in Of(s) PROVE TurnSafe(q)'
  <2>1. TurnSafe(q) /\ SessionOf[q] = s
    BY <1>7 DEF Safe, Of
  <2> QED BY <1>2, <1>3, <1>4, <1>6, <1>7, <2>1 DEF TurnSafe, Of
<1>8. SessionSafe(s)'
  BY <1>1, <1>2, <1>6 DEF Safe, SessionSafe, Of
<1>9. ASSUME NEW h \in Generations, HeldBy(h, s) PROVE HeldBy(h, s)'
  BY <1>2, <1>4, <1>6, <1>9 DEF HeldBy, Eligible, Claimed, Released, Deletes, At
<1> QED BY <1>1, <1>2, <1>5, <1>7, <1>8, <1>9, StepOfSession

LEMMA RunTurnSafe ==
    ASSUME Inv, Safe, NEW r \in Requests, RunTurn(r)
    PROVE  Safe'
<1> DEFINE s == SessionOf[r]
           t == [session[s] EXCEPT !.attached = @ \cup {r}]
<1>1. s \in Sessions /\ r \in Of(s) /\ session \in [Sessions -> SessionRec] /\ session[s] \in SessionRec
  BY PurgeAssumption DEF Of, Inv, SessionOK
<1>2. UNCHANGED <<turn, manual, pump>> /\ request[r] = "queued"
  BY DEF RunTurn
<1>3. request'[r] = "terminal" /\ \A q \in Requests \ {r} : request'[q] = request[q]
  BY DEF RunTurn, Inv, RestOK
<1>4. \A u \in Sessions \ {s} : session'[u] = session[u]
  BY <1>1 DEF RunTurn
<1>5. /\ session'[s].state = session[s].state /\ session'[s].claim = session[s].claim
      /\ session'[s].deleting = session[s].deleting /\ session'[s].plan = session[s].plan
      /\ session'[s].recent = session[s].recent
      /\ session'[s].attached = session[s].attached \/ session'[s].attached = session[s].attached \cup {r}
  <2>1. CASE Gone(s)
    BY <2>1 DEF RunTurn
  <2>2. CASE ~Gone(s)
    <3>1. session'[s] = t
      BY <1>1, <2>2 DEF RunTurn
    <3> QED BY <1>1, <3>1 DEF SessionRec
  <2> QED BY <2>1, <2>2
<1>6. \A q \in Requests : SessionOf[q] # s => request'[q] = request[q]
  BY <1>3
<1> HIDE DEF s
<1>7. /\ Gone(s)' = Gone(s) /\ Of(s)' = Of(s) /\ (Quiet(s) => Quiet(s)')
      /\ \A q \in Requests : Exists(q)' = Exists(q)
  BY <1>2, <1>3, <1>5 DEF Gone, Of, Quiet, Exists
<1>8. ASSUME NEW q \in Of(s) PROVE TurnSafe(q)'
  <2>1. TurnSafe(q) /\ SessionOf[q] = s
    BY <1>8 DEF Safe, Of
  <2> QED BY <1>2, <1>3, <1>5, <1>7, <1>8, <2>1 DEF TurnSafe, Of
<1>9. SessionSafe(s)'
  <2>1. SessionSafe(s) /\ Exists(r)
    BY <1>1, <1>2 DEF Safe, Exists
  <2> QED BY <1>1, <1>2, <1>5, <1>7, <2>1 DEF SessionSafe, Of
<1>10. ASSUME NEW h \in Generations, HeldBy(h, s) PROVE HeldBy(h, s)'
  <2>1. Eligible(h, s)' /\ Claimed(h, s)' /\ Released(h, s)'
    BY <1>2, <1>5, <1>7, <1>10 DEF HeldBy, Eligible, Claimed, Released, At
  <2>2. Deletes(h, s)'
    BY <1>2, <1>5, <1>7, <1>10 DEF HeldBy, Deletes, Of
  <2> QED BY <1>2, <1>10, <2>1, <2>2 DEF HeldBy
<1> QED BY <1>1, <1>2, <1>4, <1>6, <1>8, <1>9, <1>10, StepOfSession

LEMMA CloseSessionSafe ==
    ASSUME Inv, Safe, NEW s \in Sessions, CloseSession(s) \/ ManualScan(s)
    PROVE  Safe'
<1> DEFINE t == [session[s] EXCEPT !.state = "closed"]
<1>1. session \in [Sessions -> SessionRec] /\ session[s] \in SessionRec
  BY DEF Inv, SessionOK
<1>2. UNCHANGED <<request, turn, pump>> /\ ~Gone(s)
  BY DEF CloseSession, ManualScan, Gone
<1>3. session'[s] = t /\ \A u \in Sessions \ {s} : session'[u] = session[u]
  BY <1>1 DEF CloseSession, ManualScan
<1>4. /\ t.claim = session[s].claim /\ t.state = "closed" /\ t.deleting = session[s].deleting
      /\ t.plan = session[s].plan /\ t.attached = session[s].attached /\ t.recent = session[s].recent
  BY <1>1 DEF SessionRec
<1> HIDE DEF t
<1>5. ~Gone(s)' /\ Of(s)' = Of(s) /\ Quiet(s)' = Quiet(s)
  BY <1>2, <1>3, <1>4 DEF Gone, Of, Quiet
<1>6. manual' = manual \/ manual' = [manual EXCEPT ![s] = Closure(s)]
  BY DEF CloseSession, ManualScan
<1>7. manual'[s] # Idle => manual'[s] \subseteq Of(s)
  <2>1. SessionSafe(s)
    BY DEF Safe
  <2>2. Closure(s) \subseteq Of(s)
    BY <2>1 DEF SessionSafe, Closure, Of
  <2> QED BY <1>6, <2>1, <2>2 DEF SessionSafe, Inv, RestOK
<1>8. \A u \in Sessions \ {s} : manual'[u] = manual[u]
  BY <1>6 DEF Inv, RestOK
<1>9. ASSUME NEW q \in Of(s) PROVE TurnSafe(q)'
  <2>1. TurnSafe(q) /\ SessionOf[q] = s
    BY <1>9 DEF Safe, Of
  <2> QED BY <1>2, <1>3, <1>4, <1>5, <2>1 DEF TurnSafe
<1>10. SessionSafe(s)'
  BY <1>2, <1>3, <1>4, <1>5, <1>7 DEF Safe, SessionSafe, Exists
<1>11. ASSUME NEW h \in Generations, HeldBy(h, s) PROVE HeldBy(h, s)'
  <2>1. Eligible(h, s)' /\ Claimed(h, s)' /\ Released(h, s)'
    BY <1>2, <1>3, <1>4, <1>5, <1>11 DEF HeldBy, Eligible, Claimed, Released, At
  <2>2. Deletes(h, s)'
    BY <1>2, <1>3, <1>4, <1>5, <1>11 DEF HeldBy, Deletes, Exists
  <2> QED BY <1>2, <1>11, <2>1, <2>2 DEF HeldBy
<1> QED BY <1>2, <1>3, <1>8, <1>9, <1>10, <1>11, StepOfSession

\* The turn is old enough only when no pump is in the session and no turn is
\* under the fence.
LEMMA TimePassesSafe ==
    ASSUME Inv, Safe, NEW s \in Sessions, TimePasses(s)
    PROVE  Safe'
<1> DEFINE t == [session[s] EXCEPT !.recent = FALSE]
<1>1. session \in [Sessions -> SessionRec] /\ session[s] \in SessionRec
  BY DEF Inv, SessionOK
<1>2. UNCHANGED <<request, turn, pump, manual>>
  BY DEF TimePasses
<1>3. session'[s] = t /\ \A u \in Sessions \ {s} : session'[u] = session[u]
  BY <1>1 DEF TimePasses
<1>4. /\ t.claim = session[s].claim /\ t.state = session[s].state /\ t.deleting = session[s].deleting
      /\ t.plan = session[s].plan /\ t.attached = session[s].attached
  BY <1>1 DEF SessionRec
<1> HIDE DEF t
<1>5. Gone(s)' = Gone(s) /\ Of(s)' = Of(s)
  BY <1>3, <1>4 DEF Gone, Of
<1>6. ASSUME NEW q \in Of(s) PROVE TurnSafe(q)'
  <2>1. TurnSafe(q) /\ SessionOf[q] = s /\ turn[q] # "stamped"
    BY <1>6 DEF Safe, Of, TimePasses, FenceFree
  <2> QED BY <1>2, <1>3, <1>4, <2>1 DEF TurnSafe
<1>7. SessionSafe(s)'
  BY <1>2, <1>3, <1>4, <1>5 DEF Safe, SessionSafe, Exists
<1>8. \A h \in Generations : ~HeldBy(h, s)
  BY DEF TimePasses, HeldBy
<1> QED BY <1>2, <1>3, <1>6, <1>7, <1>8, StepOfSession

LEMMA ManualDeleteSafe ==
    ASSUME Inv, Safe, NEW s \in Sessions, ManualDelete(s)
    PROVE  Safe'
<1>1. UNCHANGED <<turn, pump>> /\ manual' = [manual EXCEPT ![s] = Idle] /\ manual[s] # Idle
  BY DEF ManualDelete
<1>2. manual'[s] # Idle => manual'[s] = manual[s]
  BY <1>1 DEF Inv, RestOK
<1>3. \A u \in Sessions \ {s} : manual'[u] = manual[u]
  BY <1>1 DEF Inv, RestOK
<1>4. SessionSafe(s) /\ manual[s] \subseteq Of(s)
  BY <1>1 DEF Safe, SessionSafe
<1>5. CASE UNCHANGED <<request, session>>
  <2>1. Gone(s)' = Gone(s) /\ Of(s)' = Of(s)
    BY <1>5 DEF Gone, Of
  <2>2. \A q \in Of(s) : TurnSafe(q)'
    BY <1>1, <1>5 DEF Safe, TurnSafe, Gone, Of
  <2>3. SessionSafe(s)'
    BY <1>2, <1>4, <1>5, <2>1 DEF SessionSafe, Exists
  <2>4. \A h \in Generations : HeldBy(h, s) => HeldBy(h, s)'
    BY <1>1, <1>5, HeldKept
  <2> QED BY <1>1, <1>3, <1>5, <2>2, <2>3, <2>4, StepOfSession
<1>6. CASE /\ request' = [r \in Requests |-> IF r \in manual[s] THEN "none" ELSE request[r]]
           /\ session' = [session EXCEPT ![s] = NoSession("erased")]
  <2>1. session'[s] = NoSession("erased") /\ \A u \in Sessions \ {s} : session'[u] = session[u]
    BY <1>6 DEF Inv, SessionOK
  <2>2. /\ session'[s].claim = NoOp /\ session'[s].plan = {} /\ session'[s].attached = {} /\ Gone(s)'
        /\ session'[s].state # "gone" /\ ~session'[s].deleting
    BY <2>1 DEF NoSession, Gone
  <2>3. \A r \in Requests : SessionOf[r] # s => request'[r] = request[r]
    BY <1>4, <1>6 DEF Of
  <2>4. ASSUME NEW q \in Of(s) PROVE TurnSafe(q)'
    BY <2>2, <2>4 DEF TurnSafe, Of
  <2>5. SessionSafe(s)'
    BY <1>2, <1>4, <2>2 DEF SessionSafe, Of
  <2>6. ASSUME NEW h \in Generations, HeldBy(h, s) PROVE HeldBy(h, s)'
    BY <1>1, <2>2, <2>6 DEF HeldBy, Eligible, Claimed, Released, Deletes, At, Of
  <2> QED BY <1>1, <1>3, <2>1, <2>3, <2>4, <2>5, <2>6, StepOfSession
<1> QED BY <1>5, <1>6 DEF ManualDelete

LEMMA NextGenerationSafe ==
    ASSUME Inv, Safe, NextGeneration
    PROVE  Safe'
<1>1. UNCHANGED <<session, request>> /\ manual' = [s \in Sessions |-> Idle]
  BY DEF NextGeneration
<1>2. \A r \in Requests : turn'[r] # "stamped"
  BY DEF NextGeneration
<1>3. ASSUME NEW r \in Requests PROVE TurnSafe(r)'
  <2>1. TurnSafe(r)
    BY DEF Safe
  <2> QED BY <1>1, <1>2, <2>1 DEF TurnSafe
<1>4. ASSUME NEW s \in Sessions PROVE SessionSafe(s)'
  <2>1. SessionSafe(s) /\ manual'[s] = Idle
    BY <1>1 DEF Safe
  <2> QED BY <1>1, <2>1 DEF SessionSafe, Gone, Exists, Of
<1>5. ASSUME NEW h \in Generations PROVE PumpSafe(h)'
  <2>1. CASE pump' = [g \in Generations |-> IdlePump]
    BY <2>1 DEF PumpSafe, IdlePump, Inside
  <2>2. CASE UNCHANGED pump /\ pump[h].pc \in Inside
    <3>1. PICK s \in Sessions : HeldBy(h, s)
      BY <2>2 DEF Safe, PumpSafe
    <3>2. Gone(s)' = Gone(s) /\ Of(s)' = Of(s) /\ (Quiet(s) => Quiet(s)')
      BY <1>1, <1>2 DEF Gone, Of, Quiet
    <3>3. HeldBy(h, s)'
      BY <1>1, <2>2, <3>1, <3>2 DEF HeldBy, Eligible, Claimed, Released, Deletes, At, Exists
    <3> QED BY <3>3 DEF PumpSafe
  <2>3. CASE UNCHANGED pump /\ pump[h].pc \notin Inside
    BY <2>3 DEF PumpSafe
  <2> QED BY <2>1, <2>2, <2>3 DEF NextGeneration
<1> QED BY <1>3, <1>4, <1>5 DEF Safe

LEMMA InitSafe ==
    ASSUME PurgeInit
    PROVE  Safe
<1>1. ASSUME NEW r \in Requests PROVE TurnSafe(r)
  BY DEF PurgeInit, TurnSafe
<1>2. ASSUME NEW s \in Sessions PROVE SessionSafe(s)
  <2>1. /\ session[s].state = "open" /\ session[s].claim = NoOp /\ session[s].plan = {}
        /\ session[s].attached = Of(s) \cap Old /\ manual[s] = Idle
    BY DEF PurgeInit
  <2>2. \A r \in Of(s) \cap Old : Exists(r)
    BY DEF PurgeInit, Exists, Of
  <2> QED BY <2>1, <2>2 DEF SessionSafe
<1>3. ASSUME NEW g \in Generations PROVE PumpSafe(g)
  BY DEF PurgeInit, PumpSafe, IdlePump, Inside
<1> QED BY <1>1, <1>2, <1>3 DEF Safe

LEMMA StepSafe ==
    ASSUME Inv, Safe, [PurgeNext]_vars
    PROVE  Safe'
<1>1. ASSUME NEW g \in Generations, PumpStep(g) PROVE Safe'
  <2>1. CASE \E s \in Sessions :
               \/ EnterSession(g, s) \/ ClaimRetention(g, s) \/ Recheck(g, s) \/ ReleaseClaim(g, s)
               \/ BeginDeletion(g, s) \/ FinalClosure(g, s) \/ DeleteSession(g, s)
    BY <2>1, EnterSessionSafe, ClaimRetentionSafe, RecheckSafe, ReleaseClaimSafe, BeginDeletionSafe,
       FinalClosureSafe, DeleteSessionSafe
  <2>2. CASE \E r \in Requests : DeleteRequest(g, r)
    BY <2>2, DeleteRequestSafe
  <2> QED BY <1>1, <2>1, <2>2, LoopSafe, TakeRetentionSafe DEF PumpStep
<1>2. ASSUME NEW g \in Generations, RemovalFails(g) \/ OldPumpDies(g) PROVE Safe'
  BY <1>2, LoopSafe
<1>3. ASSUME NEW r \in Requests, AdmitTurn(r) \/ StampTurn(r) \/ WriteTurn(r) \/ RunTurn(r) PROVE Safe'
  BY <1>3, AdmitTurnSafe, StampTurnSafe, WriteTurnSafe, RunTurnSafe
<1>4. ASSUME NEW s \in Sessions, CloseSession(s) \/ TimePasses(s) \/ ManualScan(s) \/ ManualDelete(s)
      PROVE  Safe'
  BY <1>4, CloseSessionSafe, TimePassesSafe, ManualDeleteSafe
<1>5. CASE UNCHANGED vars \/ ChangePolicy \/ \E o \in Ops : Create(o) \/ CreateCrashes(o) \/ ReadUnknown(o)
  BY <1>5, StepOfPump DEF vars, ChangePolicy, Create, CreateCrashes, ReadUnknown
<1> QED BY <1>1, <1>2, <1>3, <1>4, <1>5, NextGenerationSafe DEF PurgeNext

LEMMA AlwaysSafe == PurgeSpec => [](Inv /\ Safe)
<1>1. PurgeInit => Inv /\ Safe
  BY InitInv, InitSafe
<1>2. (Inv /\ Safe) /\ [PurgeNext]_vars => (Inv /\ Safe)'
  BY StepInv, StepSafe
<1> QED BY <1>1, <1>2, PTL DEF PurgeSpec

\* No operation has deleted the session of a queued turn or begun to
\* (purge_session_under_policy checks again after its claim, and an
\* admission stamps the record before it writes the request), for any
\* number of operations, and of generations whose pumps overlap.
THEOREM AdmittedTurnIsKept == PurgeSpec => []AdmittedTurnKeepsSession
<1>1. Safe => AdmittedTurnKeepsSession
  BY DEF Safe, TurnSafe, AdmittedTurnKeepsSession
<1> QED BY <1>1, AlwaysSafe, PTL

\* Only the last step of a deletion removes the session record, and by then
\* the requests of the session are gone.
LEMMA StepGoesLast ==
    ASSUME Inv, Safe, [PurgeNext]_vars, NEW s \in Sessions,
           session'[s].state = "gone", session[s].state # "gone"
    PROVE  \A r \in Of(s) : request'[r] = "none"
<1>1. session \in [Sessions -> SessionRec]
  BY DEF Inv, SessionOK
<1>2. PICK g \in Generations : DeleteSession(g, s)
  <2>1. ASSUME NEW t \in Sessions, NEW g \in Generations,
               ClaimRetention(g, t) \/ ReleaseClaim(g, t) \/ BeginDeletion(g, t)
        PROVE  session'[s].state = session[s].state
    BY <1>1, <2>1 DEF ClaimRetention, ReleaseClaim, BeginDeletion, SessionRec
  <2>2. ASSUME NEW r \in Requests, StampTurn(r) \/ RunTurn(r)
        PROVE  session'[s].state = session[s].state
    BY <1>1, <2>2, PurgeAssumption DEF StampTurn, RunTurn, SessionRec
  <2>3. ASSUME NEW t \in Sessions, CloseSession(t) \/ TimePasses(t) \/ ManualScan(t)
        PROVE  session'[s].state \in {session[s].state, "closed"}
    BY <1>1, <2>3 DEF CloseSession, TimePasses, ManualScan, SessionRec
  <2>4. ASSUME NEW t \in Sessions, ManualDelete(t)
        PROVE  session'[s].state \in {session[s].state, "erased"}
    BY <1>1, <2>4 DEF ManualDelete, NoSession
  <2>5. ASSUME NEW t \in Sessions, NEW g \in Generations, DeleteSession(g, t), t # s
        PROVE  session'[s].state = session[s].state
    BY <1>1, <2>5 DEF DeleteSession
  <2>6. ASSUME NEW g \in Generations, PumpStep(g)
        PROVE  \/ UNCHANGED session
               \/ \E t \in Sessions :
                    \/ ClaimRetention(g, t) \/ ReleaseClaim(g, t) \/ BeginDeletion(g, t) \/ DeleteSession(g, t)
    BY <2>6, Zenon
    DEF PumpStep, Poll, RecoverClaims, ListDispatchable, ClaimOperation, EndRun, SelectSessions,
        EndSessions, EnterSession, Recheck, FinalClosure, TakeRetention, DeleteRequest, Finish, Fail,
        OwnershipLost
  <2>7. \/ UNCHANGED session
        \/ \E g \in Generations : PumpStep(g)
        \/ \E r \in Requests : StampTurn(r) \/ RunTurn(r)
        \/ \E t \in Sessions : CloseSession(t) \/ TimePasses(t) \/ ManualScan(t) \/ ManualDelete(t)
    BY DEF PurgeNext, vars, Create, CreateCrashes, ReadUnknown, RemovalFails, OldPumpDies, AdmitTurn,
     WriteTurn, ChangePolicy, NextGeneration
  <2> QED BY <2>1, <2>2, <2>3, <2>4, <2>5, <2>6, <2>7
<1>3. /\ pump[g].pc = "delete" /\ pump[g].session = {s} /\ UNCHANGED request
      /\ \A r \in pump[g].ids : ~Exists(r)
  BY <1>2 DEF DeleteSession, At
<1>4. HeldBy(g, s)
  BY <1>3, HoldsIts DEF Inside
<1>5. ~Gone(s)
  BY <1>2 DEF DeleteSession
<1>6. \A r \in Of(s) : ~Exists(r)
  BY <1>3, <1>4, <1>5 DEF HeldBy, Deletes
<1> QED BY <1>3, <1>6 DEF Exists

\* When an operation removes a session record, no request of the session is
\* left on disk: delete_session_lineage removes the directories of the plan
\* and of a last scan first, and nothing is admitted in between.
THEOREM SessionRecordGoesLast == PurgeSpec => SessionGoesLast
<1>1. (Inv /\ Safe) /\ [PurgeNext]_vars =>
        [\A s \in Sessions :
            session'[s].state = "gone" /\ session[s].state # "gone"
              => \A r \in Of(s) : request'[r] = "none"]_vars
  BY StepGoesLast
<1> QED BY <1>1, AlwaysSafe, PTL DEF PurgeSpec, SessionGoesLast
=============================================================================
