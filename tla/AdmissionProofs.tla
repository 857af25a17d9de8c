--------------------------- MODULE AdmissionProofs ---------------------------
(***************************************************************************)
(* Proofs about Admission, for every set of calls, keys and intents and    *)
(* any number of crashes and faults.                                       *)
(*                                                                         *)
(* OneRequestPerKey is not inductive: that a call past the record scan is  *)
(* alone with its key rests on the admission lock (KeyReserved), and that  *)
(* the ordinals ascend rests on what a scan made before the lock still     *)
(* bounds (OrdinalInv).  There is one lemma per action; the conjuncts its  *)
(* assignments cannot disturb share a step.                                *)
(***************************************************************************)
EXTENDS Admission, FiniteSetTheorems, WellFoundedInduction, TLAPS

\* A call past the record scan, before its record: nobody has the key.
KeyReserved ==
    \A c, d \in Calls :
        pc[c] \in {"ordinal", "record"} /\ Live(d) => KeyOf[d] # KeyOf[c]

\* What the steps of a call say of its request.
CallInv ==
    \A c \in Calls :
        /\ pc[c] \in Admitting => state[c] = "queued"
        /\ pc[c] \in {"probe", "scan", "lock", "look", "match", "ordinal", "record"}
             => c \notin work /\ state[c] = "none" /\ answer[c].kind = "none"
        /\ c \in work => pc[c] \in {"return", "enqueue", "done", "dead"}
        /\ c \in queue => pc[c] \in {"done", "dead"}
        /\ state[c] = "running" => c \in work
        /\ answer[c].kind = "created" => pc[c] \in {"enqueue", "done", "dead"}
        /\ pc[c] = "return" => c \in work \cup unmarked

\* Above every ordinal the records hold.
OrdinalBound == IF sequence = Missing THEN Cardinality(Legacy) ELSE sequence

OrdinalInv ==
    /\ \A c \in Calls : ordinal[c] <= OrdinalBound
    /\ \A c, d \in Calls :
        sequence = Missing /\ hint[c] # Missing => ordinal[d] <= hint[c]
    /\ \A c, d \in Calls :
        pc[c] = "record" /\ c \in SessionCalls =>
            hint[c] = sequence /\ hint[c] > 0 /\ ordinal[d] < hint[c]

IInv ==
    /\ AdmissionTypeOK
    /\ OneRequestPerKey
    /\ ReplayFaithful
    /\ CreatedIsDiscoverable
    /\ KeyReserved
    /\ CallInv
    /\ OrdinalInv

LEMMA MaxExists ==
    ASSUME NEW S \in SUBSET Nat, S # {}, NEW B \in Nat, \A x \in S : x <= B
    PROVE  \E m \in S : \A n \in S : n <= m
<1> DEFINE T == {B - x : x \in S}
<1>0. \A x \in S : x \in Nat /\ B - x \in Nat
  OBVIOUS
<1>1. T \subseteq Nat /\ T # {}
  BY <1>0
<1>2. PICK t \in T : \A y \in T : ~(<<y, t>> \in OpToRel(<, Nat))
  BY <1>1, NatLessThanWellFounded, WFMin
<1>3. \A y \in T : ~(y < t)
  <2>1. SUFFICES ASSUME NEW y \in T, y < t PROVE FALSE
    OBVIOUS
  <2>2. <<y, t>> \in OpToRel(<, Nat)
    BY <1>1, <2>1 DEF OpToRel
  <2> QED BY <2>2, <1>2
<1>4. PICK m \in S : t = B - m
  BY <1>2
<1>5. \A n \in S : n <= m
  <2> SUFFICES ASSUME NEW n \in S PROVE n <= m
    OBVIOUS
  <2>1. ~(B - n < t)
    BY <1>3
  <2> QED BY <1>0, <1>4, <2>1
<1> QED BY <1>5

\* The admission lock has one holder.
LEMMA OneHolder ==
    ASSUME IInv, NEW c \in Calls, pc[c] \in Locked, NEW d \in Calls, d # c
    PROVE  pc[d] \notin Locked
<1>1. lock = {c} /\ {c} # {d}
  BY DEF IInv, AdmissionTypeOK
<1> QED BY <1>1 DEF IInv, AdmissionTypeOK

LEMMA BoundIsNat ==
    ASSUME IInv
    PROVE  OrdinalBound \in Nat
<1>1. IsFiniteSet(Legacy)
  BY AdmissionAssumption, FS_Subset
<1>2. Cardinality(Legacy) \in Nat
  BY <1>1, FS_CardinalityType
<1> QED BY <1>2 DEF IInv, AdmissionTypeOK, OrdinalBound, Missing

\* Every enqueue ordinal is below a bound, so the scan finds the highest.
LEMMA ScanIsMax ==
    ASSUME IInv
    PROVE  ScanOrdinals \in Nat /\ \A d \in Calls : ordinal[d] <= ScanOrdinals
<1> DEFINE found == {ordinal[c] : c \in {d \in Calls : Live(d)}} \cup {0}
<1>1. OrdinalBound \in Nat
  BY BoundIsNat
<1>2. found \in SUBSET Nat /\ found # {}
  BY DEF IInv, AdmissionTypeOK
<1>3. \A x \in found : x <= OrdinalBound
  BY <1>1 DEF IInv, OrdinalInv
<1>4. \E m \in found : \A n \in found : n <= m
  BY <1>1, <1>2, <1>3, MaxExists
<1>5. ScanOrdinals \in found /\ \A n \in found : n <= ScanOrdinals
  BY <1>4 DEF ScanOrdinals
<1>6. \A d \in Calls : ordinal[d] \in found
  BY DEF IInv, AdmissionTypeOK
<1> QED BY <1>2, <1>5, <1>6

LEMMA ProbeInv ==
    ASSUME IInv, NEW c \in Calls, Probe(c)
    PROVE  IInv'
<1>1. AdmissionTypeOK'
  BY DEF IInv, Probe, Goto, durable, AdmissionTypeOK, Live, Locked
<1>2. KeyReserved'
  BY DEF IInv, Probe, Goto, durable, KeyReserved, AdmissionTypeOK, Live
<1>3. CallInv'
  BY DEF IInv, Probe, Goto, durable, CallInv, AdmissionTypeOK, Admitting
<1>4. OrdinalInv'
  BY DEF IInv, Probe, Goto, durable, OrdinalInv, AdmissionTypeOK, OrdinalBound
<1>5. OneRequestPerKey' /\ ReplayFaithful' /\ CreatedIsDiscoverable'
  BY DEF IInv, Probe, durable, OneRequestPerKey, ReplayFaithful, CreatedIsDiscoverable,
     Live
<1> QED BY <1>1, <1>2, <1>3, <1>4, <1>5 DEF IInv

LEMMA ScanInv ==
    ASSUME IInv, NEW c \in Calls, Scan(c)
    PROVE  IInv'
<1>1. AdmissionTypeOK'
  <2>1. ScanOrdinals \in Nat
    BY ScanIsMax
  <2> QED BY <2>1 DEF IInv, AdmissionTypeOK, Scan, Goto, durable, Live, Locked
<1>2. KeyReserved'
  BY DEF IInv, Scan, Goto, durable, KeyReserved, AdmissionTypeOK, Live
<1>3. CallInv'
  BY DEF IInv, Scan, Goto, durable, CallInv, AdmissionTypeOK, Admitting
<1>4. OrdinalInv'
  <2>1. ScanOrdinals \in Nat /\ \A d \in Calls : ordinal[d] <= ScanOrdinals
    BY ScanIsMax
  <2> QED BY <2>1 DEF IInv, AdmissionTypeOK, OrdinalInv, OrdinalBound, Scan, Goto, durable, Missing
<1>5. OneRequestPerKey' /\ ReplayFaithful' /\ CreatedIsDiscoverable'
  BY DEF IInv, Scan, durable, OneRequestPerKey, ReplayFaithful, CreatedIsDiscoverable,
     Live
<1> QED BY <1>1, <1>2, <1>3, <1>4, <1>5 DEF IInv

LEMMA TakeLockInv ==
    ASSUME IInv, NEW c \in Calls, TakeLock(c)
    PROVE  IInv'
<1>1. AdmissionTypeOK'
  BY DEF IInv, TakeLock, Goto, durable, AdmissionTypeOK, Live, Locked
<1>2. KeyReserved'
  BY DEF IInv, TakeLock, Goto, durable, KeyReserved, AdmissionTypeOK, Live
<1>3. CallInv'
  BY DEF IInv, TakeLock, Goto, durable, CallInv, AdmissionTypeOK, Admitting
<1>4. OrdinalInv'
  BY DEF IInv, TakeLock, Goto, durable, OrdinalInv, AdmissionTypeOK, OrdinalBound
<1>5. OneRequestPerKey' /\ ReplayFaithful' /\ CreatedIsDiscoverable'
  BY DEF IInv, TakeLock, durable, OneRequestPerKey, ReplayFaithful,
     CreatedIsDiscoverable, Live
<1> QED BY <1>1, <1>2, <1>3, <1>4, <1>5 DEF IInv

LEMMA LookIndexInv ==
    ASSUME IInv, NEW c \in Calls, LookIndex(c)
    PROVE  IInv'
<1>1. AdmissionTypeOK'
  <2>1. UNCHANGED <<state, ordinal, sequence, work, queue, hint, unmarked, crashes, faults>>
    BY DEF LookIndex
  <2>2. index' \in [Keys -> SUBSET Entry]
    <3>1. index \in [Keys -> SUBSET Entry] /\ KeyOf[c] \in Keys
      BY AdmissionAssumption DEF IInv, AdmissionTypeOK
    <3>2. \A e \in index[KeyOf[c]] : [e EXCEPT !.intent = PersistedIntent(e)] \in Entry
      BY <3>1, AdmissionAssumption DEF Entry, PersistedIntent
    <3>3. \E S \in SUBSET Entry : index' = [index EXCEPT ![KeyOf[c]] = S]
      <4>1. CASE index' = [index EXCEPT ![KeyOf[c]] = {}]
        BY <4>1
      <4>2. ASSUME NEW e \in index[KeyOf[c]],
                   index' = [index EXCEPT ![KeyOf[c]] = {[e EXCEPT !.intent = PersistedIntent(e)]}]
            PROVE  \E S \in SUBSET Entry : index' = [index EXCEPT ![KeyOf[c]] = S]
        BY <3>2, <4>2
      <4> QED BY <4>1, <4>2 DEF LookIndex
    <3> QED BY <3>1, <3>3
  <2>3. answer' \in [Calls -> [kind : {"none", "created", "replayed", "conflict", "refused"},
                              request : Calls \cup {"none"}]]
    <3>1. \A e \in index[KeyOf[c]] : e.request \in Calls
      BY AdmissionAssumption DEF IInv, AdmissionTypeOK, Entry
    <3>2. \/ UNCHANGED answer
          \/ \E e \in index[KeyOf[c]] :
                answer' = [answer EXCEPT ![c] = [kind |-> "replayed", request |-> e.request]]
          \/ answer' = [answer EXCEPT ![c] = [kind |-> "conflict", request |-> "none"]]
      BY DEF LookIndex, Answer
    <3> QED BY <3>1, <3>2 DEF IInv, AdmissionTypeOK
  <2>4. /\ lock' \subseteq Calls
        /\ pc' \in [Calls -> {"probe", "scan", "lock", "enqueue", "done", "dead"} \cup Locked]
        /\ \A d \in Calls : pc'[d] \in Locked <=> lock' = {d}
    <3>1. pc[c] \in Locked /\ \A d \in Calls \ {c} : pc[d] \notin Locked
      BY OneHolder DEF LookIndex, Locked
    <3>2. pc' \in [Calls -> {"probe", "scan", "lock", "enqueue", "done", "dead"} \cup Locked]
      BY DEF IInv, AdmissionTypeOK, LookIndex, Goto, Answer, Locked
    <3>3. \A d \in Calls \ {c} : pc'[d] = pc[d]
      BY DEF IInv, AdmissionTypeOK, LookIndex, Goto, Answer
    <3>4. CASE pc'[c] = "done" /\ lock' = {}
      BY <3>1, <3>2, <3>3, <3>4 DEF Locked
    <3>5. CASE pc'[c] = "match" /\ UNCHANGED lock
      BY <3>1, <3>2, <3>3, <3>5 DEF IInv, AdmissionTypeOK, Locked
    <3> QED BY <3>4, <3>5 DEF IInv, AdmissionTypeOK, LookIndex, Goto, Answer
  <2> QED BY <2>1, <2>2, <2>3, <2>4 DEF IInv, AdmissionTypeOK, Live
<1>2. ReplayFaithful'
  BY AdmissionAssumption DEF IInv, LookIndex, Goto, Answer, Trusted, PersistedIntent,
     Entry, ReplayFaithful, AdmissionTypeOK
<1>3. CreatedIsDiscoverable'
  BY DEF IInv, LookIndex, Goto, Answer, CreatedIsDiscoverable, AdmissionTypeOK, CallInv
<1>4. KeyReserved'
  BY DEF IInv, LookIndex, Goto, Answer, KeyReserved, AdmissionTypeOK, Live
<1>5. CallInv'
  BY DEF IInv, LookIndex, Goto, Answer, CallInv, AdmissionTypeOK, Admitting
<1>6. OrdinalInv'
  BY DEF IInv, LookIndex, Goto, Answer, OrdinalInv, AdmissionTypeOK, OrdinalBound
<1>7. OneRequestPerKey'
  BY DEF IInv, LookIndex, OneRequestPerKey, Live
<1> QED BY <1>1, <1>2, <1>3, <1>4, <1>5, <1>6, <1>7 DEF IInv

LEMMA MatchRecordsInv ==
    ASSUME IInv, NEW c \in Calls, MatchRecords(c)
    PROVE  IInv'
<1>1. AdmissionTypeOK'
  <2>1. UNCHANGED <<state, ordinal, sequence, work, queue, hint, unmarked, crashes, faults>>
    BY DEF MatchRecords
  <2>2. index' \in [Keys -> SUBSET Entry]
    BY AdmissionAssumption DEF IInv, AdmissionTypeOK, MatchRecords, Goto, Answer, Matches, Entry
  <2>3. answer' \in [Calls -> [kind : {"none", "created", "replayed", "conflict", "refused"},
                              request : Calls \cup {"none"}]]
    BY AdmissionAssumption DEF IInv, AdmissionTypeOK, MatchRecords, Goto, Answer, Matches, Entry
  <2>4. /\ lock' \subseteq Calls
        /\ pc' \in [Calls -> {"probe", "scan", "lock", "enqueue", "done", "dead"} \cup Locked]
        /\ \A d \in Calls : pc'[d] \in Locked <=> lock' = {d}
    <3>1. pc[c] \in Locked /\ \A d \in Calls \ {c} : pc[d] \notin Locked
      BY OneHolder DEF MatchRecords, Locked
    <3>2. pc' \in [Calls -> {"probe", "scan", "lock", "enqueue", "done", "dead"} \cup Locked]
      BY DEF IInv, AdmissionTypeOK, MatchRecords, Goto, Answer, Locked
    <3>3. \A d \in Calls \ {c} : pc'[d] = pc[d]
      BY DEF IInv, AdmissionTypeOK, MatchRecords, Goto, Answer
    <3>4. CASE pc'[c] = "done" /\ lock' = {}
      BY <3>1, <3>2, <3>3, <3>4 DEF Locked
    <3>5. CASE pc'[c] = "ordinal" /\ UNCHANGED lock
      BY <3>1, <3>2, <3>3, <3>5 DEF IInv, AdmissionTypeOK, Locked
    <3> QED BY <3>4, <3>5 DEF IInv, AdmissionTypeOK, MatchRecords, Goto, Answer
  <2> QED BY <2>1, <2>2, <2>3, <2>4 DEF IInv, AdmissionTypeOK, Live
<1>2. ReplayFaithful'
  BY AdmissionAssumption DEF IInv, MatchRecords, Goto, Answer, Matches, Entry,
     ReplayFaithful, AdmissionTypeOK
<1>3. CreatedIsDiscoverable'
  BY DEF IInv, MatchRecords, Goto, Answer, CreatedIsDiscoverable, AdmissionTypeOK,
     CallInv
<1>4. KeyReserved'
  BY DEF IInv, MatchRecords, Goto, Answer, Matches, KeyReserved, AdmissionTypeOK, Live
<1>5. CallInv'
  BY DEF IInv, MatchRecords, Goto, Answer, CallInv, AdmissionTypeOK, Admitting
<1>6. OrdinalInv'
  BY DEF IInv, MatchRecords, Goto, Answer, OrdinalInv, AdmissionTypeOK, OrdinalBound
<1>7. OneRequestPerKey'
  BY DEF IInv, MatchRecords, OneRequestPerKey, Live
<1> QED BY <1>1, <1>2, <1>3, <1>4, <1>5, <1>6, <1>7 DEF IInv

LEMMA BeforeWriteRefusesInv ==
    ASSUME IInv, NEW c \in Calls, BeforeWriteRefuses(c)
    PROVE  IInv'
<1>1. AdmissionTypeOK'
  <2>1. UNCHANGED <<state, ordinal, sequence, work, queue, hint, unmarked, crashes, faults>>
    BY DEF BeforeWriteRefuses, durable
  <2>2. index' \in [Keys -> SUBSET Entry]
    BY AdmissionAssumption DEF IInv, AdmissionTypeOK, BeforeWriteRefuses, Goto, Answer, durable, Entry
  <2>3. answer' \in [Calls -> [kind : {"none", "created", "replayed", "conflict", "refused"},
                              request : Calls \cup {"none"}]]
    BY AdmissionAssumption DEF IInv, AdmissionTypeOK, BeforeWriteRefuses, Goto, Answer, durable, Entry
  <2>4. /\ lock' \subseteq Calls
        /\ pc' \in [Calls -> {"probe", "scan", "lock", "enqueue", "done", "dead"} \cup Locked]
        /\ \A d \in Calls : pc'[d] \in Locked <=> lock' = {d}
    <3>1. pc[c] \in Locked /\ \A d \in Calls \ {c} : pc[d] \notin Locked
      BY OneHolder DEF BeforeWriteRefuses, Locked
    <3>2. pc' \in [Calls -> {"probe", "scan", "lock", "enqueue", "done", "dead"} \cup Locked]
      BY DEF IInv, AdmissionTypeOK, BeforeWriteRefuses, Goto, Answer, Locked
    <3>3. \A d \in Calls \ {c} : pc'[d] = pc[d]
      BY DEF IInv, AdmissionTypeOK, BeforeWriteRefuses, Goto, Answer
    <3>4. CASE pc'[c] = "done" /\ lock' = {}
      BY <3>1, <3>2, <3>3, <3>4 DEF Locked
    <3> QED BY <3>4 DEF IInv, AdmissionTypeOK, BeforeWriteRefuses, Goto, Answer
  <2> QED BY <2>1, <2>2, <2>3, <2>4 DEF IInv, AdmissionTypeOK, Live
<1>2. ReplayFaithful'
  BY AdmissionAssumption DEF IInv, BeforeWriteRefuses, Goto, Answer, durable,
     ReplayFaithful, AdmissionTypeOK
<1>3. CreatedIsDiscoverable'
  BY DEF IInv, BeforeWriteRefuses, Goto, Answer, durable, CreatedIsDiscoverable,
     AdmissionTypeOK, CallInv
<1>4. KeyReserved'
  BY DEF IInv, BeforeWriteRefuses, Goto, Answer, durable, KeyReserved, AdmissionTypeOK,
     Live
<1>5. CallInv'
  BY DEF IInv, BeforeWriteRefuses, Goto, Answer, durable, CallInv, AdmissionTypeOK,
     Admitting
<1>6. OrdinalInv'
  BY DEF IInv, BeforeWriteRefuses, Goto, Answer, durable, OrdinalInv, AdmissionTypeOK,
     OrdinalBound
<1>7. OneRequestPerKey'
  BY DEF IInv, BeforeWriteRefuses, durable, OneRequestPerKey, Live
<1> QED BY <1>1, <1>2, <1>3, <1>4, <1>5, <1>6, <1>7 DEF IInv

LEMMA WriteOrdinalInv ==
    ASSUME IInv, NEW c \in Calls, WriteOrdinal(c)
    PROVE  IInv'
<1>1. AdmissionTypeOK'
  <2>1. PreviousOrdinal(c) \in Nat
    BY ScanIsMax DEF IInv, AdmissionTypeOK, PreviousOrdinal, Missing
  <2> QED BY <2>1 DEF IInv, AdmissionTypeOK, WriteOrdinal, Goto, Live, Locked
<1>2. KeyReserved'
  BY DEF IInv, WriteOrdinal, Goto, KeyReserved, AdmissionTypeOK, Live
<1>3. CallInv'
  BY DEF IInv, WriteOrdinal, Goto, CallInv, AdmissionTypeOK, Admitting
<1>4. OrdinalInv'
  <2>1. PreviousOrdinal(c) \in Nat /\ \A d \in Calls : ordinal[d] <= PreviousOrdinal(c)
    BY ScanIsMax DEF IInv, AdmissionTypeOK, OrdinalInv, OrdinalBound, PreviousOrdinal, Missing
  <2>2. \A d \in Calls : pc'[d] = "record" => d = c
    BY DEF IInv, AdmissionTypeOK, WriteOrdinal, Goto, Locked
  <2>3. CASE c \in SessionCalls
    BY <2>1, <2>2, <2>3 DEF IInv, AdmissionTypeOK, OrdinalInv, OrdinalBound, WriteOrdinal, Goto, Missing
  <2>4. CASE c \notin SessionCalls
    BY <2>2, <2>4 DEF IInv, AdmissionTypeOK, OrdinalInv, OrdinalBound, WriteOrdinal, Goto, Missing
  <2> QED BY <2>3, <2>4
<1>5. OneRequestPerKey' /\ ReplayFaithful' /\ CreatedIsDiscoverable'
  BY DEF IInv, WriteOrdinal, OneRequestPerKey, ReplayFaithful, CreatedIsDiscoverable,
     Live
<1> QED BY <1>1, <1>2, <1>3, <1>4, <1>5 DEF IInv

LEMMA WriteRecordInv ==
    ASSUME IInv, NEW c \in Calls, WriteRecord(c)
    PROVE  IInv'
<1>1. AdmissionTypeOK'
  <2>1. c \in SessionCalls => hint[c] \in Nat /\ hint[c] > 0
    BY DEF IInv, AdmissionTypeOK, OrdinalInv, WriteRecord, Missing
  <2>2. ordinal' \in [Calls -> Nat]
    BY <2>1 DEF IInv, AdmissionTypeOK, WriteRecord
  <2>3. \A d \in Calls : ordinal'[d] > 0 <=> d \in SessionCalls /\ state'[d] # "none"
    BY <2>1 DEF IInv, AdmissionTypeOK, WriteRecord, Live
  <2> QED BY <2>2, <2>3 DEF IInv, AdmissionTypeOK, WriteRecord, Goto, Live, Locked
<1>2. OneRequestPerKey'
  BY DEF IInv, WriteRecord, OneRequestPerKey, AdmissionTypeOK, Live, KeyReserved
<1>3. CreatedIsDiscoverable'
  BY DEF IInv, WriteRecord, CreatedIsDiscoverable, AdmissionTypeOK, CallInv
<1>4. KeyReserved'
  <2>1. \A d \in Calls : pc'[d] \notin {"ordinal", "record"}
    BY SMTT(30) DEF IInv, AdmissionTypeOK, WriteRecord, Goto, Locked
  <2> QED BY <2>1 DEF KeyReserved
<1>5. CallInv'
  BY DEF IInv, WriteRecord, Goto, CallInv, AdmissionTypeOK, Admitting
<1>6. OrdinalInv'
  <2>1. \A d \in Calls : pc'[d] # "record"
    BY OneHolder DEF IInv, AdmissionTypeOK, WriteRecord, Goto, Locked
  <2>2. sequence = Missing => c \notin SessionCalls
    BY DEF IInv, AdmissionTypeOK, OrdinalInv, WriteRecord, Missing
  <2>3. \A d \in Calls : ordinal'[d] <= OrdinalBound
    BY DEF IInv, AdmissionTypeOK, OrdinalInv, OrdinalBound, WriteRecord, Missing
  <2>4. \A d \in Calls : sequence = Missing => ordinal'[d] <= ordinal[d]
    BY <2>2 DEF IInv, AdmissionTypeOK, WriteRecord
  <2>5. UNCHANGED <<sequence, hint>>
    BY DEF WriteRecord
  <2>6. ordinal \in [Calls -> Nat] /\ ordinal' \in [Calls -> Nat] /\ hint \in [Calls -> Nat \cup {Missing}]
    BY <1>1 DEF IInv, AdmissionTypeOK
  <2> QED BY <2>1, <2>3, <2>4, <2>5, <2>6 DEF IInv, OrdinalInv, OrdinalBound, Missing
<1>7. ReplayFaithful'
  BY DEF IInv, WriteRecord, ReplayFaithful
<1> QED BY <1>1, <1>2, <1>3, <1>4, <1>5, <1>6, <1>7 DEF IInv

LEMMA WriteIndexInv ==
    ASSUME IInv, NEW c \in Calls, WriteIndex(c)
    PROVE  IInv'
<1>1. AdmissionTypeOK'
  <2>1. index' \in [Keys -> SUBSET Entry]
    BY AdmissionAssumption DEF IInv, AdmissionTypeOK, WriteIndex, Entry
  <2> QED BY <2>1 DEF IInv, AdmissionTypeOK, WriteIndex, Goto, Live, Locked
<1>2. KeyReserved'
  BY DEF IInv, WriteIndex, Goto, KeyReserved, AdmissionTypeOK, Live
<1>3. CallInv'
  BY DEF IInv, WriteIndex, Goto, CallInv, AdmissionTypeOK, Admitting
<1>4. OrdinalInv'
  BY DEF IInv, WriteIndex, Goto, OrdinalInv, AdmissionTypeOK, OrdinalBound
<1>5. OneRequestPerKey' /\ ReplayFaithful' /\ CreatedIsDiscoverable'
  BY DEF IInv, WriteIndex, OneRequestPerKey, ReplayFaithful, CreatedIsDiscoverable, Live
<1> QED BY <1>1, <1>2, <1>3, <1>4, <1>5 DEF IInv

LEMMA WriteWorkInv ==
    ASSUME IInv, NEW c \in Calls, WriteWork(c)
    PROVE  IInv'
<1>1. AdmissionTypeOK'
  BY AdmissionAssumption DEF IInv, WriteWork, Goto, AdmissionTypeOK, Live, Locked
<1>2. CreatedIsDiscoverable'
  BY DEF IInv, WriteWork, CreatedIsDiscoverable, AdmissionTypeOK, CallInv
<1>3. KeyReserved'
  BY DEF IInv, WriteWork, Goto, KeyReserved, AdmissionTypeOK, Live
<1>4. CallInv'
  BY DEF IInv, WriteWork, Goto, CallInv, AdmissionTypeOK, Admitting
<1>5. OrdinalInv'
  BY DEF IInv, WriteWork, Goto, OrdinalInv, AdmissionTypeOK, OrdinalBound
<1>6. OneRequestPerKey' /\ ReplayFaithful'
  BY DEF IInv, WriteWork, OneRequestPerKey, ReplayFaithful, Live
<1> QED BY <1>1, <1>2, <1>3, <1>4, <1>5, <1>6 DEF IInv

LEMMA ReturnInv ==
    ASSUME IInv, NEW c \in Calls, Return(c)
    PROVE  IInv'
<1>1. AdmissionTypeOK'
  <2>0. pc[c] \in Locked /\ \A d \in Calls \ {c} : pc[d] \notin Locked
    BY OneHolder DEF Return, Locked
  <2>1. answer' \in [Calls -> [kind : {"none", "created", "replayed", "conflict", "refused"},
                              request : Calls \cup {"none"}]]
    BY DEF IInv, AdmissionTypeOK, Return
  <2>2. \A d \in Calls : pc'[d] \notin Locked /\ lock' # {d}
    BY <2>0 DEF IInv, AdmissionTypeOK, Return, Goto, Locked
  <2> QED BY <2>1, <2>2 DEF IInv, AdmissionTypeOK, Return, Goto, durable, Live, Locked
<1>2. ReplayFaithful'
  BY AdmissionAssumption DEF IInv, Return, durable, ReplayFaithful, AdmissionTypeOK
<1>3. CreatedIsDiscoverable'
  BY DEF IInv, Return, durable, CreatedIsDiscoverable, AdmissionTypeOK, CallInv
<1>4. KeyReserved'
  BY DEF IInv, Return, Goto, durable, KeyReserved, AdmissionTypeOK, Live
<1>5. CallInv'
  BY DEF IInv, Return, Goto, durable, CallInv, AdmissionTypeOK, Admitting
<1>6. OrdinalInv'
  BY DEF IInv, Return, Goto, durable, OrdinalInv, AdmissionTypeOK, OrdinalBound
<1>7. OneRequestPerKey'
  BY DEF IInv, Return, durable, OneRequestPerKey, Live
<1> QED BY <1>1, <1>2, <1>3, <1>4, <1>5, <1>6, <1>7 DEF IInv

LEMMA EnqueueInv ==
    ASSUME IInv, NEW c \in Calls, Enqueue(c)
    PROVE  IInv'
<1>1. AdmissionTypeOK'
  <2>1. state[c] = "queued"
    BY DEF IInv, CallInv, Enqueue, Admitting
  <2>2. \A d \in Calls : Live(d)' <=> Live(d)
    BY <2>1 DEF IInv, AdmissionTypeOK, Enqueue, Live
  <2> QED BY <2>1, <2>2 DEF IInv, AdmissionTypeOK, Enqueue, Goto, Locked
<1>2. OneRequestPerKey'
  <2>1. state[c] = "queued"
    BY DEF IInv, CallInv, Enqueue, Admitting
  <2>2. \A d \in Calls : Live(d)' <=> Live(d)
    BY <2>1 DEF IInv, AdmissionTypeOK, Enqueue, Live
  <2> QED BY <2>2 DEF IInv, OneRequestPerKey
<1>3. CreatedIsDiscoverable'
  BY DEF IInv, Enqueue, CreatedIsDiscoverable, AdmissionTypeOK, CallInv
<1>4. KeyReserved'
  <2>1. state[c] = "queued"
    BY DEF IInv, CallInv, Enqueue, Admitting
  <2>2. \A d \in Calls : Live(d)' <=> Live(d)
    BY <2>1 DEF IInv, AdmissionTypeOK, Enqueue, Live
  <2> QED BY <2>2 DEF IInv, AdmissionTypeOK, KeyReserved, Enqueue, Goto
<1>5. CallInv'
  BY DEF IInv, Enqueue, Goto, CallInv, AdmissionTypeOK, Admitting
<1>6. OrdinalInv'
  BY DEF IInv, Enqueue, Goto, OrdinalInv, AdmissionTypeOK, OrdinalBound
<1>7. ReplayFaithful'
  BY DEF IInv, Enqueue, ReplayFaithful
<1> QED BY <1>1, <1>2, <1>3, <1>4, <1>5, <1>6, <1>7 DEF IInv

LEMMA ClaimInv ==
    ASSUME IInv, NEW c \in Calls, Claim(c)
    PROVE  IInv'
<1>1. AdmissionTypeOK'
  BY DEF IInv, Claim, AdmissionTypeOK, Live, Locked
<1>2. OneRequestPerKey'
  BY DEF IInv, Claim, OneRequestPerKey, AdmissionTypeOK, Live
<1>3. CreatedIsDiscoverable'
  BY DEF IInv, Claim, CreatedIsDiscoverable, AdmissionTypeOK, CallInv
<1>4. KeyReserved'
  BY DEF IInv, Claim, KeyReserved, AdmissionTypeOK, Live
<1>5. CallInv'
  BY DEF IInv, Claim, CallInv, AdmissionTypeOK, Admitting
<1>6. ReplayFaithful' /\ OrdinalInv'
  BY DEF IInv, Claim, ReplayFaithful, OrdinalInv, OrdinalBound
<1> QED BY <1>1, <1>2, <1>3, <1>4, <1>5, <1>6 DEF IInv

LEMMA FinishInv ==
    ASSUME IInv, NEW c \in Calls, Finish(c)
    PROVE  IInv'
<1>1. AdmissionTypeOK'
  BY DEF IInv, Finish, AdmissionTypeOK, Live, Locked
<1>2. OneRequestPerKey'
  BY DEF IInv, Finish, OneRequestPerKey, AdmissionTypeOK, Live
<1>3. CreatedIsDiscoverable'
  BY DEF IInv, Finish, CreatedIsDiscoverable, AdmissionTypeOK, CallInv
<1>4. KeyReserved'
  BY DEF IInv, Finish, KeyReserved, AdmissionTypeOK, Live
<1>5. CallInv'
  BY DEF IInv, Finish, CallInv, AdmissionTypeOK, Admitting
<1>6. ReplayFaithful' /\ OrdinalInv'
  BY DEF IInv, Finish, ReplayFaithful, OrdinalInv, OrdinalBound
<1> QED BY <1>1, <1>2, <1>3, <1>4, <1>5, <1>6 DEF IInv

LEMMA PurgeInv ==
    ASSUME IInv, NEW c \in Calls, Purge(c)
    PROVE  IInv'
<1>1. AdmissionTypeOK'
  BY DEF IInv, Purge, AdmissionTypeOK, Live, Locked
<1>2. OneRequestPerKey'
  BY DEF IInv, Purge, OneRequestPerKey, AdmissionTypeOK, Live
<1>3. CreatedIsDiscoverable'
  BY DEF IInv, Purge, CreatedIsDiscoverable, AdmissionTypeOK, CallInv
<1>4. KeyReserved'
  BY DEF IInv, Purge, KeyReserved, AdmissionTypeOK, Live
<1>5. CallInv'
  BY DEF IInv, Purge, CallInv, AdmissionTypeOK, Admitting
<1>6. OrdinalInv'
  <2>1. \A d \in Calls : ordinal'[d] <= ordinal[d] /\ ordinal'[d] \in Nat
    BY DEF IInv, AdmissionTypeOK, Purge
  <2>2. UNCHANGED <<sequence, hint, pc>>
    BY DEF Purge
  <2>3. OrdinalBound \in Nat
    BY BoundIsNat
  <2> QED BY <2>1, <2>2, <2>3 DEF IInv, AdmissionTypeOK, OrdinalInv, OrdinalBound, Missing
<1>7. ReplayFaithful'
  BY DEF IInv, Purge, ReplayFaithful
<1> QED BY <1>1, <1>2, <1>3, <1>4, <1>5, <1>6, <1>7 DEF IInv

LEMMA DamageIndexInv ==
    ASSUME IInv, NEW k \in Keys, DamageIndex(k)
    PROVE  IInv'
<1>1. AdmissionTypeOK'
  BY AdmissionAssumption DEF IInv, DamageIndex, Entry, AdmissionTypeOK, Live, Locked
<1>2. OneRequestPerKey' /\ ReplayFaithful' /\ CreatedIsDiscoverable' /\ KeyReserved' /\ CallInv' /\ OrdinalInv'
  BY DEF IInv, DamageIndex, OneRequestPerKey, ReplayFaithful, CreatedIsDiscoverable,
     KeyReserved, CallInv, OrdinalInv, OrdinalBound, Live
<1> QED BY <1>1, <1>2 DEF IInv

LEMMA CrashAndRecoverInv ==
    ASSUME IInv, CrashAndRecover
    PROVE  IInv'
<1>1. AdmissionTypeOK'
  BY AdmissionAssumption DEF IInv, CrashAndRecover, AdmissionTypeOK, Live, Locked
<1>2. CreatedIsDiscoverable'
  BY DEF IInv, CrashAndRecover, CreatedIsDiscoverable, AdmissionTypeOK, CallInv
<1>3. KeyReserved'
  BY DEF IInv, CrashAndRecover, KeyReserved, AdmissionTypeOK, Live
<1>4. CallInv'
  BY DEF IInv, CrashAndRecover, CallInv, AdmissionTypeOK, Admitting
<1>5. OrdinalInv'
  BY DEF IInv, CrashAndRecover, OrdinalInv, AdmissionTypeOK, OrdinalBound
<1>6. OneRequestPerKey' /\ ReplayFaithful'
  BY DEF IInv, CrashAndRecover, OneRequestPerKey, ReplayFaithful, Live
<1> QED BY <1>1, <1>2, <1>3, <1>4, <1>5, <1>6 DEF IInv

\* The initial states satisfy the invariant.
LEMMA InitInv ==
    ASSUME AdmissionInit
    PROVE  IInv
<1>1. IsFiniteSet(Legacy)
  BY AdmissionAssumption, FS_Subset
<1>2. Cardinality(Legacy) \in Nat
  BY <1>1, FS_CardinalityType
<1>3. state \in [Calls -> {"none", "terminal"}] /\ \A c \in Calls : state[c] = "terminal" <=> c \in Legacy
  BY DEF AdmissionInit
<1>4. /\ ordinal \in [Calls -> 0..Cardinality(Legacy)]
      /\ \A c \in Calls : ordinal[c] > 0 <=> c \in Legacy
  BY DEF AdmissionInit
<1>5. AdmissionTypeOK
  BY <1>2, <1>3, <1>4, AdmissionAssumption DEF AdmissionInit, AdmissionTypeOK, Live, Locked, Missing, Nobody
<1>6. OneRequestPerKey
  BY <1>3, AdmissionAssumption DEF OneRequestPerKey, Live
<1>7. ReplayFaithful /\ CreatedIsDiscoverable
  BY <1>3 DEF AdmissionInit, ReplayFaithful, CreatedIsDiscoverable, Nobody
<1>8. KeyReserved /\ CallInv
  BY <1>3 DEF AdmissionInit, KeyReserved, CallInv, Nobody, Admitting
<1>9. OrdinalInv
  BY <1>2, <1>4 DEF AdmissionInit, OrdinalInv, OrdinalBound, Missing
<1> QED BY <1>5, <1>6, <1>7, <1>8, <1>9 DEF IInv

\* Every step preserves it.
LEMMA StepInv ==
    ASSUME IInv, [AdmissionNext]_vars
    PROVE  IInv'
<1>1. ASSUME NEW c \in Calls, CallStep(c) PROVE IInv'
  BY <1>1, ProbeInv, ScanInv, TakeLockInv, LookIndexInv, MatchRecordsInv, BeforeWriteRefusesInv,
     WriteOrdinalInv, WriteRecordInv, WriteIndexInv, WriteWorkInv, ReturnInv, EnqueueInv DEF CallStep
<1>2. ASSUME NEW r \in Calls, Claim(r) \/ Finish(r) \/ Purge(r) PROVE IInv'
  BY <1>2, ClaimInv, FinishInv, PurgeInv
<1>3. ASSUME NEW k \in Keys, DamageIndex(k) PROVE IInv'
  BY <1>3, DamageIndexInv
<1>4. CASE CrashAndRecover
  BY <1>4, CrashAndRecoverInv
<1>5. CASE UNCHANGED vars
  BY <1>5 DEF vars, IInv, AdmissionTypeOK, OneRequestPerKey, ReplayFaithful, CreatedIsDiscoverable,
     KeyReserved, CallInv, OrdinalInv, OrdinalBound, Live
<1> QED BY <1>1, <1>2, <1>3, <1>4, <1>5 DEF AdmissionNext

LEMMA AlwaysIInv == AdmissionSpec => []IInv
BY InitInv, StepInv, PTL DEF AdmissionSpec

\* Every state of admission is well typed: only the holder of the admission
\* lock is between its lock and its return, and exactly the session requests
\* on disk have an ordinal.
THEOREM TypeCorrect == AdmissionSpec => []AdmissionTypeOK
<1>1. IInv => AdmissionTypeOK
  BY DEF IInv
<1> QED BY <1>1, AlwaysIInv, PTL

\* An idempotency key never has two request records (admit_record), however
\* many calls, crashes, purges and damaged indexes there are.
THEOREM KeyIsReserved == AdmissionSpec => []OneRequestPerKey
<1>1. IInv => OneRequestPerKey
  BY DEF IInv
<1> QED BY <1>1, AlwaysIInv, PTL

\* A replayed answer names a request of the caller's key and intent, also
\* from a damaged index (admit_record reads the record again).
THEOREM RepliesAreFaithful == AdmissionSpec => []ReplayFaithful
<1>1. IInv => ReplayFaithful
  BY DEF IInv
<1> QED BY <1>1, AlwaysIInv, PTL

\* A created request stays in the work index until it is terminal, over any
\* number of crashes (admit_record, claim_dispatch, recovery).
THEOREM CreatedStaysDiscoverable == AdmissionSpec => []CreatedIsDiscoverable
<1>1. IInv => CreatedIsDiscoverable
  BY DEF IInv
<1> QED BY <1>1, AlwaysIInv, PTL

\* Only WriteRecord gives an ordinal, and OrdinalInv bounds the others.
LEMMA StepAscends ==
    ASSUME IInv, [AdmissionNext]_vars, NEW c \in Calls, NEW d \in Calls,
           ordinal'[c] # ordinal[c], ordinal'[c] > 0, d # c
    PROVE  ordinal'[c] > ordinal[d]
<1>1. \/ UNCHANGED ordinal
      \/ \E r \in Calls : WriteRecord(r) \/ Purge(r)
  BY DEF AdmissionNext, CallStep, Probe, Scan, TakeLock, LookIndex, MatchRecords, BeforeWriteRefuses,
     WriteOrdinal, WriteIndex, WriteWork, Return, Enqueue, Claim, Finish, DamageIndex, CrashAndRecover,
     durable, vars
<1>2. ASSUME NEW r \in Calls, Purge(r) PROVE FALSE
  BY <1>2 DEF IInv, AdmissionTypeOK, Purge
<1>3. PICK r \in Calls : WriteRecord(r)
  BY <1>1, <1>2
<1>4. r = c
  BY <1>3 DEF IInv, AdmissionTypeOK, WriteRecord
<1>5. c \in SessionCalls /\ ordinal'[c] = hint[c]
  BY <1>3, <1>4 DEF IInv, AdmissionTypeOK, WriteRecord
<1> QED BY <1>3, <1>4, <1>5 DEF IInv, AdmissionTypeOK, OrdinalInv, WriteRecord, Missing

\* A new record's enqueue ordinal is above all that are on disk, whatever the
\* pre-lock scans of overlapping calls found (admit_record).
THEOREM OrdinalsAlwaysAscend == AdmissionSpec => OrdinalsAscend
<1>1. IInv /\ [AdmissionNext]_vars =>
        [\A c, d \in Calls :
            ordinal'[c] # ordinal[c] /\ ordinal'[c] > 0 /\ d # c => ordinal'[c] > ordinal[d]]_vars
  BY StepAscends
<1> QED BY <1>1, AlwaysIInv, PTL DEF AdmissionSpec, OrdinalsAscend
=============================================================================
