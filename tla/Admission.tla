----------------------------- MODULE Admission -----------------------------
(***************************************************************************)
(* Admission of a gateway request under an idempotency key:                *)
(* store/_admission.py:admit_record, the calls around it in                *)
(* api.py:submit_execution_request, and what finds the request again after *)
(* a crash (queue/recovery.py, queue/work_index.py).                       *)
(*                                                                         *)
(* Every call generates its own request id, so a call and the request it   *)
(* would create are the same value.  Of a request the model keeps its key  *)
(* and its intent digest (functions of the call: both are hashes of what   *)
(* the caller sent), its state and its enqueue ordinal; prompts, metadata  *)
(* and node descriptors are left out.  The steps of admit_record are       *)
(* separate actions because the process can stop between any two of its    *)
(* file writes, because the fallback scan runs before the admission lock   *)
(* is taken, and because a purge deletes records without that lock.        *)
(*                                                                         *)
(* Left out: a record that exists and cannot be read (reached through its  *)
(* index it makes admission raise; without an index the scan skips it, and *)
(* a second record of the key may be created), and a submission without a  *)
(* service root (no work index at all).                                    *)
(***************************************************************************)
EXTENDS Integers, FiniteSets

CONSTANTS
    Calls,          \* admission calls, each with the request id it generated
    Keys,           \* idempotency key digests
    Intents,        \* intent digests
    KeyOf,          \* [Calls -> Keys]
    IntentOf,       \* [Calls -> Intents]
    SessionCalls,   \* calls whose transport is "provider-session"
    Legacy,         \* requests admitted before the sequence file existed
    MaxCrashes,     \* bound: process crashes
    MaxFaults       \* bound: damaged indexes and failed work-index writes

ASSUME AdmissionAssumption ==
    /\ KeyOf \in [Calls -> Keys]
    /\ IntentOf \in [Calls -> Intents]
    /\ SessionCalls \subseteq Calls
    /\ Legacy \subseteq SessionCalls
    /\ IsFiniteSet(Calls)
    /\ \A a, b \in Legacy : KeyOf[a] = KeyOf[b] => a = b
    /\ MaxCrashes \in Nat
    /\ MaxFaults \in Nat

VARIABLES
    state,      \* [Calls -> request state; "none" is no record.json]
    ordinal,    \* [Calls -> enqueue-ordinal in the record; 0 is none]
    index,      \* [Keys -> set of at most one index entry]
    sequence,   \* enqueue-sequence.json; Missing when there is no file
    work,       \* requests with a work-index entry
    queue,      \* requests the running gateway's queue holds in memory
    lock,       \* calls holding the project's admission lock, at most one
    pc,         \* [Calls -> the next step of the call]
    hint,       \* [Calls -> fallback_ordinal, Missing when it is None]
    answer,     \* [Calls -> what the call returned]
    unmarked,   \* history: calls whose work-index write failed
    crashes,    \* crashes so far
    faults      \* faults so far

vars == <<state, ordinal, index, sequence, work, queue, lock, pc, hint,
          answer, unmarked, crashes, faults>>

durable == <<state, ordinal, index, sequence, work>>

Missing == -1

\* What an idempotency index file can hold (_read_idempotency_index).
Entry == [key : Keys, intent : Intents, request : Calls]

Nobody == [kind |-> "none", request |-> "none"]

\* The calls that have written request.json and not yet enqueued it.
Admitting == {"index", "work", "return", "enqueue"}

\* The steps taken under the admission lock.
Locked == {"look", "match", "ordinal", "record", "index", "work", "return"}

Live(c) == state[c] # "none"

\* The highest ordinal of a record on disk, 0 without one.
ScanOrdinals ==
    LET found == {ordinal[c] : c \in {d \in Calls : Live(d)}} \cup {0}
    IN  CHOOSE m \in found : \A n \in found : n <= m

AdmissionInit ==
    /\ state \in {s \in [Calls -> {"none", "terminal"}] :
                    \A c \in Calls : s[c] = "terminal" <=> c \in Legacy}
    /\ ordinal \in {o \in [Calls -> 0..Cardinality(Legacy)] :
                    /\ \A c \in Calls : o[c] > 0 <=> c \in Legacy
                    /\ \A a, b \in Legacy : o[a] = o[b] => a = b}
    /\ index = [k \in Keys |-> {}]
    /\ sequence = Missing
    /\ work = {}
    /\ queue = {}
    /\ lock = {}
    /\ pc = [c \in Calls |-> IF c \in Legacy THEN "done" ELSE "probe"]
    /\ hint = [c \in Calls |-> Missing]
    /\ answer = [c \in Calls |-> Nobody]
    /\ unmarked = {}
    /\ crashes = 0
    /\ faults = 0

Goto(c, step) == pc' = [pc EXCEPT ![c] = step]

\* The call returns or raises inside the lock, whose with-block releases it.
Answer(c, kind, r) ==
    /\ answer' = [answer EXCEPT ![c] = [kind |-> kind, request |-> r]]
    /\ lock' = {}
    /\ Goto(c, "done")

---------------------------------------------------------------------------
\* Before the lock: does the sequence file exist?
Probe(c) ==
    /\ pc[c] = "probe"
    /\ Goto(c, IF c \in SessionCalls /\ sequence = Missing THEN "scan" ELSE "lock")
    /\ UNCHANGED <<durable, queue, lock, hint, answer, unmarked, crashes, faults>>

\* Before the lock: the scan of all records that replaces a missing file.
Scan(c) ==
    /\ pc[c] = "scan"
    /\ hint' = [hint EXCEPT ![c] = ScanOrdinals]
    /\ Goto(c, "lock")
    /\ UNCHANGED <<durable, queue, lock, answer, unmarked, crashes, faults>>

TakeLock(c) ==
    /\ pc[c] = "lock"
    /\ lock = {}
    /\ lock' = {c}
    /\ Goto(c, "look")
    /\ UNCHANGED <<durable, queue, hint, answer, unmarked, crashes, faults>>

\* An index entry is worth reading only when it names this key and a record
\* of this key that still exists; otherwise the file is unlinked.
Trusted(c, e) ==
    /\ e.key = KeyOf[c]
    /\ Live(e.request)
    /\ KeyOf[e.request] = KeyOf[c]

\* Mutant: the digest the index holds is compared instead.
IndexedIntent(e) == e.intent

\* The intent a replay is compared with: derived again from the record.
PersistedIntent(e) == IntentOf[e.request]

\* The index path of admit_record, up to its return or to the record scan.
LookIndex(c) ==
    /\ pc[c] = "look"
    /\ \/ /\ \A e \in index[KeyOf[c]] : ~Trusted(c, e)
          /\ index' = [index EXCEPT ![KeyOf[c]] = {}]
          /\ Goto(c, "match")
          /\ UNCHANGED <<lock, answer>>
       \/ \E e \in index[KeyOf[c]] :
            /\ Trusted(c, e)
            /\ index' = [index EXCEPT ![KeyOf[c]] =
                            {[e EXCEPT !.intent = PersistedIntent(e)]}]
            /\ IF PersistedIntent(e) = IntentOf[c]
               THEN Answer(c, "replayed", e.request)
               ELSE Answer(c, "conflict", "none")
    /\ UNCHANGED <<state, ordinal, sequence, work, queue, hint, unmarked, crashes, faults>>

\* Mutant: the scan looks only for records of the same intent.
MatchesIntent(c) ==
    {r \in Calls : Live(r) /\ KeyOf[r] = KeyOf[c] /\ IntentOf[r] = IntentOf[c]}

Matches(c) == {r \in Calls : Live(r) /\ KeyOf[r] = KeyOf[c]}

\* _matching_persisted_record: an index that is gone is rebuilt from the
\* records.
MatchRecords(c) ==
    /\ pc[c] = "match"
    /\ \/ /\ Matches(c) = {}
          /\ Goto(c, "ordinal")
          /\ UNCHANGED <<index, lock, answer>>
       \/ \E r \in Matches(c) :
            /\ Matches(c) = {r}
            /\ IntentOf[r] = IntentOf[c]
            /\ index' = [index EXCEPT ![KeyOf[c]] =
                            {[key |-> KeyOf[c], intent |-> IntentOf[c], request |-> r]}]
            /\ Answer(c, "replayed", r)
       \/ /\ Matches(c) # {}
          /\ \A r \in Matches(c) : Matches(c) = {r} => IntentOf[r] # IntentOf[c]
          /\ Answer(c, "conflict", "none")
          /\ UNCHANGED index
    /\ UNCHANGED <<state, ordinal, sequence, work, queue, hint, unmarked, crashes, faults>>

\* before_write stamps the session and refuses one that retention claimed.
BeforeWriteRefuses(c) ==
    /\ pc[c] = "ordinal"
    /\ c \in SessionCalls
    /\ Answer(c, "refused", "none")
    /\ UNCHANGED <<durable, queue, hint, unmarked, crashes, faults>>

\* Mutant: the scan made before the lock wins over the file.
PreviousOrdinalOfHint(c) ==
    IF hint[c] # Missing THEN hint[c]
    ELSE IF sequence # Missing THEN sequence ELSE ScanOrdinals

\* The ordinal before this one: the sequence file, or the pre-lock scan.
PreviousOrdinal(c) ==
    IF sequence # Missing THEN sequence
    ELSE IF hint[c] # Missing THEN hint[c] ELSE ScanOrdinals

\* The counter is persisted before the record that uses it; the candidate
\* carries its ordinal in memory until WriteRecord (hint holds it).
WriteOrdinal(c) ==
    /\ pc[c] = "ordinal"
    /\ IF c \in SessionCalls
       THEN /\ sequence' = PreviousOrdinal(c) + 1
            /\ hint' = [hint EXCEPT ![c] = PreviousOrdinal(c) + 1]
       ELSE UNCHANGED <<sequence, hint>>
    /\ Goto(c, "record")
    /\ UNCHANGED <<state, ordinal, index, work, queue, lock, answer, unmarked, crashes, faults>>

WriteRecord(c) ==
    /\ pc[c] = "record"
    /\ state' = [state EXCEPT ![c] = "queued"]
    /\ ordinal' = [ordinal EXCEPT ![c] = IF c \in SessionCalls THEN hint[c] ELSE 0]
    /\ Goto(c, "index")
    /\ UNCHANGED <<index, sequence, work, queue, lock, hint, answer, unmarked, crashes, faults>>

WriteIndex(c) ==
    /\ pc[c] = "index"
    /\ index' = [index EXCEPT ![KeyOf[c]] =
                    {[key |-> KeyOf[c], intent |-> IntentOf[c], request |-> c]}]
    /\ Goto(c, "work")
    /\ UNCHANGED <<state, ordinal, sequence, work, queue, lock, hint, answer, unmarked, crashes, faults>>

\* The work-index entry; its OSError is logged and admission goes on.
WriteWork(c) ==
    /\ pc[c] = "work"
    /\ \/ /\ work' = work \cup {c}
          /\ UNCHANGED <<faults, unmarked>>
       \/ /\ faults < MaxFaults
          /\ faults' = faults + 1
          /\ unmarked' = unmarked \cup {c}
          /\ UNCHANGED work
    /\ Goto(c, "return")
    /\ UNCHANGED <<state, ordinal, index, sequence, queue, lock, hint, answer, crashes>>

\* on_admitted registers the session order in memory; the lock is released.
Return(c) ==
    /\ pc[c] = "return"
    /\ answer' = [answer EXCEPT ![c] = [kind |-> "created", request |-> c]]
    /\ lock' = {}
    /\ Goto(c, "enqueue")
    /\ UNCHANGED <<durable, queue, hint, unmarked, crashes, faults>>

\* queue.enqueue: held in memory, or rejected (stale snapshot, invalid
\* capacity, queue full) with its work-index entry left for recovery.
Enqueue(c) ==
    /\ pc[c] = "enqueue"
    /\ \/ /\ queue' = queue \cup {c}
          /\ UNCHANGED state
       \/ /\ state' = [state EXCEPT ![c] = "terminal"]
          /\ UNCHANGED queue
    /\ Goto(c, "done")
    /\ UNCHANGED <<ordinal, index, sequence, work, lock, hint, answer, unmarked, crashes, faults>>

---------------------------------------------------------------------------
\* claim_dispatch writes the work-index entry again when it is missing.
Claim(r) ==
    /\ r \in queue
    /\ state[r] = "queued"
    /\ state' = [state EXCEPT ![r] = "running"]
    /\ work' = work \cup {r}
    /\ UNCHANGED <<ordinal, index, sequence, queue, lock, pc, hint, answer, unmarked, crashes, faults>>

\* The request reaches a terminal state and its markers are cleared.
Finish(r) ==
    /\ r \in queue
    /\ state[r] \in {"queued", "running"}
    /\ state' = [state EXCEPT ![r] = "terminal"]
    /\ queue' = queue \ {r}
    /\ work' = work \ {r}
    /\ UNCHANGED <<ordinal, index, sequence, lock, pc, hint, answer, unmarked, crashes, faults>>

\* delete_session_lineage: request directories go, key indexes stay.
Purge(r) ==
    /\ state[r] = "terminal"
    /\ state' = [state EXCEPT ![r] = "none"]
    /\ ordinal' = [ordinal EXCEPT ![r] = 0]
    /\ UNCHANGED <<index, sequence, work, queue, lock, pc, hint, answer, unmarked, crashes, faults>>

\* An index file is lost or damaged from outside (external).
DamageIndex(k) ==
    /\ faults < MaxFaults
    /\ faults' = faults + 1
    /\ \E e \in {{}} \cup {{x} : x \in Entry} : index' = [index EXCEPT ![k] = e]
    /\ UNCHANGED <<state, ordinal, sequence, work, queue, lock, pc, hint, answer, unmarked, crashes>>

\* Mutant: recovery consumes the entries it has put back in the queue.
CrashAndConsume ==
    /\ crashes < MaxCrashes
    /\ crashes' = crashes + 1
    /\ pc' = [c \in Calls |-> IF pc[c] \in {"probe", "done"} THEN pc[c] ELSE "dead"]
    /\ lock' = {}
    /\ work' = {}
    /\ queue' = {r \in work : state[r] \in {"queued", "running"}}
    /\ UNCHANGED <<state, ordinal, index, sequence, hint, answer, unmarked, faults>>

\* The process stops and the next one recovers: calls under way die, the
\* lock's owner is gone, and the queue is rebuilt from the work index only.
\* Entries of terminal requests are cleared, entries without a record
\* quarantined.
CrashAndRecover ==
    /\ crashes < MaxCrashes
    /\ crashes' = crashes + 1
    /\ pc' = [c \in Calls |-> IF pc[c] \in {"probe", "done"} THEN pc[c] ELSE "dead"]
    /\ lock' = {}
    /\ work' = {r \in work : state[r] \in {"queued", "running"}}
    /\ queue' = {r \in work : state[r] \in {"queued", "running"}}
    /\ UNCHANGED <<state, ordinal, index, sequence, hint, answer, unmarked, faults>>

CallStep(c) ==
    \/ Probe(c) \/ Scan(c) \/ TakeLock(c) \/ LookIndex(c) \/ MatchRecords(c)
    \/ BeforeWriteRefuses(c) \/ WriteOrdinal(c) \/ WriteRecord(c)
    \/ WriteIndex(c) \/ WriteWork(c) \/ Return(c) \/ Enqueue(c)

AdmissionNext ==
    \/ \E c \in Calls : CallStep(c)
    \/ \E r \in Calls : Claim(r) \/ Finish(r) \/ Purge(r)
    \/ \E k \in Keys : DamageIndex(k)
    \/ CrashAndRecover

AdmissionSpec == AdmissionInit /\ [][AdmissionNext]_vars

---------------------------------------------------------------------------
\* Every variable has its type; a session request on disk has an ordinal and
\* another has none (admit_record's two kinds of candidate), and only the
\* holder of the admission lock is between its lock and its return.
AdmissionTypeOK ==
    /\ state \in [Calls -> {"none", "queued", "running", "terminal"}]
    /\ ordinal \in [Calls -> Nat]
    /\ index \in [Keys -> SUBSET Entry]
    /\ sequence \in Nat \cup {Missing}
    /\ work \subseteq Calls /\ queue \subseteq Calls /\ unmarked \subseteq Calls
    /\ lock \subseteq Calls
    /\ pc \in [Calls -> {"probe", "scan", "lock", "enqueue", "done", "dead"} \cup Locked]
    /\ hint \in [Calls -> Nat \cup {Missing}]
    /\ answer \in [Calls -> [kind : {"none", "created", "replayed", "conflict", "refused"},
                             request : Calls \cup {"none"}]]
    /\ crashes \in 0..MaxCrashes
    /\ faults \in 0..MaxFaults
    /\ \A c \in Calls : pc[c] \in Locked <=> lock = {c}
    /\ \A c \in Calls : ordinal[c] > 0 <=> c \in SessionCalls /\ Live(c)

\* An idempotency key never has two request records, whatever happened to
\* its index, whichever writes a crash cut off and however the calls
\* overlap: what admit_record calls reserving the key.
OneRequestPerKey ==
    \A c, d \in Calls : Live(c) /\ Live(d) /\ KeyOf[c] = KeyOf[d] => c = d

\* A call answered with an existing request gets a request of its own key
\* and its own intent, also from a stale or damaged index (admit_record
\* derives the intent again from the record).
ReplayFaithful ==
    \A c, r \in Calls :
        answer[c].kind = "replayed" /\ answer[c].request = r =>
            KeyOf[r] = KeyOf[c] /\ IntentOf[r] = IntentOf[c]

\* From the moment admit_record returns a created request until it is
\* terminal its work-index entry exists, so that every later generation
\* finds it however often the process stops; the one exception is an entry
\* whose write failed at admission and that no claim has written yet.
CreatedIsDiscoverable ==
    \A c \in Calls :
        /\ answer[c].kind = "created"
        /\ state[c] \in {"queued", "running"}
        /\ c \notin unmarked \/ state[c] = "running"
        => c \in work

\* A record's enqueue ordinal is above every ordinal on disk when the record
\* is written, also when the sequence file is missing, two calls scanned for
\* it before the lock and one of them died after its counter: "reused order
\* identities are not" harmless (_admission.py).
OrdinalsAscend ==
    [][\A c, d \in Calls :
          ordinal'[c] # ordinal[c] /\ ordinal'[c] > 0 /\ d # c
            => ordinal'[c] > ordinal[d]]_vars

\* What work_index.py and admit_record say the entry is for: recovery "can
\* discover admitted-but-unclaimed requests after a crash".  A caller that
\* is answered with a request still under way finds it in the queue or in
\* the work index.
AdmittedDiscoverable ==
    \A c, r \in Calls :
        /\ answer[c].kind = "replayed" /\ answer[c].request = r
        /\ state[r] \in {"queued", "running"}
        => r \in work \cup queue \/ r \in unmarked
=============================================================================
