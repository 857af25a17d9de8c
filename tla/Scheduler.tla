----------------------------- MODULE Scheduler ------------------------------
(***************************************************************************)
(* How the gateway's queue manager hands capacity to pending requests:     *)
(* the pending authority (queue/pending.py: FIFO lanes, project rotation), *)
(* _drain_all of queue/queue.py run by several threads at once, the        *)
(* overlay limits of ScopedCapacityAuthority and one shared physical       *)
(* resource, whose protocol is the module ResourceCapacity.                *)
(*                                                                         *)
(* A drain works on a snapshot of the lane heads; cancellation removes a   *)
(* request from the pending index without taking the manager lock; a       *)
(* session request gives its capacity back at once and asks for it again,  *)
(* polling, when its turn begins.                                          *)
(***************************************************************************)
EXTENDS Integers, Sequences, FiniteSets, SequencesExt

CONSTANTS
    Requests,
    ProfileOf, ProjectOf,  \* request -> execution profile, project key
    Instances,             \* request -> nonempty sequence of capacity sources it may use
    Limits,                \* request -> overlay scope -> limit
    SessionRequests,       \* requests with provider-transport-kind "provider-session"
    Cancellable,           \* requests a client may cancel
    PendingCapacity,       \* pending requests allowed per profile
    Drainers,              \* bound: calls of _drain_all in progress at a time
    Sources, Concurrency, StarvationSeconds, MaxLag, NoSource,  \* see ResourceCapacity
    Unbounded              \* a source without a declared resource

ASSUME SchedAssumption ==
    /\ IsFiniteSet(Requests) /\ IsFiniteSet(Drainers)
    /\ \A r \in Requests : Instances[r] \in Seq(Sources \cup {Unbounded}) /\ Instances[r] # <<>>
    /\ \A r \in Requests : \A k \in DOMAIN Limits[r] : Limits[r][k] \in Nat
    /\ Unbounded \notin Sources /\ NoSource \notin Sources
    /\ Concurrency \in [Sources -> Nat \ {0}]
    /\ StarvationSeconds \in Nat \ {0} /\ MaxLag \in Nat

VARIABLES
    active, inFlight, waitingSince, tokens,  \* the resource
    pending,    \* pending requests in the order of their sequence numbers
    rotation,   \* projects in rotation order
    place,      \* request -> where it is
    leased,     \* overlay leases: tokens
    held,       \* request -> its reservation: token and source
    drain       \* drainer -> its pc, remaining candidates and instance being tried

schedVars == <<active, inFlight, waitingSince, tokens, pending, rotation, place, leased, held, drain>>
pendingVars == <<pending, rotation>>
resource == <<active, inFlight, waitingSince, tokens>>

(* A reservation's uuid: who made it, for which request.  Nobody reserves  *)
(* twice for one request in the same role.                                 *)
Turn == "turn"
SchedTokens == Requests \X (Drainers \cup {Turn})

ASSUME TurnAssumption == Turn \notin Drainers

INSTANCE ResourceCapacity WITH Tokens <- SchedTokens

NoLease == <<>>
Lane(r) == <<ProfileOf[r], ProjectOf[r]>>
Projects == {ProjectOf[r] : r \in Requests}
Scopes == UNION {DOMAIN Limits[r] : r \in Requests}

IdleDrain == [pc |-> "idle", cands |-> <<>>, inst |-> 1]

SchedInit ==
    /\ CapInit
    /\ pending = <<>> /\ rotation = <<>>
    /\ place = [r \in Requests |-> "new"]
    /\ leased = {}
    /\ held = [r \in Requests |-> NoLease]
    /\ drain = [d \in Drainers |-> IdleDrain]

-----------------------------------------------------------------------------
(* PendingAuthority.                                                       *)
Precedes(s, a, b) == \E i, j \in DOMAIN s : i < j /\ s[i] = a /\ s[j] = b

IsLaneHead(r) ==
    /\ Contains(pending, r)
    /\ \A q \in Requests : Lane(q) = Lane(r) => ~Precedes(pending, q, r)

(* Mutant: every pending request is a candidate.                           *)
EveryPending == ToSet(pending)

LaneHeads == {r \in ToSet(pending) : Contains(rotation, ProjectOf[r]) /\ IsLaneHead(r)}

(* Projects in rotation order, the oldest head of each first.              *)
TriedBefore(q, r) ==
    \/ Precedes(rotation, ProjectOf[q], ProjectOf[r])
    \/ ProjectOf[q] = ProjectOf[r] /\ Precedes(pending, q, r)

Candidates ==
    CHOOSE c \in [1 .. Cardinality(LaneHeads) -> LaneHeads] :
        \A i, j \in DOMAIN c : i < j => TriedBefore(c[i], c[j])

(* Mutant: the rotation is kept per lane instead of per project.           *)
PendingEnqueueByLane(r) ==
    /\ pending' = Append(pending, r)
    /\ rotation' = IF Contains(rotation, Lane(r)) THEN rotation ELSE Append(rotation, Lane(r))

PendingEnqueue(r) ==
    /\ pending' = Append(pending, r)
    /\ rotation' = IF Contains(rotation, ProjectOf[r]) THEN rotation ELSE Append(rotation, ProjectOf[r])

(* deque.remove.                                                           *)
Without(s, e) == RemoveAt(s, CHOOSE i \in DOMAIN s : s[i] = e)

(* Mutant: the project stays in the rotation after its last request.       *)
PendingRemoveOnly(r, rotate) == pending' = Without(pending, r) /\ UNCHANGED rotation

(* _remove_locked.                                                         *)
PendingRemove(r, rotate) ==
    LET rest == Without(pending, r)
        p == ProjectOf[r]
        others == Without(rotation, p)
    IN  /\ pending' = rest
        /\ rotation' = IF \A i \in DOMAIN rest : ProjectOf[rest[i]] # p THEN others
                       ELSE IF rotate THEN Append(others, p) ELSE rotation

-----------------------------------------------------------------------------
(* ScopedCapacityAuthority: the strictest limit among the leases that are  *)
(* out and the one asked for.                                              *)
Users(k) == {tok \in leased : k \in DOMAIN Limits[tok[1]]}

(* Mutant: a request is held to its own limit only.                        *)
OwnLimitFree(r) == \A k \in DOMAIN Limits[r] : Cardinality(Users(k)) < Limits[r][k]

ScopesFree(r) ==
    \A k \in DOMAIN Limits[r] :
        \A q \in {r} \cup {tok[1] : tok \in Users(k)} : Cardinality(Users(k)) < Limits[q][k]

Reserve(s, tok, lag) ==
    IF s = Unbounded THEN UNCHANGED resource ELSE Grant(s, tok, lag)

(* _release_reservation: source and overlay.                               *)
GiveBack(tok, s) ==
    /\ IF s = Unbounded THEN UNCHANGED resource ELSE Release(s, tok)
    /\ leased' = leased \ {tok}

-----------------------------------------------------------------------------
(* _drain_all.  The manager lock and the lock of the candidate's profile   *)
(* are held while a candidate is tried: from its first instance to the     *)
(* claim.  Between the overlay lease and the source's refusal nobody else  *)
(* but a polling session could see the lease, and it would poll again.     *)
Begin(d) ==
    /\ drain[d] = IdleDrain
    /\ drain' = [drain EXCEPT ![d].pc = "loop"]

Trying(d) == drain[d].pc = "claim" \/ drain[d].inst > 1
Candidate(d) == Head(drain[d].cands)
Instance(d) == Instances[Candidate(d)][drain[d].inst]

LocksFree(d) ==
    /\ \A other \in Drainers \ {d} : ~Trying(other)
    /\ \A r \in Requests : place[r] = "polling" => ProfileOf[r] # ProfileOf[Candidate(d)]
ProfileFree(r) ==
    /\ \A d \in Drainers : Trying(d) => ProfileOf[Candidate(d)] # ProfileOf[r]
    /\ \A q \in Requests : place[q] = "polling" => ProfileOf[q] # ProfileOf[r]

Snapshot(d) ==
    /\ drain[d].pc = "loop"
    /\ drain' = [drain EXCEPT ![d] = IF Candidates = <<>> THEN IdleDrain
                                     ELSE [pc |-> "scan", cands |-> Candidates, inst |-> 1]]
    /\ UNCHANGED <<resource, pendingVars, place, leased, held>>

NextCandidate(d) ==
    drain' = [drain EXCEPT ![d] = IF Len(@.cands) = 1 THEN IdleDrain
                                  ELSE [pc |-> "scan", cands |-> Tail(@.cands), inst |-> 1]]

(* _try_reserve_source, one instance at a time.                            *)
TryScopes(d) ==
    /\ drain[d].pc = "scan" /\ LocksFree(d)
    /\ ~ScopesFree(Candidate(d))
    /\ NextCandidate(d)
    /\ UNCHANGED <<resource, pendingVars, place, leased, held>>

TryGranted(d) ==
    /\ drain[d].pc = "scan" /\ LocksFree(d)
    /\ ScopesFree(Candidate(d))
    /\ \E lag \in 0 .. MaxLag : Reserve(Instance(d), <<Candidate(d), d>>, lag)
    /\ leased' = leased \cup {<<Candidate(d), d>>}
    /\ drain' = [drain EXCEPT ![d].pc = "claim"]
    /\ UNCHANGED <<pendingVars, place, held>>

TryRefused(d) ==
    /\ drain[d].pc = "scan" /\ LocksFree(d)
    /\ ScopesFree(Candidate(d))
    /\ Instance(d) # Unbounded
    /\ \E lag \in 0 .. MaxLag : Refuse(Instance(d), lag)
    /\ IF drain[d].inst < Len(Instances[Candidate(d)])
         THEN drain' = [drain EXCEPT ![d].inst = @ + 1]
         ELSE NextCandidate(d)
    /\ UNCHANGED <<pendingVars, place, leased, held>>

Claim(d) ==
    /\ drain[d].pc = "claim"
    /\ Contains(pending, Candidate(d))
    /\ PendingRemove(Candidate(d), TRUE)
    /\ place' = [place EXCEPT ![Candidate(d)] = "worker"]
    /\ held' = [held EXCEPT ![Candidate(d)] = <<<<Candidate(d), d>>, Instance(d)>>]
    /\ drain' = [drain EXCEPT ![d] = [IdleDrain EXCEPT !.pc = "loop"]]
    /\ UNCHANGED <<resource, leased>>

(* Mutant: a reservation made for a request that is gone is kept.          *)
ClaimMissesAndKeeps(d) ==
    /\ drain[d].pc = "claim"
    /\ ~Contains(pending, Candidate(d))
    /\ NextCandidate(d)
    /\ UNCHANGED <<resource, pendingVars, place, leased, held>>

ClaimMisses(d) ==
    /\ drain[d].pc = "claim"
    /\ ~Contains(pending, Candidate(d))
    /\ GiveBack(<<Candidate(d), d>>, Instance(d))
    /\ NextCandidate(d)
    /\ UNCHANGED <<pendingVars, place, held>>

DrainStep(d) ==
    \/ Snapshot(d) \/ TryScopes(d) \/ TryGranted(d) \/ TryRefused(d) \/ Claim(d) \/ ClaimMisses(d)

-----------------------------------------------------------------------------
(* Requests.                                                               *)
PendingOf(profile) == {i \in DOMAIN pending : ProfileOf[pending[i]] = profile}

QueueFull(r) == Cardinality(PendingOf(ProfileOf[r])) >= PendingCapacity

Enqueue(r, d) ==
    /\ place[r] = "new" /\ ProfileFree(r)
    /\ ~QueueFull(r)
    /\ PendingEnqueue(r)
    /\ place' = [place EXCEPT ![r] = "pending"]
    /\ Begin(d)
    /\ UNCHANGED <<resource, leased, held>>

EnqueueReject(r) ==
    /\ place[r] = "new" /\ ProfileFree(r)
    /\ QueueFull(r)
    /\ place' = [place EXCEPT ![r] = "done"]
    /\ UNCHANGED <<resource, pendingVars, leased, held, drain>>

CancelPending(r, d) ==
    /\ r \in Cancellable /\ place[r] = "pending"
    /\ PendingRemove(r, FALSE)
    /\ place' = [place EXCEPT ![r] = "done"]
    /\ Begin(d)
    /\ UNCHANGED <<resource, leased, held>>

(* Mutant: a worker that ends does not drain.                              *)
FinishSilently(r, d) ==
    /\ place[r] = "worker" /\ r \notin SessionRequests
    /\ GiveBack(held[r][1], held[r][2])
    /\ held' = [held EXCEPT ![r] = NoLease]
    /\ place' = [place EXCEPT ![r] = "done"]
    /\ drain[d] = IdleDrain
    /\ UNCHANGED <<pendingVars, drain>>

Finish(r, d) ==
    /\ place[r] = "worker" /\ r \notin SessionRequests
    /\ GiveBack(held[r][1], held[r][2])
    /\ held' = [held EXCEPT ![r] = NoLease]
    /\ place' = [place EXCEPT ![r] = "done"]
    /\ Begin(d)
    /\ UNCHANGED pendingVars

(* A session worker gives its reservation back and keeps its source as the *)
(* template of the reservation its turn will need.                         *)
SessionYields(r, d) ==
    /\ place[r] = "worker" /\ r \in SessionRequests
    /\ GiveBack(held[r][1], held[r][2])
    /\ held' = [held EXCEPT ![r] = <<NoLease, held[r][2]>>]
    /\ place' = [place EXCEPT ![r] = "idle"]
    /\ Begin(d)
    /\ UNCHANGED pendingVars

(* _try_reserve_specific_source, polled: the overlay, then the source.     *)
PollScopes(r) ==
    /\ place[r] = "idle" /\ ProfileFree(r)
    /\ ScopesFree(r)
    /\ leased' = leased \cup {<<r, Turn>>}
    /\ place' = [place EXCEPT ![r] = "polling"]
    /\ UNCHANGED <<resource, pendingVars, held, drain>>

PollGranted(r) ==
    /\ place[r] = "polling"
    /\ \E lag \in 0 .. MaxLag : Reserve(held[r][2], <<r, Turn>>, lag)
    /\ held' = [held EXCEPT ![r] = <<<<r, Turn>>, held[r][2]>>]
    /\ place' = [place EXCEPT ![r] = "turn"]
    /\ UNCHANGED <<pendingVars, leased, drain>>

PollRefused(r) ==
    /\ place[r] = "polling"
    /\ held[r][2] # Unbounded
    /\ \E lag \in 0 .. MaxLag : Refuse(held[r][2], lag)
    /\ leased' = leased \ {<<r, Turn>>}
    /\ place' = [place EXCEPT ![r] = "idle"]
    /\ UNCHANGED <<pendingVars, held, drain>>

SessionEnds(r, d) ==
    /\ \/ place[r] = "turn" /\ GiveBack(held[r][1], held[r][2])
       \/ place[r] = "idle" /\ r \in Cancellable /\ UNCHANGED <<resource, leased>>
    /\ held' = [held EXCEPT ![r] = NoLease]
    /\ place' = [place EXCEPT ![r] = "done"]
    /\ Begin(d)
    /\ UNCHANGED pendingVars

Age == Tick /\ UNCHANGED <<pendingVars, place, leased, held, drain>>

WorkerStep(r) ==
    \/ \E d \in Drainers : Finish(r, d) \/ SessionYields(r, d) \/ SessionEnds(r, d)
    \/ PollScopes(r) \/ PollGranted(r) \/ PollRefused(r)

SchedNext ==
    \/ \E d \in Drainers : DrainStep(d)
    \/ \E r \in Requests : WorkerStep(r) \/ EnqueueReject(r)
    \/ \E r \in Requests, d \in Drainers : Enqueue(r, d) \/ CancelPending(r, d)
    \/ Age

SchedSpec == SchedInit /\ [][SchedNext]_schedVars

(* Threads run and runners end; clients need not submit or cancel, and the *)
(* clock need not be read again.                                           *)
SchedFairSpec ==
    /\ SchedSpec
    /\ \A d \in Drainers : WF_schedVars(DrainStep(d))
    /\ \A r \in Requests : WF_schedVars(WorkerStep(r))

-----------------------------------------------------------------------------
Places == {"new", "pending", "worker", "idle", "polling", "turn", "done"}

SchedTypeOK ==
    /\ CapTypeOK
    /\ pending \in Seq(Requests) /\ rotation \in Seq(Projects)
    /\ place \in [Requests -> Places]
    /\ leased \subseteq SchedTokens
    /\ held \in [Requests -> {NoLease} \cup ((SchedTokens \cup {NoLease}) \X (Sources \cup {Unbounded}))]
    /\ drain \in [Drainers -> [pc : {"idle", "loop", "scan", "claim"}, cands : Seq(Requests), inst : Nat \ {0}]]

(* The rotation lists every project that has pending work, once, and no    *)
(* other: no project is skipped and none is visited in vain.               *)
RotationExact ==
    /\ ToSet(rotation) = {ProjectOf[r] : r \in ToSet(pending)}
    /\ IsInjective(rotation)

(* However late a drain acts on its snapshot, a request never overtakes    *)
(* one that is pending before it in its lane.                              *)
LaneFifo ==
    [][\A r \in Requests :
         (place[r] = "pending" /\ place'[r] = "worker") => IsLaneHead(r)]_schedVars

(* The overlay limits hold for everyone who holds a lease, the strictest   *)
(* included.                                                               *)
ScopesRespected ==
    \A k \in Scopes : \A tok \in Users(k) : Cardinality(Users(k)) <= Limits[tok[1]][k]

(* No reservation outlives the thread that made it: the leases out are     *)
(* those of running workers, turns and drains about to claim.              *)
LeasesAccounted ==
    LET claiming == {<<Candidate(d), d>> : d \in {e \in Drainers : drain[e].pc = "claim"}}
        working == {held[r][1] : r \in {q \in Requests : place[q] \in {"worker", "turn"}}}
        polling == {<<r, Turn>> : r \in {q \in Requests : place[q] = "polling"}}
    IN  leased = claiming \cup working \cup polling /\ Held \subseteq claiming \cup working

(* A pending request is started or cancelled eventually.                   *)
PendingIsServed == \A r \in Requests : place[r] = "pending" ~> place[r] # "pending"
=============================================================================
