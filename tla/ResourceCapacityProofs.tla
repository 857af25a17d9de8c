----------------------- MODULE ResourceCapacityProofs -----------------------
(***************************************************************************)
(* Proofs that the drain-before-swap resource never lends more than it may *)
(* and never holds two sources at once, for every set of sources, every    *)
(* finite set of tokens and every declared concurrency.                    *)
(***************************************************************************)
EXTENDS ResourceCapacity, FiniteSetTheorems, TLAPS

(* The inductive invariant: none of its parts is inductive alone.  A swap  *)
(* resets a counter to 1, which is only right because the source swapped   *)
(* in holds no lease (OnlyActiveResident), and the active source counts as *)
(* drained only because its counter is exact (CounterMatchesLeases).       *)
CapInv ==
    /\ CapTypeOK
    /\ CounterMatchesLeases
    /\ OnlyActiveResident
    /\ NoOversubscription

-----------------------------------------------------------------------------
(* Every set of leases the authority can hold is finite.                   *)
LEMMA LeasesFinite ==
  ASSUME CapTypeOK, NEW s \in Sources
  PROVE  IsFiniteSet(tokens[s])
<1>1. tokens[s] \subseteq Tokens
  BY DEF CapTypeOK
<1> QED
  BY <1>1, CapacityAssumption, FS_Subset

(* A source whose counter is 0 holds no lease.                             *)
LEMMA DrainedHoldsNothing ==
  ASSUME CapInv, NEW s \in Sources, inFlight[s] = 0
  PROVE  tokens[s] = {}
<1>1. Cardinality(tokens[s]) = 0
  BY DEF CapInv, CounterMatchesLeases
<1>2. IsFiniteSet(tokens[s])
  BY LeasesFinite DEF CapInv
<1> QED
  BY <1>1, <1>2, FS_EmptySet

(* When a grant succeeds, every other source holds nothing: either the     *)
(* granted source was already active, or the active one had drained.       *)
LEMMA GrantFindsOthersDrained ==
  ASSUME CapInv, NEW s \in Sources, NEW lag \in 0 .. MaxLag, Grantable(s, lag)
  PROVE  /\ \A r \in Sources \ {s} : tokens[r] = {}
         /\ SwapsIn(s) => tokens[s] = {}
<1>1. CASE JoinsActive(s, lag)
  BY <1>1, CapacityAssumption DEF JoinsActive, SwapsIn, CapInv, OnlyActiveResident, CapTypeOK
<1>2. CASE SwapsIn(s)
  <2>1. active \in Sources
    BY <1>2 DEF SwapsIn, CapInv, CapTypeOK
  <2>2. tokens[active] = {}
    BY <1>2, <2>1, DrainedHoldsNothing DEF SwapsIn
  <2> QED
    BY <2>1, <2>2, <1>2 DEF SwapsIn, CapInv, OnlyActiveResident
<1> QED
  BY <1>1, <1>2 DEF Grantable

LEMMA GrantKeepsInv ==
  ASSUME CapInv, NEW s \in Sources, NEW tok \in Tokens, NEW lag \in 0 .. MaxLag,
         Grant(s, tok, lag)
  PROVE  CapInv'
<1> USE DEF CapInv
<1>0. Grantable(s, lag) /\ tok \notin tokens[s]
  BY DEF Grant, Held
<1>1. CapTypeOK'
  BY CapacityAssumption DEF Grant, CapTypeOK, Ages, MaxAge
<1>2. IsFiniteSet(tokens[s]) /\ Cardinality(tokens[s]) \in Nat
  BY LeasesFinite, FS_CardinalityType
<1>3. Cardinality(tokens[s] \cup {tok}) = Cardinality(tokens[s]) + 1
  BY <1>0, <1>2, FS_AddElement
<1>4. /\ tokens'[s] = tokens[s] \cup {tok}
      /\ \A r \in Sources \ {s} : tokens'[r] = tokens[r] /\ inFlight'[r] = inFlight[r]
      /\ active' = s
  BY DEF Grant, CapTypeOK
<1>5. inFlight'[s] = Cardinality(tokens'[s])
  <2>1. CASE SwapsIn(s)
    <3>1. tokens[s] = {}
      BY <1>0, <2>1, GrantFindsOthersDrained
    <3>2. Cardinality(tokens[s]) = 0
      BY <3>1, FS_EmptySet
    <3> QED
      BY <2>1, <3>2, <1>3, <1>4 DEF Grant, CapTypeOK
  <2>2. CASE ~SwapsIn(s)
    BY <2>2, <1>3, <1>4 DEF Grant, CapTypeOK, CounterMatchesLeases
  <2> QED
    BY <2>1, <2>2
<1>6. CounterMatchesLeases'
  BY <1>4, <1>5 DEF CounterMatchesLeases
<1>7. OnlyActiveResident'
  BY <1>0, <1>4, GrantFindsOthersDrained DEF OnlyActiveResident
<1>8. Cardinality(tokens'[s]) <= Concurrency[s]
  <2>1. CASE SwapsIn(s)
    <3>1. tokens[s] = {}
      BY <1>0, <2>1, GrantFindsOthersDrained
    <3>2. Cardinality(tokens[s]) = 0
      BY <3>1, FS_EmptySet
    <3> QED
      BY <3>2, <1>3, <1>4, CapacityAssumption
  <2>2. CASE JoinsActive(s, lag)
    <3>1. Cardinality(tokens[s]) < Concurrency[s]
      BY <2>2 DEF JoinsActive, CounterMatchesLeases
    <3> QED
      BY <3>1, <1>2, <1>3, <1>4, CapacityAssumption
  <2> QED
    BY <2>1, <2>2, <1>0 DEF Grantable
<1>9. NoOversubscription'
  BY <1>4, <1>8 DEF NoOversubscription
<1> QED
  BY <1>1, <1>6, <1>7, <1>9

LEMMA RefuseKeepsInv ==
  ASSUME CapInv, NEW s \in Sources, NEW lag \in 0 .. MaxLag, Refuse(s, lag)
  PROVE  CapInv'
<1>1. CapTypeOK'
  <2>1. lag \in Ages
    BY CapacityAssumption DEF Ages, MaxAge
  <2> QED
    BY <2>1 DEF Refuse, CapInv, CapTypeOK
<1> QED
  BY <1>1 DEF Refuse, CapInv, CounterMatchesLeases, OnlyActiveResident, NoOversubscription

LEMMA ReleaseKeepsInv ==
  ASSUME CapInv, NEW s \in Sources, NEW tok \in Tokens, Release(s, tok)
  PROVE  CapInv'
<1> USE DEF CapInv
<1>1. CASE tok \notin tokens[s]
  BY <1>1 DEF Release, CapTypeOK, CounterMatchesLeases, OnlyActiveResident, NoOversubscription
<1>2. CASE tok \in tokens[s]
  <2>1. /\ tokens'[s] = tokens[s] \ {tok}
        /\ \A r \in Sources \ {s} : tokens'[r] = tokens[r] /\ inFlight'[r] = inFlight[r]
        /\ active' = active
    BY <1>2 DEF Release, CapTypeOK
  <2>2. IsFiniteSet(tokens[s]) /\ Cardinality(tokens[s]) \in Nat
    BY LeasesFinite, FS_CardinalityType
  <2>3. Cardinality(tokens'[s]) = Cardinality(tokens[s]) - 1
    <3>1. Cardinality(tokens[s] \ {tok}) = Cardinality(tokens[s]) - 1
      <4> DEFINE T == tokens[s]
      <4>1. IsFiniteSet(T) /\ tok \in T
        BY <1>2, <2>2
      <4> HIDE DEF T
      <4>2. Cardinality(T \ {tok}) = Cardinality(T) - 1
        BY <4>1, FS_RemoveElement
      <4> QED
        BY <4>2 DEF T
    <3> QED
      BY <2>1, <3>1
  <2>4. Cardinality(tokens[s]) > 0
    BY <1>2, <2>2, FS_EmptySet
  <2>5. CapTypeOK'
    BY <1>2, <2>2, <2>4 DEF Release, CapTypeOK, CounterMatchesLeases
  <2>6. inFlight'[s] = Cardinality(tokens'[s])
    BY <1>2, <2>3, <2>4 DEF Release, CapTypeOK, CounterMatchesLeases
  <2>7. CounterMatchesLeases'
    BY <2>1, <2>6 DEF CounterMatchesLeases
  <2>8. OnlyActiveResident'
    BY <2>1 DEF OnlyActiveResident
  <2>9. NoOversubscription'
    <3>1. Cardinality(tokens'[s]) <= Concurrency[s]
      BY <2>2, <2>3, CapacityAssumption DEF NoOversubscription
    <3> QED
      BY <2>1, <3>1 DEF NoOversubscription
  <2> QED
    BY <2>5, <2>7, <2>8, <2>9
<1> QED
  BY <1>1, <1>2

LEMMA TickKeepsInv ==
  ASSUME CapInv, Tick
  PROVE  CapInv'
<1>1. CapTypeOK'
  <2>1. ASSUME NEW age \in Ages PROVE Older(age) \in Ages
    BY CapacityAssumption DEF Older, Ages, MaxAge
  <2> QED
    BY <2>1 DEF Tick, CapInv, CapTypeOK
<1> QED
  BY <1>1 DEF Tick, CapInv, CounterMatchesLeases, OnlyActiveResident, NoOversubscription

(* The resource's counters, residency and limits hold in every reachable   *)
(* state: _ResourceCapacity never lends a source more than its declared    *)
(* concurrency and never holds two sources at once.                        *)
THEOREM CapacitySafety == CapSpec => []CapInv
<1>1. CapInit => CapInv
  BY CapacityAssumption, FS_EmptySet
  DEF CapInit, CapInv, CapTypeOK, CounterMatchesLeases, OnlyActiveResident,
      NoOversubscription, Ages, MaxAge
<1>2. CapInv /\ [CapNext]_capVars => CapInv'
  <2> SUFFICES ASSUME CapInv, [CapNext]_capVars PROVE CapInv'
    OBVIOUS
  <2>1. CASE TryReserve
    BY <2>1, GrantKeepsInv, RefuseKeepsInv DEF TryReserve
  <2>2. CASE ReleaseAny
    BY <2>2, ReleaseKeepsInv DEF ReleaseAny
  <2>3. CASE Tick
    BY <2>3, TickKeepsInv
  <2>4. CASE UNCHANGED capVars
    BY <2>4 DEF capVars, CapInv, CapTypeOK, CounterMatchesLeases, OnlyActiveResident,
                NoOversubscription
  <2> QED
    BY <2>1, <2>2, <2>3, <2>4 DEF CapNext
<1> QED
  BY <1>1, <1>2, PTL DEF CapSpec

(* The counter, the leases, the active source and the waiting times of a   *)
(* resource keep their types.                                              *)
THEOREM CapacityTypes == CapSpec => []CapTypeOK
<1> QED
  BY CapacitySafety, PTL DEF CapInv

(* The counter that try_reserve and release keep equals the leases out, so *)
(* a source reported as drained has no lease.                              *)
THEOREM CounterExact == CapSpec => []CounterMatchesLeases
<1> QED
  BY CapacitySafety, PTL DEF CapInv

(* Only the active source of a resource has leases out: a swap never leaves *)
(* two sources resident.                                                   *)
THEOREM OneSourceResident == CapSpec => []OnlyActiveResident
<1> QED
  BY CapacitySafety, PTL DEF CapInv

(* A source never has more leases out than its declared concurrency.       *)
THEOREM ConcurrencyKept == CapSpec => []NoOversubscription
<1> QED
  BY CapacitySafety, PTL DEF CapInv

(* No step of try_reserve or release changes the active source while a     *)
(* lease is out.                                                           *)
THEOREM SwapOnlyWhenDrained == CapSpec => DrainBeforeSwap
<1>1. CapInv /\ [CapNext]_capVars => [active' # active => Held = {}]_capVars
  <2> SUFFICES ASSUME CapInv, CapNext, active' # active PROVE Held = {}
    BY DEF capVars
  <2>1. PICK s \in Sources, tok \in Tokens, lag \in 0 .. MaxLag : Grant(s, tok, lag)
    BY DEF CapNext, TryReserve, ReleaseAny, Refuse, Release, Tick
  <2>2. /\ \A r \in Sources \ {s} : tokens[r] = {}
        /\ SwapsIn(s) => tokens[s] = {}
    BY <2>1, GrantFindsOthersDrained DEF Grant
  <2>3. active # s
    BY <2>1 DEF Grant
  <2>4. tokens[s] = {}
    BY <2>3 DEF CapInv, OnlyActiveResident
  <2> QED
    BY <2>2, <2>4 DEF Held
<1> QED
  BY <1>1, CapacitySafety, PTL DEF CapSpec, DrainBeforeSwap

(* Once another source has waited past the threshold on every clock        *)
(* reading, no step of try_reserve or release gives the active source a    *)
(* further lease.                                                          *)
THEOREM WaiterStopsActive == CapSpec => StarvationStopsActive
<1>1. CapInv /\ [CapNext]_capVars =>
        [\A s, w \in Sources :
            (s # w /\ active = s /\ Overdue(w)) => tokens'[s] \subseteq tokens[s]]_capVars
  <2> SUFFICES ASSUME CapInv, CapNext, NEW s \in Sources, NEW w \in Sources,
                      s # w, active = s, Overdue(w)
               PROVE  tokens'[s] \subseteq tokens[s]
    BY DEF capVars
  <2>1. ASSUME NEW r \in Sources, NEW tok \in Tokens, NEW lag \in 0 .. MaxLag, Grant(r, tok, lag)
        PROVE  r # s
    <3>1. waitingSince[w] >= 0 /\ waitingSince[w] - lag >= StarvationSeconds
      BY CapacityAssumption DEF Overdue, CapInv, CapTypeOK, Ages, MaxAge
    <3>2. BlockedByWaiter(s, lag)
      BY <3>1 DEF BlockedByWaiter
    <3> QED
      BY <2>1, <3>2 DEF Grant, Grantable, JoinsActive, SwapsIn
  <2>2. CASE TryReserve
    <3>1. ASSUME NEW r \in Sources, NEW tok \in Tokens, NEW lag \in 0 .. MaxLag, Grant(r, tok, lag)
          PROVE  tokens'[s] = tokens[s]
      BY <3>1, <2>1 DEF Grant, CapInv, CapTypeOK
    <3> QED
      BY <2>2, <3>1 DEF TryReserve, Refuse
  <2>3. CASE ReleaseAny
    BY <2>3 DEF ReleaseAny, Release, CapInv, CapTypeOK
  <2>4. CASE Tick
    BY <2>4 DEF Tick
  <2> QED
    BY <2>2, <2>3, <2>4 DEF CapNext
<1> QED
  BY <1>1, CapacitySafety, PTL DEF CapSpec, StarvationStopsActive
=============================================================================
