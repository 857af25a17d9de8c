-------------------------- MODULE SchedulerProofs ---------------------------
(***************************************************************************)
(* Proofs about Scheduler, for any finite sets of requests and drains and  *)
(* any sources, limits and pending capacity.                               *)
(*                                                                         *)
(* A drain acts on a snapshot of the lane heads.  What it may still rely   *)
(* on is DrainOK: a candidate that is still pending is still the head of   *)
(* its lane, and no candidate works on a token of this drain, so that the  *)
(* token it may have to give back is not the one a worker runs on.         *)
(* Custody says for every token who holds it and of which source: a        *)
(* release by anybody else would have nothing to release.                  *)
(***************************************************************************)
EXTENDS Scheduler, FiniteSetTheorems, SequenceTheorems, WellFoundedInduction, TLAPS

\* The theorems of the resource, for the tokens of the scheduler.
Resource == INSTANCE ResourceCapacityProofs WITH Tokens <- SchedTokens

\* The pending index.
PendingOK ==
    /\ IsInjective(pending)
    /\ \A r \in Requests : place[r] = "pending" <=> Contains(pending, r)
    /\ RotationExact

\* A drain, its candidate and its instance.
DrainOK(d) ==
    /\ drain[d].pc \in {"idle", "loop"} => drain[d].cands = <<>> /\ drain[d].inst = 1
    /\ drain[d].pc \in {"scan", "claim"} =>
          drain[d].cands # <<>> /\ drain[d].inst \in DOMAIN Instances[Candidate(d)]
    /\ \A r \in Requests : Contains(drain[d].cands, r) =>
          /\ place[r] # "new"
          /\ place[r] = "pending" => IsLaneHead(r)
          /\ place[r] = "worker" => held[r][1] # <<r, d>>

\* The reservation of a request.
HeldOK(r) ==
    /\ place[r] \in {"new", "pending", "done"} => held[r] = NoLease
    /\ place[r] = "worker" => \E d \in Drainers, s \in Sources \cup {Unbounded} : held[r] = <<<<r, d>>, s>>
    /\ place[r] \in {"idle", "polling"} => \E s \in Sources \cup {Unbounded} : held[r] = <<NoLease, s>>
    /\ place[r] = "turn" => \E s \in Sources \cup {Unbounded} : held[r] = <<<<r, Turn>>, s>>

Claiming(r, d) == drain[d].pc = "claim" /\ Candidate(d) = r
Working(r, d) == place[r] = "worker" /\ held[r][1] = <<r, d>>

\* Who holds the token of a drain, and of which source it is.
DrainCustody(r, d) ==
    /\ <<r, d>> \in leased <=> Claiming(r, d) \/ Working(r, d)
    /\ \A s \in Sources : <<r, d>> \in tokens[s] =>
          (Claiming(r, d) /\ Instance(d) = s) \/ (Working(r, d) /\ held[r][2] = s)

\* The same for the token of a turn.
TurnCustody(r) ==
    /\ <<r, Turn>> \in leased <=> place[r] \in {"polling", "turn"}
    /\ \A s \in Sources : <<r, Turn>> \in tokens[s] => place[r] = "turn" /\ held[r][2] = s

SchedInv ==
    /\ SchedTypeOK /\ PendingOK /\ ScopesRespected
    /\ \A d \in Drainers : DrainOK(d)
    /\ \A r \in Requests : HeldOK(r) /\ TurnCustody(r)
    /\ \A r \in Requests, d \in Drainers : DrainCustody(r, d)

-----------------------------------------------------------------------------
\* Sequences without repetition, seen through Contains and Precedes.
LEMMA ElementsAre ==
    ASSUME NEW S, NEW s \in Seq(S), NEW x
    PROVE  (x \in ToSet(s) <=> Contains(s, x)) /\ (Contains(s, x) => x \in S)
<1>1. DOMAIN s = 1 .. Len(s) /\ \A i \in DOMAIN s : s[i] \in S
  OBVIOUS
<1> QED BY <1>1 DEF ToSet, Contains

LEMMA AppendIs ==
    ASSUME NEW S, NEW s \in Seq(S), NEW e \in S, IsInjective(s), ~Contains(s, e)
    PROVE  /\ Append(s, e) \in Seq(S) /\ IsInjective(Append(s, e))
           /\ \A x : Contains(Append(s, e), x) <=> Contains(s, x) \/ x = e
           /\ \A x, y : Precedes(Append(s, e), x, y) => Precedes(s, x, y) \/ y = e
<1> DEFINE t == Append(s, e)
           n == Len(s)
<1>1. /\ n \in Nat /\ DOMAIN s = 1 .. n /\ t \in Seq(S) /\ Len(t) = n + 1 /\ DOMAIN t = 1 .. n + 1
      /\ (\A i \in 1 .. n : t[i] = s[i]) /\ t[n + 1] = e
  OBVIOUS
<1>2. \A i \in 1 .. n : s[i] # e
  BY DEF Contains
<1>3. \A i, j \in 1 .. n : s[i] = s[j] => i = j
  BY <1>1 DEF IsInjective
<1> HIDE DEF t
<1>4. IsInjective(t)
  <2> SUFFICES ASSUME NEW i \in 1 .. n + 1, NEW j \in 1 .. n + 1, t[i] = t[j] PROVE i = j
    BY <1>1 DEF IsInjective
  <2>1. (i \in 1 .. n \/ i = n + 1) /\ (j \in 1 .. n \/ j = n + 1)
    BY <1>1
  <2> QED BY <1>1, <1>2, <1>3, <2>1
<1>5. ASSUME NEW x PROVE Contains(t, x) <=> Contains(s, x) \/ x = e
  <2>1. ASSUME Contains(t, x) PROVE Contains(s, x) \/ x = e
    <3>1. PICK i \in 1 .. n + 1 : t[i] = x
      BY <1>1, <2>1 DEF Contains
    <3>2. i \in 1 .. n \/ i = n + 1
      BY <1>1, <3>1
    <3> QED BY <1>1, <3>1, <3>2 DEF Contains
  <2>2. ASSUME Contains(s, x) PROVE Contains(t, x)
    <3>1. PICK i \in 1 .. n : s[i] = x
      BY <2>2 DEF Contains
    <3>2. i \in 1 .. n + 1 /\ t[i] = x
      BY <1>1, <3>1
    <3> QED BY <1>1, <3>2 DEF Contains
  <2>3. Contains(t, e)
    <3>1. n + 1 \in 1 .. n + 1
      BY <1>1
    <3> QED BY <1>1, <3>1 DEF Contains
  <2> QED BY <2>1, <2>2, <2>3
<1>6. ASSUME NEW x, NEW y, Precedes(t, x, y) PROVE Precedes(s, x, y) \/ y = e
  <2>1. PICK i, j \in 1 .. n + 1 : i < j /\ t[i] = x /\ t[j] = y
    BY <1>1, <1>6 DEF Precedes
  <2>2. j = n + 1 \/ (i \in 1 .. n /\ j \in 1 .. n)
    BY <1>1, <2>1
  <2> QED BY <1>1, <2>1, <2>2 DEF Precedes
<1> QED BY <1>1, <1>4, <1>5, <1>6 DEF t

\* deque.remove.
LEMMA WithoutIs ==
    ASSUME NEW S, NEW s \in Seq(S), NEW e, IsInjective(s), Contains(s, e)
    PROVE  /\ Without(s, e) \in Seq(S) /\ IsInjective(Without(s, e))
           /\ \A x : Contains(Without(s, e), x) <=> Contains(s, x) /\ x # e
           /\ \A x, y : Precedes(Without(s, e), x, y) => Precedes(s, x, y)
<1> DEFINE n == Len(s)
           p == CHOOSE i \in DOMAIN s : s[i] = e
           u == SubSeq(s, 1, p - 1)
           v == SubSeq(s, p + 1, n)
           w == u \o v
           old(j) == IF j < p THEN j ELSE j + 1
<1>1. n \in Nat /\ DOMAIN s = 1 .. n
  OBVIOUS
<1>2. p \in 1 .. n /\ s[p] = e
  BY <1>1 DEF Contains
<1>3. Without(s, e) = w
  BY DEF Without, RemoveAt
<1> HIDE DEF p
<1>4. u \in Seq(S) /\ Len(u) = p - 1 /\ \A j \in 1 .. p - 1 : u[j] = s[j]
  <2> DEFINE m == p - 1
  <2>1. m \in 0 .. n /\ u = SubSeq(s, 1, m)
    BY <1>1, <1>2
  <2> HIDE DEF m
  <2> QED BY <1>1, <2>1 DEF m
<1>5. v \in Seq(S) /\ Len(v) = n - p /\ \A j \in 1 .. n - p : v[j] = s[p + j]
  <2> DEFINE m == p + 1
  <2> HIDE DEF n
  <2>1. /\ m \in Int /\ n \in Int /\ n - m + 1 = n - p /\ (IF m <= n THEN n - m + 1 ELSE 0) = n - p
        /\ \A j \in 1 .. n - p : m + j - 1 = p + j
    BY <1>1, <1>2
  <2>2. \A i \in m .. n : s[i] \in S
    <3>1. \A i \in m .. n : i \in 1 .. n
      BY <1>1, <1>2
    <3> QED BY <1>1, <3>1
  <2>3. v = SubSeq(s, m, n)
    BY DEF v
  <2> HIDE DEF m, v
  <2>4. /\ SubSeq(s, m, n) \in Seq(S)
        /\ Len(SubSeq(s, m, n)) = IF m <= n THEN n - m + 1 ELSE 0
        /\ \A j \in 1 .. n - m + 1 : SubSeq(s, m, n)[j] = s[m + j - 1]
    BY <2>1, <2>2, SubSeqProperties
  <2>5. v \in Seq(S) /\ Len(v) = n - p /\ \A j \in 1 .. n - p : v[j] = s[m + j - 1]
    BY <2>1, <2>3, <2>4
  <2> QED BY <2>1, <2>5
<1> HIDE DEF u, v, n
<1>6. /\ w \in Seq(S) /\ Len(w) = Len(u) + Len(v)
      /\ \A j \in 1 .. Len(u) + Len(v) : w[j] = IF j <= Len(u) THEN u[j] ELSE v[j - Len(u)]
  BY <1>4, <1>5, ConcatProperties
<1> HIDE DEF w
<1>7. Len(u) + Len(v) = n - 1
  BY <1>1, <1>2, <1>4, <1>5
<1>8. Len(w) = n - 1 /\ DOMAIN w = 1 .. n - 1
  BY <1>6, <1>7
<1>9. ASSUME NEW j \in 1 .. n - 1 PROVE old(j) \in 1 .. n /\ old(j) # p /\ w[j] = s[old(j)]
  <2>1. w[j] = IF j <= p - 1 THEN u[j] ELSE v[j - (p - 1)]
    BY <1>4, <1>6, <1>7, <1>9
  <2>2. CASE j < p
    <3>1. j \in 1 .. p - 1 /\ j <= p - 1
      BY <1>1, <1>2, <1>9, <2>2
    <3> QED BY <1>1, <1>2, <1>4, <2>1, <2>2, <3>1
  <2>3. CASE ~(j < p)
    <3>1. j - (p - 1) \in 1 .. n - p /\ p + (j - (p - 1)) = j + 1 /\ ~(j <= p - 1) /\ j + 1 \in 1 .. n /\ j + 1 # p
      BY <1>1, <1>2, <1>9, <2>3
    <3> QED BY <1>5, <2>1, <2>3, <3>1
  <2> QED BY <2>2, <2>3
<1>10. \A i, j \in 1 .. n - 1 : (i < j => old(i) < old(j)) /\ (old(i) = old(j) => i = j)
  BY <1>1, <1>2
<1>11. ASSUME NEW a \in 1 .. n, a # p PROVE \E j \in 1 .. n - 1 : old(j) = a
  <2>1. CASE a < p
    <3>1. a \in 1 .. n - 1
      BY <1>1, <1>2, <1>11, <2>1
    <3> QED BY <2>1, <3>1
  <2>2. CASE a > p
    <3>1. a - 1 \in 1 .. n - 1 /\ ~(a - 1 < p) /\ (a - 1) + 1 = a
      BY <1>1, <1>2, <1>11, <2>2
    <3> QED BY <3>1
  <2> QED BY <1>1, <1>2, <1>11, <2>1, <2>2
<1> HIDE DEF old
<1>12. \A a, b \in 1 .. n : s[a] = s[b] => a = b
  BY <1>1 DEF IsInjective
<1>13. IsInjective(w)
  BY <1>8, <1>9, <1>10, <1>12 DEF IsInjective
<1>14. ASSUME NEW x PROVE Contains(w, x) <=> Contains(s, x) /\ x # e
  <2>1. ASSUME Contains(w, x) PROVE Contains(s, x) /\ x # e
    <3>1. PICK j \in 1 .. n - 1 : w[j] = x
      BY <1>8, <2>1 DEF Contains
    <3>2. old(j) \in 1 .. n /\ old(j) # p /\ s[old(j)] = x
      BY <1>9, <3>1
    <3> QED BY <1>2, <1>12, <3>2 DEF Contains, n
  <2>2. ASSUME Contains(s, x), x # e PROVE Contains(w, x)
    <3>1. PICK a \in 1 .. n : s[a] = x
      BY <2>2 DEF Contains, n
    <3>2. PICK j \in 1 .. n - 1 : old(j) = a
      BY <1>2, <1>11, <2>2, <3>1
    <3>3. w[j] = x
      BY <1>9, <3>1, <3>2
    <3> QED BY <1>8, <3>3 DEF Contains
  <2> QED BY <2>1, <2>2
<1>15. ASSUME NEW x, NEW y, Precedes(w, x, y) PROVE Precedes(s, x, y)
  <2>1. PICK i, j \in 1 .. n - 1 : i < j /\ w[i] = x /\ w[j] = y
    BY <1>8, <1>15 DEF Precedes
  <2>2. old(i) \in 1 .. n /\ old(j) \in 1 .. n /\ old(i) < old(j) /\ s[old(i)] = x /\ s[old(j)] = y
    BY <1>9, <1>10, <2>1
  <2> QED BY <1>1, <2>2 DEF Precedes
<1> QED BY <1>3, <1>6, <1>13, <1>14, <1>15

-----------------------------------------------------------------------------
LEMMA LeastExists ==
    ASSUME NEW N \in SUBSET Nat, N # {}
    PROVE  \E m \in N : \A n \in N : m <= n
<1>1. PICK m \in N : \A y \in N : ~(<<y, m>> \in OpToRel(<, Nat))
  BY NatLessThanWellFounded, WFMin
<1>2. ASSUME NEW n \in N, n < m PROVE FALSE
  <2>1. <<n, m>> \in OpToRel(<, Nat)
    BY <1>2 DEF OpToRel
  <2> QED BY <1>1, <2>1
<1> QED BY <1>2

\* Of some lane heads one is tried before the others.
LEMMA FirstHead ==
    ASSUME SchedTypeOK, NEW T \in SUBSET LaneHeads, T # {}
    PROVE  \E x \in T : \A y \in T \ {x} : TriedBefore(x, y)
<1>1. /\ pending \in Seq(Requests) /\ rotation \in Seq(Projects)
      /\ DOMAIN pending = 1 .. Len(pending) /\ DOMAIN rotation = 1 .. Len(rotation)
  BY DEF SchedTypeOK
<1>2. ASSUME NEW r \in T PROVE (\E j \in DOMAIN pending : pending[j] = r) /\ \E i \in DOMAIN rotation : rotation[i] = ProjectOf[r]
  <2>1. r \in LaneHeads
    OBVIOUS
  <2>2. r \in ToSet(pending) /\ Contains(rotation, ProjectOf[r])
    BY <2>1 DEF LaneHeads
  <2> QED BY <1>1, <2>2 DEF ToSet, Contains
<1> DEFINE I == {i \in DOMAIN rotation : \E r \in T : ProjectOf[r] = rotation[i]}
<1>3. I \in SUBSET Nat /\ I # {}
  BY <1>1, <1>2
<1>4. PICK m \in I : \A n \in I : m <= n
  BY <1>3, LeastExists
<1> DEFINE J == {j \in DOMAIN pending : pending[j] \in T /\ ProjectOf[pending[j]] = rotation[m]}
<1>5. J \in SUBSET Nat /\ J # {}
  BY <1>1, <1>2, <1>4
<1>6. PICK k \in J : \A n \in J : k <= n
  BY <1>5, LeastExists
<1>7. pending[k] \in T /\ ProjectOf[pending[k]] = rotation[m] /\ k \in Nat /\ m \in Nat /\ k \in DOMAIN pending /\ m \in DOMAIN rotation
  BY <1>1, <1>4, <1>6
<1>8. ASSUME NEW y \in T \ {pending[k]} PROVE TriedBefore(pending[k], y)
  <2>1. PICK j \in DOMAIN pending : pending[j] = y
    BY <1>2
  <2>2. PICK i \in DOMAIN rotation : rotation[i] = ProjectOf[y]
    BY <1>2
  <2>3. i \in I /\ m <= i /\ i \in Nat /\ j \in Nat
    BY <1>1, <1>4, <2>1, <2>2
  <2>4. CASE i = m
    <3>1. j \in J
      BY <2>1, <2>2, <2>4
    <3>2. k < j
      BY <1>6, <1>7, <1>8, <2>1, <2>3, <3>1
    <3> QED BY <1>7, <2>1, <2>2, <2>4, <3>2 DEF TriedBefore, Precedes
  <2>5. CASE i # m
    <3>1. m < i
      BY <1>7, <2>3, <2>5
    <3> QED BY <1>7, <2>2, <3>1 DEF TriedBefore, Precedes
  <2> QED BY <2>4, <2>5
<1> QED BY <1>7, <1>8

InTurn(T) ==
    \E c \in [1 .. Cardinality(T) -> T] : \A i, j \in DOMAIN c : i < j => TriedBefore(c[i], c[j])

\* The heads can be put in the order in which they are tried: what the
\* definition of Candidates chooses exists.
LEMMA CandidatesAre ==
    ASSUME SchedTypeOK
    PROVE  /\ Candidates \in Seq(LaneHeads)
           /\ \A i, j \in DOMAIN Candidates : i < j => TriedBefore(Candidates[i], Candidates[j])
<1>1. IsFiniteSet(LaneHeads)
  <2>1. \A r \in LaneHeads : r \in Requests
    BY ElementsAre DEF LaneHeads, SchedTypeOK
  <2> QED BY <2>1, SchedAssumption, FS_Subset
<1> DEFINE Bad == {n \in Nat : \E T \in SUBSET LaneHeads : Cardinality(T) = n /\ ~InTurn(T)}
<1>2. ASSUME Bad # {} PROVE FALSE
  <2>1. Bad \in SUBSET Nat
    OBVIOUS
  <2>2. PICK n \in Bad : \A m \in Bad : n <= m
    BY <1>2, <2>1, LeastExists
  <2>3. PICK T \in SUBSET LaneHeads : Cardinality(T) = n /\ ~InTurn(T)
    BY <2>2
  <2>4. IsFiniteSet(T) /\ n \in Nat
    BY <1>1, <2>1, <2>2, FS_Subset
  <2>5. T # {}
    <3>1. SUFFICES ASSUME T = {} PROVE FALSE
      OBVIOUS
    <3>2. Cardinality(T) = 0
      BY <3>1, FS_EmptySet
    <3> DEFINE c == [i \in 1 .. 0 |-> i]
    <3>3. c \in [1 .. Cardinality(T) -> T] /\ \A i, j \in DOMAIN c : i < j => TriedBefore(c[i], c[j])
      BY <3>2
    <3> QED BY <2>3, <3>3 DEF InTurn
  <2>6. PICK x \in T : \A y \in T \ {x} : TriedBefore(x, y)
    BY <2>5, FirstHead
  <2> DEFINE U == T \ {x}
  <2>7. U \in SUBSET LaneHeads /\ IsFiniteSet(U) /\ Cardinality(U) = n - 1 /\ n - 1 \in Nat
    <3>1. IsFiniteSet(U) /\ Cardinality(U) = n - 1
      BY <2>3, <2>4, <2>6, FS_RemoveElement
    <3>2. Cardinality(U) \in Nat
      BY <3>1, FS_CardinalityType
    <3> QED BY <3>1, <3>2
  <2>8. InTurn(U)
    <3>1. n - 1 \notin Bad
      BY <2>2, <2>4, <2>7
    <3> QED BY <2>7, <3>1
  <2> HIDE DEF Bad
  <2>9. PICK b \in [1 .. n - 1 -> U] : \A i, j \in DOMAIN b : i < j => TriedBefore(b[i], b[j])
    BY <2>7, <2>8 DEF InTurn
  <2> DEFINE c == [i \in 1 .. n |-> IF i = 1 THEN x ELSE b[i - 1]]
  <2>10. \A i \in 1 .. n : i # 1 => i - 1 \in 1 .. n - 1
    BY <2>4
  <2>11. \A i \in 1 .. n : c[i] = IF i = 1 THEN x ELSE b[i - 1]
    OBVIOUS
  <2>12. c \in [1 .. n -> T]
    BY <2>9, <2>10
  <2>13. DOMAIN c = 1 .. n
    OBVIOUS
  <2> HIDE DEF c
  <2>14. ASSUME NEW i \in 1 .. n, NEW j \in 1 .. n, i < j PROVE TriedBefore(c[i], c[j])
    <3>1. j # 1 /\ j - 1 \in 1 .. n - 1 /\ c[j] = b[j - 1] /\ b[j - 1] \in U
      BY <2>4, <2>9, <2>10, <2>11, <2>14
    <3>2. CASE i = 1
      <4>1. c[i] = x
        BY <2>11, <3>2
      <4> QED BY <2>6, <3>1, <4>1
    <3>3. CASE i # 1
      <4>1. i - 1 \in 1 .. n - 1 /\ c[i] = b[i - 1] /\ i - 1 < j - 1
        BY <2>4, <2>10, <2>11, <2>14, <3>3
      <4>2. DOMAIN b = 1 .. n - 1
        BY <2>9
      <4> QED BY <2>9, <3>1, <4>1, <4>2
    <3> QED BY <3>2, <3>3
  <2>15. InTurn(T)
    BY <2>3, <2>12, <2>13, <2>14 DEF InTurn
  <2> QED BY <2>3, <2>15
<1>3. Cardinality(LaneHeads) \in Nat
  BY <1>1, FS_CardinalityType
<1>4. InTurn(LaneHeads)
  BY <1>2, <1>3
<1>5. /\ Candidates \in [1 .. Cardinality(LaneHeads) -> LaneHeads]
      /\ \A i, j \in DOMAIN Candidates : i < j => TriedBefore(Candidates[i], Candidates[j])
  BY <1>4 DEF InTurn, Candidates
<1>6. Candidates \in Seq(LaneHeads)
  BY <1>3, <1>5, SeqDef
<1> QED BY <1>5, <1>6

-----------------------------------------------------------------------------
\* The resource: what a grant, a refusal, a release and the clock do to it.
LEMMA GrantIs ==
    ASSUME CapTypeOK, NEW s \in Sources, NEW tok \in SchedTokens, NEW lag \in 0 .. MaxLag, Grant(s, tok, lag)
    PROVE  CapTypeOK' /\ CapNext /\ \A x \in Sources : tokens'[x] \subseteq tokens[x] \cup IF x = s THEN {tok} ELSE {}
<1>1. CapTypeOK'
  <2>1. inFlight' \in [Sources -> Nat]
    BY DEF CapTypeOK, Grant
  <2>2. tokens' \in [Sources -> SUBSET SchedTokens]
    BY DEF CapTypeOK, Grant
  <2>3. waitingSince' \in [Sources -> Ages]
    <3>1. -1 \in Ages
      BY SchedAssumption DEF Ages, MaxAge
    <3> QED BY <3>1 DEF CapTypeOK, Grant
  <2> QED BY <2>1, <2>2, <2>3 DEF CapTypeOK, Grant
<1>2. CapNext
  BY DEF CapNext, TryReserve
<1>3. ASSUME NEW x \in Sources PROVE tokens'[x] \subseteq tokens[x] \cup IF x = s THEN {tok} ELSE {}
  BY DEF CapTypeOK, Grant
<1> QED BY <1>1, <1>2, <1>3

LEMMA RefuseIs ==
    ASSUME CapTypeOK, NEW s \in Sources, NEW lag \in 0 .. MaxLag, Refuse(s, lag)
    PROVE  CapTypeOK' /\ CapNext /\ tokens' = tokens
<1>1. lag \in Ages
  BY SchedAssumption DEF Ages, MaxAge
<1>2. waitingSince' \in [Sources -> Ages]
  BY <1>1 DEF CapTypeOK, Refuse
<1>3. CapNext
  BY DEF CapNext, TryReserve
<1> QED BY <1>2, <1>3 DEF CapTypeOK, Refuse

LEMMA ReleaseIs ==
    ASSUME CapTypeOK, NEW s \in Sources, NEW tok \in SchedTokens, Release(s, tok)
    PROVE  CapTypeOK' /\ CapNext /\ tok \notin tokens'[s] /\ \A x \in Sources : tokens'[x] \subseteq tokens[x]
<1>1. CapNext
  BY DEF CapNext, ReleaseAny
<1>2. inFlight' \in [Sources -> Nat]
  BY DEF CapTypeOK, Release
<1>3. /\ tokens' \in [Sources -> SUBSET SchedTokens]
      /\ tok \notin tokens'[s] /\ \A x \in Sources : tokens'[x] \subseteq tokens[x]
  BY DEF CapTypeOK, Release
<1> QED BY <1>1, <1>2, <1>3 DEF CapTypeOK, Release

LEMMA TickIs ==
    ASSUME CapTypeOK, Tick
    PROVE  CapTypeOK' /\ CapNext /\ tokens' = tokens
<1>1. ASSUME NEW age \in Ages PROVE Older(age) \in Ages
  BY SchedAssumption DEF Older, Ages, MaxAge
<1>2. waitingSince' \in [Sources -> Ages]
  BY <1>1 DEF CapTypeOK, Tick
<1> QED BY <1>2 DEF CapTypeOK, Tick, CapNext

LEMMA StillResource ==
    ASSUME CapTypeOK, UNCHANGED resource
    PROVE  CapTypeOK' /\ UNCHANGED capVars /\ tokens' = tokens
BY DEF CapTypeOK, resource, capVars

LEMMA ReserveIs ==
    ASSUME CapTypeOK, NEW s \in Sources \cup {Unbounded}, NEW tok \in SchedTokens, NEW lag \in 0 .. MaxLag,
           Reserve(s, tok, lag)
    PROVE  CapTypeOK' /\ [CapNext]_capVars /\ \A x \in Sources : tokens'[x] \subseteq tokens[x] \cup IF x = s THEN {tok} ELSE {}
BY GrantIs, StillResource DEF Reserve

LEMMA GiveBackIs ==
    ASSUME CapTypeOK, NEW s \in Sources \cup {Unbounded}, NEW tok \in SchedTokens, GiveBack(tok, s)
    PROVE  /\ CapTypeOK' /\ [CapNext]_capVars /\ leased' = leased \ {tok}
           /\ \A x \in Sources : tokens'[x] \subseteq tokens[x] /\ (x = s => tok \notin tokens'[x])
<1>1. leased' = leased \ {tok}
  BY DEF GiveBack
<1>2. CASE s = Unbounded
  BY <1>1, <1>2, StillResource, SchedAssumption DEF GiveBack
<1>3. CASE s # Unbounded
  BY <1>1, <1>3, ReleaseIs DEF GiveBack
<1> QED BY <1>2, <1>3

-----------------------------------------------------------------------------
\* The pending index.
LEMMA RotationIs ==
    ASSUME NEW ps \in Seq(Requests), NEW ro \in Seq(Projects)
    PROVE  ToSet(ro) = {ProjectOf[r] : r \in ToSet(ps)} <=>
               \A p : Contains(ro, p) <=> \E r \in Requests : Contains(ps, r) /\ ProjectOf[r] = p
<1>1. \A p : p \in ToSet(ro) <=> Contains(ro, p)
  BY ElementsAre
<1>2. \A r : (r \in ToSet(ps) <=> Contains(ps, r)) /\ (Contains(ps, r) => r \in Requests)
  BY ElementsAre
<1>3. \A p : p \in {ProjectOf[r] : r \in ToSet(ps)} <=> \E r \in Requests : Contains(ps, r) /\ ProjectOf[r] = p
  BY <1>2
<1> QED BY <1>1, <1>3

LEMMA EnqueueIs ==
    ASSUME SchedTypeOK, PendingOK, NEW r \in Requests, ~Contains(pending, r), PendingEnqueue(r)
    PROVE  /\ pending' \in Seq(Requests) /\ rotation' \in Seq(Projects) /\ IsInjective(pending') /\ RotationExact'
           /\ \A x : Contains(pending', x) <=> Contains(pending, x) \/ x = r
           /\ \A q \in Requests \ {r} : IsLaneHead(q) => IsLaneHead(q)'
<1>1. pending \in Seq(Requests) /\ rotation \in Seq(Projects) /\ ProjectOf[r] \in Projects
  BY DEF SchedTypeOK, Projects
<1>2. IsInjective(pending) /\ IsInjective(rotation)
  BY DEF PendingOK, RotationExact
<1>3. \A p : Contains(rotation, p) <=> \E q \in Requests : Contains(pending, q) /\ ProjectOf[q] = p
  BY <1>1, RotationIs DEF PendingOK, RotationExact
<1>4. /\ pending' \in Seq(Requests) /\ IsInjective(pending')
      /\ \A x : Contains(pending', x) <=> Contains(pending, x) \/ x = r
      /\ \A x, y : Precedes(pending', x, y) => Precedes(pending, x, y) \/ y = r
  BY <1>1, <1>2, AppendIs DEF PendingEnqueue
<1>5. /\ rotation' \in Seq(Projects) /\ IsInjective(rotation')
      /\ \A p : Contains(rotation', p) <=> Contains(rotation, p) \/ p = ProjectOf[r]
  <2>1. CASE Contains(rotation, ProjectOf[r])
    BY <1>1, <1>2, <2>1 DEF PendingEnqueue
  <2>2. CASE ~Contains(rotation, ProjectOf[r])
    BY <1>1, <1>2, <2>2, AppendIs DEF PendingEnqueue
  <2> QED BY <2>1, <2>2
<1>6. \A p : Contains(rotation', p) <=> \E q \in Requests : Contains(pending', q) /\ ProjectOf[q] = p
  BY <1>3, <1>4, <1>5
<1>7. RotationExact'
  BY <1>4, <1>5, <1>6, RotationIs DEF RotationExact
<1>8. ASSUME NEW q \in Requests \ {r}, IsLaneHead(q) PROVE IsLaneHead(q)'
  BY <1>4, <1>8 DEF IsLaneHead, Lane
<1> QED BY <1>4, <1>5, <1>7, <1>8

LEMMA RemoveIs ==
    ASSUME SchedTypeOK, PendingOK, NEW r \in Requests, Contains(pending, r), NEW rotate \in BOOLEAN, PendingRemove(r, rotate)
    PROVE  /\ pending' \in Seq(Requests) /\ rotation' \in Seq(Projects) /\ IsInjective(pending') /\ RotationExact'
           /\ \A x : Contains(pending', x) <=> Contains(pending, x) /\ x # r
           /\ \A q \in Requests \ {r} : IsLaneHead(q) => IsLaneHead(q)'
<1> DEFINE p == ProjectOf[r]
           others == Without(rotation, p)
           gone == \A i \in DOMAIN pending' : ProjectOf[pending'[i]] # p
<1>1. pending \in Seq(Requests) /\ rotation \in Seq(Projects) /\ p \in Projects
  BY DEF SchedTypeOK, Projects
<1>2. IsInjective(pending) /\ IsInjective(rotation)
  BY DEF PendingOK, RotationExact
<1>3. \A x : Contains(rotation, x) <=> \E q \in Requests : Contains(pending, q) /\ ProjectOf[q] = x
  BY <1>1, RotationIs DEF PendingOK, RotationExact
<1>4. pending' = Without(pending, r) /\ rotation' = IF gone THEN others ELSE IF rotate THEN Append(others, p) ELSE rotation
  BY DEF PendingRemove
<1>5. /\ pending' \in Seq(Requests) /\ IsInjective(pending')
      /\ \A x : Contains(pending', x) <=> Contains(pending, x) /\ x # r
      /\ \A x, y : Precedes(pending', x, y) => Precedes(pending, x, y)
  BY <1>1, <1>2, <1>4, WithoutIs
<1>6. Contains(rotation, p)
  BY <1>3
<1>7. others \in Seq(Projects) /\ IsInjective(others) /\ \A x : Contains(others, x) <=> Contains(rotation, x) /\ x # p
  BY <1>1, <1>2, <1>6, WithoutIs
<1>8. gone <=> ~\E q \in Requests : Contains(pending', q) /\ ProjectOf[q] = p
  <2>1. DOMAIN pending' = 1 .. Len(pending') /\ \A i \in DOMAIN pending' : pending'[i] \in Requests
    BY <1>5
  <2> QED BY <2>1 DEF Contains
<1> HIDE DEF others, gone
<1>9. /\ rotation' \in Seq(Projects) /\ IsInjective(rotation')
      /\ \A x : Contains(rotation', x) <=> Contains(rotation, x) /\ (gone => x # p)
  <2>1. CASE gone
    BY <1>4, <1>7, <2>1
  <2>2. CASE ~gone /\ rotate
    <3>1. rotation' = Append(others, p)
      BY <1>4, <2>2
    <3>2. ~Contains(others, p)
      BY <1>7
    <3>3. /\ Append(others, p) \in Seq(Projects) /\ IsInjective(Append(others, p))
          /\ \A x : Contains(Append(others, p), x) <=> Contains(others, x) \/ x = p
      BY <1>1, <1>7, <3>2, AppendIs
    <3> QED BY <1>6, <1>7, <2>2, <3>1, <3>3
  <2>3. CASE ~gone /\ ~rotate
    BY <1>1, <1>2, <1>4, <2>3
  <2> QED BY <2>1, <2>2, <2>3
<1>10. \A x : Contains(rotation', x) <=> \E q \in Requests : Contains(pending', q) /\ ProjectOf[q] = x
  BY <1>3, <1>5, <1>8, <1>9
<1>11. RotationExact'
  BY <1>5, <1>9, <1>10, RotationIs DEF RotationExact
<1>12. ASSUME NEW q \in Requests \ {r}, IsLaneHead(q) PROVE IsLaneHead(q)'
  BY <1>5, <1>12 DEF IsLaneHead, Lane
<1> QED BY <1>5, <1>9, <1>11, <1>12

-----------------------------------------------------------------------------
\* Overlay limits: a lease is added only while everyone's limit allows one
\* more.
LEMMA LeasesAreFinite ==
    ASSUME SchedTypeOK, NEW k
    PROVE  IsFiniteSet(Users(k)) /\ Cardinality(Users(k)) \in Nat
<1>1. IsFiniteSet(Drainers \cup {Turn})
  BY SchedAssumption, FS_AddElement
<1>2. IsFiniteSet(SchedTokens)
  BY <1>1, SchedAssumption, FS_Product DEF SchedTokens
<1>3. Users(k) \subseteq SchedTokens
  BY DEF SchedTypeOK, Users
<1>4. IsFiniteSet(Users(k))
  BY <1>2, <1>3, FS_Subset
<1> QED BY <1>4, FS_CardinalityType

LEMMA LimitTypes ==
    ASSUME SchedTypeOK, NEW k, NEW tok \in Users(k)
    PROVE  tok[1] \in Requests /\ k \in DOMAIN Limits[tok[1]] /\ Limits[tok[1]][k] \in Nat
<1>1. tok \in SchedTokens /\ k \in DOMAIN Limits[tok[1]]
  BY DEF Users, SchedTypeOK
<1>2. tok[1] \in Requests
  BY <1>1 DEF SchedTokens
<1> QED BY <1>1, <1>2, SchedAssumption

LEMMA FewerLeases ==
    ASSUME SchedTypeOK, ScopesRespected, leased' \subseteq leased
    PROVE  ScopesRespected'
<1> SUFFICES ASSUME NEW k \in Scopes, NEW tok \in Users(k)' PROVE Cardinality(Users(k)') <= Limits[tok[1]][k]
  BY DEF ScopesRespected
<1>1. Users(k)' \subseteq Users(k) /\ tok \in Users(k)
  BY DEF Users
<1>2. Cardinality(Users(k)) <= Limits[tok[1]][k] /\ Limits[tok[1]][k] \in Nat
  BY <1>1, LimitTypes DEF ScopesRespected
<1>3. IsFiniteSet(Users(k)') /\ Cardinality(Users(k)') <= Cardinality(Users(k))
  BY <1>1, LeasesAreFinite, FS_Subset
<1>4. Cardinality(Users(k)') \in Nat /\ Cardinality(Users(k)) \in Nat
  BY <1>3, LeasesAreFinite, FS_CardinalityType
<1> QED BY <1>2, <1>3, <1>4

LEMMA OneMoreLease ==
    ASSUME SchedTypeOK, ScopesRespected, NEW r \in Requests, NEW x \in Drainers \cup {Turn},
           ScopesFree(r), leased' = leased \cup {<<r, x>>}
    PROVE  ScopesRespected'
<1> SUFFICES ASSUME NEW k \in Scopes, NEW tok \in Users(k)' PROVE Cardinality(Users(k)') <= Limits[tok[1]][k]
  BY DEF ScopesRespected
<1>1. <<r, x>>[1] = r
  OBVIOUS
<1>2. CASE k \notin DOMAIN Limits[r]
  <2>1. Users(k)' = Users(k)
    BY <1>1, <1>2 DEF Users
  <2> QED BY <2>1 DEF ScopesRespected
<1>3. CASE k \in DOMAIN Limits[r]
  <2>1. Users(k)' = Users(k) \cup {<<r, x>>}
    BY <1>1, <1>3 DEF Users
  <2>2. Cardinality(Users(k)') <= Cardinality(Users(k)) + 1 /\ Cardinality(Users(k)') \in Nat
    <3> DEFINE U == Users(k)
    <3>1. IsFiniteSet(U) /\ Cardinality(U) \in Nat
      BY LeasesAreFinite
    <3>2. Users(k)' = U \cup {<<r, x>>}
      BY <2>1
    <3> HIDE DEF U
    <3>3. Cardinality(U \cup {<<r, x>>}) = IF <<r, x>> \in U THEN Cardinality(U) ELSE Cardinality(U) + 1
      BY <3>1, FS_AddElement
    <3>4. Cardinality(Users(k)') \in Nat /\ Cardinality(Users(k)') <= Cardinality(U) + 1
      BY <3>1, <3>2, <3>3
    <3> QED BY <3>4 DEF U
  <2>3. Cardinality(Users(k)) < Limits[tok[1]][k]
    <3>1. tok[1] \in {r} \cup {t[1] : t \in Users(k)}
      BY <1>1, <2>1
    <3> QED BY <1>3, <3>1 DEF ScopesFree
  <2>4. Limits[tok[1]][k] \in Nat
    <3>1. CASE tok \in Users(k)
      BY <3>1, LimitTypes
    <3>2. CASE tok = <<r, x>>
      BY <1>1, <1>3, <3>2, SchedAssumption
    <3> QED BY <2>1, <3>1, <3>2
  <2> QED BY <2>2, <2>3, <2>4, LeasesAreFinite
<1> QED BY <1>2, <1>3

-----------------------------------------------------------------------------
\* Drains.
DrainRec == [pc : {"idle", "loop", "scan", "claim"}, cands : Seq(Requests), inst : Nat \ {0}]

Resting(v) == v.pc \in {"idle", "loop"} /\ v.cands = <<>> /\ v.inst = 1

LEMMA HeadIsIn ==
    ASSUME NEW c \in Seq(Requests), c # <<>>
    PROVE  Head(c) \in Requests /\ Contains(c, Head(c))
<1>1. 1 \in 1 .. Len(c) /\ Head(c) = c[1] /\ c[1] \in Requests
  OBVIOUS
<1> QED BY <1>1 DEF Contains

LEMMA EmptyHasNone == \A r : ~Contains(<<>>, r)
BY DEF Contains

LEMMA BeginIs ==
    ASSUME SchedTypeOK, NEW d \in Drainers, Begin(d)
    PROVE  /\ drain' \in [Drainers -> DrainRec]
           /\ Resting(drain[d]) /\ Resting(drain'[d]) /\ \A e \in Drainers \ {d} : drain'[e] = drain[e]
<1>1. drain \in [Drainers -> DrainRec] /\ drain[d] = IdleDrain /\ drain' = [drain EXCEPT ![d] = [drain[d] EXCEPT !.pc = "loop"]]
  BY DEF SchedTypeOK, DrainRec, Begin
<1>2. [drain[d] EXCEPT !.pc = "loop"] = [pc |-> "loop", cands |-> <<>>, inst |-> 1]
  BY <1>1 DEF IdleDrain
<1>3. [pc |-> "loop", cands |-> <<>>, inst |-> 1] \in DrainRec
  BY DEF DrainRec
<1> QED BY <1>1, <1>2, <1>3 DEF Resting, IdleDrain

\* The candidate a drain is at.
LEMMA CandidateIs ==
    ASSUME SchedInv, NEW d \in Drainers, drain[d].pc \in {"scan", "claim"}
    PROVE  /\ drain[d] \in DrainRec /\ drain[d].cands # <<>> /\ Candidate(d) \in Requests
           /\ Contains(drain[d].cands, Candidate(d)) /\ Instance(d) \in Sources \cup {Unbounded}
           /\ <<Candidate(d), d>> \in SchedTokens
<1>1. drain[d] \in DrainRec /\ DrainOK(d)
  BY DEF SchedInv, SchedTypeOK, DrainRec
<1>2. drain[d].cands # <<>> /\ drain[d].cands \in Seq(Requests) /\ drain[d].inst \in DOMAIN Instances[Candidate(d)]
  BY <1>1 DEF DrainOK, DrainRec
<1>3. Candidate(d) \in Requests /\ Contains(drain[d].cands, Candidate(d))
  BY <1>2, HeadIsIn DEF Candidate
<1>4. Instances[Candidate(d)] \in Seq(Sources \cup {Unbounded})
  BY <1>3, SchedAssumption
<1>5. Instance(d) \in Sources \cup {Unbounded}
  BY <1>2, <1>4 DEF Instance
<1> QED BY <1>1, <1>2, <1>3, <1>5 DEF SchedTokens

LEMMA FirstInstance ==
    ASSUME NEW r \in Requests
    PROVE  1 \in DOMAIN Instances[r]
<1>1. Instances[r] \in Seq(Sources \cup {Unbounded}) /\ Instances[r] # <<>>
  BY SchedAssumption
<1> QED BY <1>1

\* A drain that goes to the next candidate of its snapshot, or ends.
LEMMA NextIs ==
    ASSUME SchedInv, NEW d \in Drainers, drain[d].pc \in {"scan", "claim"}, NextCandidate(d)
    PROVE  /\ drain' \in [Drainers -> DrainRec] /\ \A e \in Drainers \ {d} : drain'[e] = drain[e]
           /\ drain'[d].pc # "claim"
           /\ Resting(drain'[d]) \/ (drain'[d].pc = "scan" /\ drain'[d].cands # <<>> /\ drain'[d].inst = 1)
           /\ \A r \in Requests : Contains(drain'[d].cands, r) => Contains(drain[d].cands, r)
<1>1. drain \in [Drainers -> DrainRec]
  BY DEF SchedInv, SchedTypeOK, DrainRec
<1>2. drain[d].cands # <<>> /\ drain[d].cands \in Seq(Requests)
  BY CandidateIs DEF DrainRec
<1> DEFINE c == drain[d].cands
           n == IF Len(c) = 1 THEN IdleDrain ELSE [pc |-> "scan", cands |-> Tail(c), inst |-> 1]
<1>3. drain' = [drain EXCEPT ![d] = n]
  BY DEF NextCandidate
<1>4. CASE Len(c) = 1
  <2>1. n = [pc |-> "idle", cands |-> <<>>, inst |-> 1]
    BY <1>4 DEF IdleDrain
  <2> HIDE DEF n
  <2>2. n \in DrainRec
    BY <2>1 DEF DrainRec
  <2>3. drain' \in [Drainers -> DrainRec] /\ drain'[d] = n /\ \A e \in Drainers \ {d} : drain'[e] = drain[e]
    BY <1>1, <1>3, <2>2
  <2> QED BY <2>1, <2>3, EmptyHasNone DEF Resting
<1>5. CASE Len(c) # 1
  <2>1. Tail(c) \in Seq(Requests) /\ Tail(c) # <<>>
    <3>1. c \in Seq(Requests) /\ c # <<>>
      BY <1>2
    <3> HIDE DEF c
    <3>2. Tail(c) \in Seq(Requests) /\ Len(Tail(c)) = Len(c) - 1 /\ Len(c) \in Nat /\ Len(c) # 0
      BY <3>1, HeadTailProperties, EmptySeq
    <3>3. Len(Tail(c)) # 0
      BY <1>5, <3>2
    <3> QED BY <3>2, <3>3
  <2>2. n = [pc |-> "scan", cands |-> Tail(c), inst |-> 1]
    BY <1>5
  <2> HIDE DEF n, c
  <2>3. n \in DrainRec
    BY <2>1, <2>2 DEF DrainRec
  <2>4. drain' \in [Drainers -> DrainRec] /\ drain'[d] = n /\ \A e \in Drainers \ {d} : drain'[e] = drain[e]
    BY <1>1, <1>3, <2>3
  <2>5. ASSUME NEW r \in Requests, Contains(Tail(c), r) PROVE Contains(c, r)
    <3>1. PICK i \in 1 .. Len(Tail(c)) : Tail(c)[i] = r
      BY <2>5 DEF Contains
    <3>2. Len(Tail(c)) = Len(c) - 1 /\ Tail(c)[i] = c[i + 1] /\ Len(c) \in Nat
      BY <1>2, <3>1, HeadTailProperties DEF c
    <3>3. i + 1 \in 1 .. Len(c)
      BY <3>1, <3>2
    <3> QED BY <3>1, <3>2, <3>3 DEF Contains
  <2> QED BY <2>1, <2>2, <2>4, <2>5 DEF c
<1> QED BY <1>4, <1>5

\* What a drain relied on still holds when it goes on.
LEMMA DrainGoesOn ==
    ASSUME SchedInv, NEW d \in Drainers, drain[d].pc \in {"scan", "claim"}, NextCandidate(d),
           place' = place, held' = held, pending' = pending
    PROVE  DrainOK(d)'
<1>1. DrainOK(d)
  BY DEF SchedInv
<1>2. /\ drain' \in [Drainers -> DrainRec] /\ drain'[d].pc # "claim"
      /\ Resting(drain'[d]) \/ (drain'[d].pc = "scan" /\ drain'[d].cands # <<>> /\ drain'[d].inst = 1)
      /\ \A r \in Requests : Contains(drain'[d].cands, r) => Contains(drain[d].cands, r)
  BY NextIs
<1>3. \A r \in Requests : IsLaneHead(r)' <=> IsLaneHead(r)
  BY DEF IsLaneHead
<1>4. \A r \in Requests : Contains(drain'[d].cands, r) =>
          /\ place'[r] # "new"
          /\ place'[r] = "pending" => IsLaneHead(r)'
          /\ place'[r] = "worker" => held'[r][1] # <<r, d>>
  BY <1>1, <1>2, <1>3 DEF DrainOK
<1>5. drain'[d].pc \in {"scan", "claim"} => drain'[d].cands # <<>> /\ drain'[d].inst \in DOMAIN Instances[Candidate(d)']
  <2> SUFFICES ASSUME drain'[d].pc = "scan", drain'[d].cands # <<>>, drain'[d].inst = 1
               PROVE  1 \in DOMAIN Instances[Candidate(d)']
    BY <1>2 DEF Resting
  <2>1. drain'[d].cands \in Seq(Requests)
    BY <1>2 DEF DrainRec
  <2>2. Candidate(d)' \in Requests
    BY <2>1, HeadIsIn DEF Candidate
  <2> QED BY <2>2, FirstInstance
<1> QED BY <1>2, <1>4, <1>5 DEF DrainOK, Resting

-----------------------------------------------------------------------------
\* A step of one request that starts no worker; a drain may begin.
LEMMA RequestStepKeeps ==
    ASSUME SchedInv, SchedTypeOK', PendingOK', ScopesRespected', NEW r \in Requests,
           \A d \in Drainers : drain'[d] = drain[d] \/ (Resting(drain[d]) /\ Resting(drain'[d])),
           \A q \in Requests \ {r} : place'[q] = place[q] /\ held'[q] = held[q] /\ (IsLaneHead(q) => IsLaneHead(q)'),
           \A q \in Requests \ {r}, x \in Drainers \cup {Turn} :
              /\ <<q, x>> \in leased' <=> <<q, x>> \in leased
              /\ \A s \in Sources : <<q, x>> \in tokens'[s] => <<q, x>> \in tokens[s],
           place'[r] \notin {"new", "worker"}, place'[r] = "pending" => place[r] = "new",
           HeldOK(r)', TurnCustody(r)', \A d \in Drainers : DrainCustody(r, d)'
    PROVE  SchedInv'
<1>1. ASSUME NEW d \in Drainers PROVE DrainOK(d)'
  <2>1. DrainOK(d)
    BY DEF SchedInv
  <2>2. CASE Resting(drain'[d])
    BY <2>2, EmptyHasNone DEF Resting, DrainOK
  <2>3. CASE drain'[d] = drain[d]
    <3>1. ASSUME NEW q \in Requests, Contains(drain[d].cands, q)
          PROVE  /\ place'[q] # "new"
                 /\ place'[q] = "pending" => IsLaneHead(q)'
                 /\ place'[q] = "worker" => held'[q][1] # <<q, d>>
      <4>1. /\ place[q] # "new"
            /\ place[q] = "pending" => IsLaneHead(q)
            /\ place[q] = "worker" => held[q][1] # <<q, d>>
        BY <2>1, <3>1 DEF DrainOK
      <4>2. CASE q = r
        BY <4>1, <4>2
      <4>3. CASE q # r
        BY <4>1, <4>3
      <4> QED BY <4>2, <4>3
    <3> QED BY <2>1, <2>3, <3>1 DEF DrainOK, Candidate
  <2> QED BY <2>2, <2>3
<1>2. ASSUME NEW q \in Requests PROVE HeldOK(q)' /\ TurnCustody(q)'
  <2>1. CASE q = r
    BY <2>1
  <2>2. CASE q # r
    <3>1. HeldOK(q) /\ TurnCustody(q)
      BY DEF SchedInv
    <3>2. place'[q] = place[q] /\ held'[q] = held[q]
      BY <2>2
    <3>3. /\ <<q, Turn>> \in leased' <=> <<q, Turn>> \in leased
          /\ \A s \in Sources : <<q, Turn>> \in tokens'[s] => <<q, Turn>> \in tokens[s]
      BY <2>2
    <3> QED BY <3>1, <3>2, <3>3 DEF HeldOK, TurnCustody
  <2> QED BY <2>1, <2>2
<1>3. ASSUME NEW q \in Requests, NEW d \in Drainers PROVE DrainCustody(q, d)'
  <2>1. CASE q = r
    BY <2>1
  <2>2. CASE q # r
    <3>1. DrainCustody(q, d)
      BY DEF SchedInv
    <3>2. place'[q] = place[q] /\ held'[q] = held[q]
      BY <2>2
    <3>3. /\ <<q, d>> \in leased' <=> <<q, d>> \in leased
          /\ \A s \in Sources : <<q, d>> \in tokens'[s] => <<q, d>> \in tokens[s]
      BY <2>2
    <3>4. (Claiming(q, d)' <=> Claiming(q, d)) /\ (Claiming(q, d) => Instance(d)' = Instance(d))
      BY DEF Claiming, Candidate, Instance, Resting
    <3>5. Working(q, d)' <=> Working(q, d)
      BY <3>2 DEF Working
    <3> QED BY <3>1, <3>2, <3>3, <3>4, <3>5 DEF DrainCustody
  <2> QED BY <2>1, <2>2
<1> QED BY <1>1, <1>2, <1>3 DEF SchedInv

\* A step of one drain that claims nothing.
LEMMA DrainStepKeeps ==
    ASSUME SchedInv, SchedTypeOK', ScopesRespected', NEW d \in Drainers,
           UNCHANGED <<pendingVars, place, held>>,
           \A e \in Drainers \ {d} : drain'[e] = drain[e],
           \A q \in Requests, x \in (Drainers \cup {Turn}) \ {d} :
              /\ <<q, x>> \in leased' <=> <<q, x>> \in leased
              /\ \A s \in Sources : <<q, x>> \in tokens'[s] => <<q, x>> \in tokens[s],
           DrainOK(d)', \A q \in Requests : DrainCustody(q, d)'
    PROVE  SchedInv'
<1>1. pending' = pending /\ rotation' = rotation /\ place' = place /\ held' = held
  BY DEF pendingVars
<1>2. PendingOK'
  BY <1>1 DEF SchedInv, PendingOK, RotationExact
<1>3. ASSUME NEW e \in Drainers PROVE DrainOK(e)'
  <2>1. CASE e = d
    BY <2>1
  <2>2. CASE e # d
    <3>1. DrainOK(e) /\ drain'[e] = drain[e]
      BY <2>2 DEF SchedInv
    <3>2. \A q \in Requests : IsLaneHead(q)' <=> IsLaneHead(q)
      BY <1>1 DEF IsLaneHead
    <3> QED BY <1>1, <3>1, <3>2 DEF DrainOK, Candidate
  <2> QED BY <2>1, <2>2
<1>4. ASSUME NEW q \in Requests PROVE HeldOK(q)' /\ TurnCustody(q)'
  <2>1. HeldOK(q) /\ TurnCustody(q)
    BY DEF SchedInv
  <2>2. /\ <<q, Turn>> \in leased' <=> <<q, Turn>> \in leased
        /\ \A s \in Sources : <<q, Turn>> \in tokens'[s] => <<q, Turn>> \in tokens[s]
    BY TurnAssumption
  <2> QED BY <1>1, <2>1, <2>2 DEF HeldOK, TurnCustody
<1>5. ASSUME NEW q \in Requests, NEW e \in Drainers PROVE DrainCustody(q, e)'
  <2>1. CASE e = d
    BY <2>1
  <2>2. CASE e # d
    <3>1. DrainCustody(q, e) /\ drain'[e] = drain[e]
      BY <2>2 DEF SchedInv
    <3>2. /\ <<q, e>> \in leased' <=> <<q, e>> \in leased
          /\ \A s \in Sources : <<q, e>> \in tokens'[s] => <<q, e>> \in tokens[s]
      BY <2>2
    <3> QED BY <1>1, <3>1, <3>2 DEF DrainCustody, Claiming, Working, Candidate, Instance
  <2> QED BY <2>1, <2>2
<1> QED BY <1>2, <1>3, <1>4, <1>5 DEF SchedInv

-----------------------------------------------------------------------------
\* The steps of a drain.
LEMMA QuietDrainStep ==
    ASSUME SchedInv, CapTypeOK', tokens' = tokens, leased' = leased, NEW d \in Drainers,
           UNCHANGED <<pendingVars, place, held>>,
           drain' \in [Drainers -> DrainRec], \A e \in Drainers \ {d} : drain'[e] = drain[e],
           drain[d].pc # "claim", drain'[d].pc # "claim", DrainOK(d)'
    PROVE  SchedInv'
<1>1. SchedTypeOK'
  BY DEF SchedInv, SchedTypeOK, DrainRec, pendingVars
<1>2. ScopesRespected'
  BY FewerLeases DEF SchedInv
<1>3. ASSUME NEW q \in Requests PROVE DrainCustody(q, d)'
  <2>1. DrainCustody(q, d)
    BY DEF SchedInv
  <2>2. ~Claiming(q, d) /\ ~Claiming(q, d)' /\ (Working(q, d)' <=> Working(q, d))
    BY DEF Claiming, Working
  <2> QED BY <2>1, <2>2 DEF DrainCustody
<1> QED BY <1>1, <1>2, <1>3, DrainStepKeeps

LEMMA SnapshotKeeps ==
    ASSUME SchedInv, NEW d \in Drainers, Snapshot(d)
    PROVE  SchedInv' /\ [CapNext]_capVars
<1>1. SchedTypeOK /\ PendingOK /\ drain \in [Drainers -> DrainRec]
  BY DEF SchedInv, SchedTypeOK, DrainRec
<1>2. CapTypeOK' /\ UNCHANGED capVars /\ tokens' = tokens /\ leased' = leased /\ UNCHANGED <<pendingVars, place, held>>
      /\ drain[d].pc = "loop"
  BY <1>1, StillResource DEF Snapshot, SchedTypeOK
<1>3. LaneHeads \subseteq Requests
  BY <1>1, ElementsAre DEF LaneHeads, SchedTypeOK
<1>4. Candidates \in Seq(LaneHeads)
  BY <1>1, CandidatesAre
<1>5. Candidates \in Seq(Requests) /\ \A r : Contains(Candidates, r) => r \in LaneHeads
  BY <1>3, <1>4, SeqMonotonic, ElementsAre
<1> DEFINE n == IF Candidates = <<>> THEN IdleDrain ELSE [pc |-> "scan", cands |-> Candidates, inst |-> 1]
<1>6. drain' = [drain EXCEPT ![d] = n]
  BY DEF Snapshot
<1>7. /\ n \in DrainRec /\ n.pc # "claim"
      /\ Resting(n) \/ (n.pc = "scan" /\ n.cands = Candidates /\ Candidates # <<>> /\ n.inst = 1)
  <2>1. CASE Candidates = <<>>
    BY <2>1 DEF DrainRec, IdleDrain, Resting
  <2>2. CASE Candidates # <<>>
    <3>1. n = [pc |-> "scan", cands |-> Candidates, inst |-> 1]
      BY <2>2
    <3> HIDE DEF n
    <3> QED BY <1>5, <2>2, <3>1 DEF DrainRec
  <2> QED BY <2>1, <2>2
<1> HIDE DEF n
<1>8. drain' \in [Drainers -> DrainRec] /\ drain'[d] = n /\ \A e \in Drainers \ {d} : drain'[e] = drain[e]
  BY <1>1, <1>6, <1>7
<1>9. DrainOK(d)'
  <2>1. CASE Resting(n)
    BY <1>8, <2>1, EmptyHasNone DEF Resting, DrainOK
  <2>2. CASE n.pc = "scan" /\ n.cands = Candidates /\ Candidates # <<>> /\ n.inst = 1
    <3>1. ASSUME NEW r \in Requests, Contains(Candidates, r) PROVE place'[r] = "pending" /\ IsLaneHead(r)'
      <4>1. IsLaneHead(r)
        BY <1>5, <3>1 DEF LaneHeads
      <4>2. place[r] = "pending"
        BY <1>1, <4>1 DEF IsLaneHead, PendingOK
      <4> QED BY <1>2, <4>1, <4>2 DEF IsLaneHead, pendingVars
    <3>2. Candidate(d)' \in Requests
      BY <1>5, <1>8, <2>2, HeadIsIn DEF Candidate
    <3> QED BY <1>8, <2>2, <3>1, <3>2, FirstInstance DEF DrainOK
  <2> QED BY <1>7, <2>1, <2>2
<1> QED BY <1>2, <1>7, <1>8, <1>9, QuietDrainStep

LEMMA TryKeeps ==
    ASSUME SchedInv, NEW d \in Drainers, TryScopes(d) \/ TryRefused(d)
    PROVE  SchedInv' /\ [CapNext]_capVars
<1>1. SchedTypeOK /\ DrainOK(d) /\ drain \in [Drainers -> DrainRec] /\ drain[d].pc = "scan"
  BY DEF SchedInv, SchedTypeOK, DrainRec, TryScopes, TryRefused
<1>2. drain[d] \in DrainRec /\ Candidate(d) \in Requests /\ Instance(d) \in Sources \cup {Unbounded}
  BY <1>1, CandidateIs
<1>3. CapTypeOK' /\ [CapNext]_capVars /\ tokens' = tokens /\ leased' = leased /\ UNCHANGED <<pendingVars, place, held>>
  <2>1. CASE TryScopes(d)
    BY <1>1, <2>1, StillResource DEF TryScopes, SchedTypeOK
  <2>2. CASE TryRefused(d)
    <3>1. PICK lag \in 0 .. MaxLag : Refuse(Instance(d), lag)
      BY <2>2 DEF TryRefused
    <3>2. Instance(d) \in Sources
      BY <1>2, <2>2 DEF TryRefused
    <3> QED BY <1>1, <2>2, <3>1, <3>2, RefuseIs DEF TryRefused, SchedTypeOK
  <2> QED BY <2>1, <2>2
<1>4. CASE NextCandidate(d)
  <2>1. /\ drain' \in [Drainers -> DrainRec] /\ (\A e \in Drainers \ {d} : drain'[e] = drain[e])
        /\ drain'[d].pc # "claim"
    BY <1>1, <1>4, NextIs
  <2>2. DrainOK(d)'
    BY <1>1, <1>3, <1>4, DrainGoesOn DEF pendingVars
  <2> QED BY <1>1, <1>3, <2>1, <2>2, QuietDrainStep
<1>5. CASE drain[d].inst < Len(Instances[Candidate(d)]) /\ drain' = [drain EXCEPT ![d].inst = @ + 1]
  <2> DEFINE n == [drain[d] EXCEPT !.inst = drain[d].inst + 1]
  <2>1. n.pc = "scan" /\ n.cands = drain[d].cands /\ n.inst = drain[d].inst + 1 /\ n \in DrainRec
    BY <1>1, <1>2 DEF DrainRec
  <2>2. drain' = [drain EXCEPT ![d] = n]
    BY <1>5
  <2> HIDE DEF n
  <2>3. drain' \in [Drainers -> DrainRec] /\ drain'[d] = n /\ \A e \in Drainers \ {d} : drain'[e] = drain[e]
    BY <1>1, <2>1, <2>2
  <2>4. Candidate(d)' = Candidate(d)
    BY <2>1, <2>3 DEF Candidate
  <2>5. drain'[d].inst \in DOMAIN Instances[Candidate(d)']
    <3>1. Instances[Candidate(d)] \in Seq(Sources \cup {Unbounded}) /\ drain[d].inst \in Nat \ {0}
      BY <1>2, SchedAssumption DEF DrainRec
    <3> QED BY <1>5, <2>1, <2>3, <2>4, <3>1
  <2>6. \A r \in Requests : IsLaneHead(r)' <=> IsLaneHead(r)
    BY <1>3 DEF IsLaneHead, pendingVars
  <2>7. drain'[d].pc = "scan" /\ drain'[d].cands = drain[d].cands /\ place' = place /\ held' = held
    BY <1>3, <2>1, <2>3
  <2>8. DrainOK(d)'
    BY <1>1, <2>5, <2>6, <2>7 DEF DrainOK
  <2> QED BY <1>1, <1>3, <2>3, <2>7, <2>8, QuietDrainStep
<1> QED BY <1>4, <1>5 DEF TryScopes, TryRefused

LEMMA TryGrantedKeeps ==
    ASSUME SchedInv, NEW d \in Drainers, TryGranted(d)
    PROVE  SchedInv' /\ [CapNext]_capVars
<1> DEFINE r == Candidate(d)
           s == Instance(d)
<1>1. SchedTypeOK /\ DrainOK(d) /\ drain \in [Drainers -> DrainRec] /\ drain[d].pc = "scan"
  BY DEF SchedInv, SchedTypeOK, DrainRec, TryGranted
<1>2. /\ drain[d] \in DrainRec /\ drain[d].cands # <<>> /\ r \in Requests /\ s \in Sources \cup {Unbounded}
      /\ <<r, d>> \in SchedTokens
  BY <1>1, CandidateIs
<1>3. PICK lag \in 0 .. MaxLag : Reserve(s, <<r, d>>, lag)
  BY DEF TryGranted
<1>4. ScopesFree(r) /\ leased' = leased \cup {<<r, d>>} /\ UNCHANGED <<pendingVars, place, held>>
      /\ drain' = [drain EXCEPT ![d] = [drain[d] EXCEPT !.pc = "claim"]]
  BY DEF TryGranted
<1> HIDE DEF r, s
<1>5. CapTypeOK' /\ [CapNext]_capVars /\ \A x \in Sources : tokens'[x] \subseteq tokens[x] \cup IF x = s THEN {<<r, d>>} ELSE {}
  BY <1>1, <1>2, <1>3, ReserveIs DEF SchedTypeOK
<1> DEFINE n == [drain[d] EXCEPT !.pc = "claim"]
<1>6. n.pc = "claim" /\ n.cands = drain[d].cands /\ n.inst = drain[d].inst /\ n \in DrainRec
  BY <1>2 DEF DrainRec
<1>7. drain' = [drain EXCEPT ![d] = n]
  BY <1>4
<1> HIDE DEF n
<1>8. drain' \in [Drainers -> DrainRec] /\ drain'[d] = n /\ \A e \in Drainers \ {d} : drain'[e] = drain[e]
  BY <1>1, <1>6, <1>7
<1>9. Candidate(d)' = r /\ Instance(d)' = s
  BY <1>6, <1>8 DEF Candidate, Instance, r, s
<1>10. DrainOK(d)'
  <2>1. \A q \in Requests : IsLaneHead(q)' <=> IsLaneHead(q)
    BY <1>4 DEF IsLaneHead, pendingVars
  <2>2. drain'[d].pc = "claim" /\ drain'[d].cands = drain[d].cands /\ drain'[d].inst = drain[d].inst
        /\ place' = place /\ held' = held
    BY <1>4, <1>6, <1>8
  <2> QED BY <1>1, <1>9, <2>1, <2>2 DEF DrainOK, r
<1>11. SchedTypeOK'
  <2>1. leased' \subseteq SchedTokens
    BY <1>1, <1>2, <1>4 DEF SchedTypeOK
  <2> QED BY <1>1, <1>4, <1>5, <1>8, <2>1 DEF SchedTypeOK, DrainRec, pendingVars
<1>12. ScopesRespected'
  BY <1>1, <1>2, <1>4, OneMoreLease DEF SchedInv
<1>13. ASSUME NEW q \in Requests, NEW x \in (Drainers \cup {Turn}) \ {d}
       PROVE  /\ <<q, x>> \in leased' <=> <<q, x>> \in leased
              /\ \A y \in Sources : <<q, x>> \in tokens'[y] => <<q, x>> \in tokens[y]
  <2>1. <<q, x>> # <<r, d>>
    BY <1>13
  <2> QED BY <1>4, <1>5, <2>1
<1>14. ASSUME NEW q \in Requests PROVE DrainCustody(q, d)'
  <2>1. DrainCustody(q, d) /\ ~Claiming(q, d) /\ (Working(q, d)' <=> Working(q, d)) /\ held' = held
    BY <1>1, <1>4 DEF SchedInv, Claiming, Working
  <2>2. Claiming(q, d)' <=> q = r
    BY <1>6, <1>8, <1>9 DEF Claiming
  <2>3. CASE q = r
    <3>1. ASSUME NEW y \in Sources, <<q, d>> \in tokens'[y] PROVE y = s \/ <<q, d>> \in tokens[y]
      BY <1>5, <3>1
    <3> QED BY <1>4, <1>9, <2>1, <2>2, <2>3, <3>1 DEF DrainCustody
  <2>4. CASE q # r
    <3>1. <<q, d>> # <<r, d>>
      BY <2>4
    <3>2. (<<q, d>> \in leased' <=> <<q, d>> \in leased) /\ \A y \in Sources : <<q, d>> \in tokens'[y] => <<q, d>> \in tokens[y]
      BY <1>4, <1>5, <3>1
    <3> QED BY <2>1, <2>2, <2>4, <3>2 DEF DrainCustody
  <2> QED BY <2>3, <2>4
<1> QED BY <1>4, <1>5, <1>8, <1>10, <1>11, <1>12, <1>13, <1>14, DrainStepKeeps

LEMMA ClaimMissesKeeps ==
    ASSUME SchedInv, NEW d \in Drainers, ClaimMisses(d)
    PROVE  SchedInv' /\ [CapNext]_capVars
<1> DEFINE r == Candidate(d)
           s == Instance(d)
<1>1. SchedTypeOK /\ DrainOK(d) /\ drain[d].pc = "claim" /\ NextCandidate(d)
      /\ GiveBack(<<r, d>>, s) /\ UNCHANGED <<pendingVars, place, held>>
  BY DEF SchedInv, ClaimMisses
<1>2. Contains(drain[d].cands, r) /\ r \in Requests /\ s \in Sources \cup {Unbounded} /\ <<r, d>> \in SchedTokens
  BY <1>1, CandidateIs
<1> HIDE DEF r, s
<1>3. /\ CapTypeOK' /\ [CapNext]_capVars /\ leased' = leased \ {<<r, d>>}
      /\ \A x \in Sources : tokens'[x] \subseteq tokens[x] /\ (x = s => <<r, d>> \notin tokens'[x])
  BY <1>1, <1>2, GiveBackIs DEF SchedTypeOK
<1>4. drain' \in [Drainers -> DrainRec] /\ (\A e \in Drainers \ {d} : drain'[e] = drain[e]) /\ drain'[d].pc # "claim"
  BY <1>1, NextIs
<1>5. DrainOK(d)'
  BY <1>1, DrainGoesOn DEF pendingVars
<1>6. SchedTypeOK'
  <2>1. leased' \subseteq SchedTokens
    BY <1>1, <1>3 DEF SchedTypeOK
  <2> QED BY <1>1, <1>3, <1>4, <2>1 DEF SchedTypeOK, DrainRec, pendingVars
<1>7. ScopesRespected'
  BY <1>1, <1>3, FewerLeases DEF SchedInv
<1>8. ASSUME NEW q \in Requests, NEW x \in (Drainers \cup {Turn}) \ {d}
      PROVE  /\ <<q, x>> \in leased' <=> <<q, x>> \in leased
             /\ \A y \in Sources : <<q, x>> \in tokens'[y] => <<q, x>> \in tokens[y]
  <2>1. <<q, x>> # <<r, d>>
    BY <1>8
  <2> QED BY <1>3, <2>1
<1>9. ASSUME NEW q \in Requests PROVE DrainCustody(q, d)'
  <2>1. DrainCustody(q, d) /\ ~Claiming(q, d)' /\ (Working(q, d)' <=> Working(q, d)) /\ held' = held
    BY <1>1, <1>4 DEF SchedInv, Claiming, Working
  <2>2. CASE q = r
    <3>1. ~Working(q, d)
      BY <1>1, <1>2, <2>2 DEF DrainOK, Working
    <3>2. ASSUME NEW y \in Sources, <<q, d>> \in tokens'[y] PROVE FALSE
      <4>1. <<q, d>> \in tokens[y] /\ y # s
        BY <1>3, <2>2, <3>2
      <4> QED BY <2>1, <3>1, <4>1 DEF DrainCustody, s
    <3> QED BY <1>3, <2>1, <2>2, <3>1, <3>2 DEF DrainCustody
  <2>3. CASE q # r
    <3>1. <<q, d>> # <<r, d>> /\ ~Claiming(q, d)
      BY <2>3 DEF Claiming, r
    <3>2. (<<q, d>> \in leased' <=> <<q, d>> \in leased) /\ \A y \in Sources : <<q, d>> \in tokens'[y] => <<q, d>> \in tokens[y]
      BY <1>3, <3>1
    <3> QED BY <2>1, <3>1, <3>2 DEF DrainCustody
  <2> QED BY <2>2, <2>3
<1> QED BY <1>1, <1>3, <1>4, <1>5, <1>6, <1>7, <1>8, <1>9, DrainStepKeeps

\* A claim hands the drain's token to the worker.
LEMMA ClaimKeeps ==
    ASSUME SchedInv, NEW d \in Drainers, Claim(d)
    PROVE  SchedInv' /\ [CapNext]_capVars
<1> DEFINE r == Candidate(d)
           s == Instance(d)
<1>1. SchedTypeOK /\ PendingOK /\ DrainOK(d) /\ drain \in [Drainers -> DrainRec] /\ drain[d].pc = "claim"
  BY DEF SchedInv, SchedTypeOK, DrainRec, Claim
<1>2. r \in Requests /\ s \in Sources \cup {Unbounded} /\ <<r, d>> \in SchedTokens
  BY <1>1, CandidateIs
<1>3. /\ Contains(pending, r) /\ PendingRemove(r, TRUE)
      /\ place' = [place EXCEPT ![r] = "worker"] /\ held' = [held EXCEPT ![r] = <<<<r, d>>, s>>]
      /\ drain' = [drain EXCEPT ![d] = [IdleDrain EXCEPT !.pc = "loop"]]
      /\ UNCHANGED resource /\ leased' = leased
  BY DEF Claim
<1>4. Claiming(r, d)
  BY <1>1 DEF Claiming
<1>5. place[r] = "pending"
  BY <1>1, <1>2, <1>3 DEF PendingOK
<1> HIDE DEF r, s
<1>6. CapTypeOK' /\ UNCHANGED capVars /\ tokens' = tokens
  BY <1>1, <1>3, StillResource DEF SchedTypeOK
<1>7. /\ pending' \in Seq(Requests) /\ rotation' \in Seq(Projects) /\ IsInjective(pending') /\ RotationExact'
      /\ \A x : Contains(pending', x) <=> Contains(pending, x) /\ x # r
      /\ \A q \in Requests \ {r} : IsLaneHead(q) => IsLaneHead(q)'
  BY <1>1, <1>2, <1>3, RemoveIs
<1>8. place' \in [Requests -> Places] /\ place'[r] = "worker" /\ \A q \in Requests \ {r} : place'[q] = place[q]
  BY <1>1, <1>2, <1>3 DEF SchedTypeOK, Places
<1>9. /\ held' \in [Requests -> {NoLease} \cup ((SchedTokens \cup {NoLease}) \X (Sources \cup {Unbounded}))]
      /\ held'[r] = <<<<r, d>>, s>> /\ \A q \in Requests \ {r} : held'[q] = held[q]
  BY <1>1, <1>2, <1>3 DEF SchedTypeOK
<1>10. drain' \in [Drainers -> DrainRec] /\ Resting(drain'[d]) /\ \A e \in Drainers \ {d} : drain'[e] = drain[e]
  <2>1. [IdleDrain EXCEPT !.pc = "loop"] = [pc |-> "loop", cands |-> <<>>, inst |-> 1]
    BY DEF IdleDrain
  <2>2. [pc |-> "loop", cands |-> <<>>, inst |-> 1] \in DrainRec
    BY DEF DrainRec
  <2> QED BY <1>1, <1>3, <2>1, <2>2 DEF Resting
<1>11. SchedTypeOK'
  BY <1>1, <1>3, <1>6, <1>7, <1>8, <1>9, <1>10 DEF SchedTypeOK, DrainRec
<1>12. PendingOK'
  BY <1>1, <1>2, <1>7, <1>8 DEF PendingOK
<1>13. ScopesRespected'
  BY <1>1, <1>3, FewerLeases DEF SchedInv
<1>14. held'[r][1] = <<r, d>> /\ held'[r][2] = s
  BY <1>9
<1>15. ASSUME NEW e \in Drainers PROVE DrainOK(e)'
  <2>1. CASE e = d
    BY <1>10, <2>1, EmptyHasNone DEF Resting, DrainOK
  <2>2. CASE e # d
    <3>1. DrainOK(e) /\ drain'[e] = drain[e]
      BY <1>10, <2>2 DEF SchedInv
    <3>2. ASSUME NEW q \in Requests, Contains(drain[e].cands, q)
          PROVE  /\ place'[q] # "new"
                 /\ place'[q] = "pending" => IsLaneHead(q)'
                 /\ place'[q] = "worker" => held'[q][1] # <<q, e>>
      <4>1. CASE q = r
        BY <1>8, <1>14, <2>2, <4>1
      <4>2. CASE q # r
        BY <1>7, <1>8, <1>9, <3>1, <3>2, <4>2 DEF DrainOK
      <4> QED BY <4>1, <4>2
    <3> QED BY <3>1, <3>2 DEF DrainOK, Candidate
  <2> QED BY <2>1, <2>2
<1>16. ASSUME NEW q \in Requests PROVE HeldOK(q)' /\ TurnCustody(q)'
  <2>1. HeldOK(q) /\ TurnCustody(q)
    BY DEF SchedInv
  <2>2. CASE q = r
    <3>1. HeldOK(q)'
      BY <1>2, <1>8, <1>9, <2>2 DEF HeldOK
    <3>2. TurnCustody(q)'
      BY <1>3, <1>5, <1>6, <1>8, <2>1, <2>2 DEF TurnCustody
    <3> QED BY <3>1, <3>2
  <2>3. CASE q # r
    BY <1>3, <1>6, <1>8, <1>9, <2>1, <2>3 DEF HeldOK, TurnCustody
  <2> QED BY <2>2, <2>3
<1>17. ASSUME NEW q \in Requests, NEW e \in Drainers PROVE DrainCustody(q, e)'
  <2>1. DrainCustody(q, e) /\ leased' = leased /\ tokens' = tokens
    BY <1>3, <1>6 DEF SchedInv
  <2>2. CASE e = d
    <3>1. ~Claiming(q, d)'
      BY <1>10 DEF Claiming, Resting
    <3>2. CASE q = r
      <4>1. Working(q, d)' /\ ~Working(q, d) /\ held'[q][2] = s
        BY <1>5, <1>8, <1>14, <3>2 DEF Working
      <4>2. Claiming(q, d) /\ Instance(d) = s
        BY <1>4, <3>2 DEF s
      <4> QED BY <2>1, <2>2, <4>1, <4>2 DEF DrainCustody
    <3>3. CASE q # r
      <4>1. ~Claiming(q, d) /\ (Working(q, d)' <=> Working(q, d)) /\ held'[q] = held[q]
        BY <1>8, <1>9, <3>3 DEF Claiming, Working, r
      <4> QED BY <2>1, <2>2, <3>1, <4>1 DEF DrainCustody
    <3> QED BY <3>2, <3>3
  <2>3. CASE e # d
    <3>1. (Claiming(q, e)' <=> Claiming(q, e)) /\ Instance(e)' = Instance(e)
      BY <1>10, <2>3 DEF Claiming, Candidate, Instance
    <3>2. CASE q = r
      <4>1. ~Working(q, e) /\ ~Working(q, e)'
        BY <1>5, <1>14, <2>3, <3>2 DEF Working
      <4> QED BY <2>1, <3>1, <4>1 DEF DrainCustody
    <3>3. CASE q # r
      <4>1. (Working(q, e)' <=> Working(q, e)) /\ held'[q] = held[q]
        BY <1>8, <1>9, <3>3 DEF Working
      <4> QED BY <2>1, <3>1, <4>1 DEF DrainCustody
    <3> QED BY <3>2, <3>3
  <2> QED BY <2>2, <2>3
<1> QED BY <1>6, <1>11, <1>12, <1>13, <1>15, <1>16, <1>17 DEF SchedInv

-----------------------------------------------------------------------------
\* The steps of requests.  No worker: the tokens of drains are as they were.
LEMMA RequestCustodyKept ==
    ASSUME SchedInv, NEW r \in Requests, NEW d \in Drainers,
           drain'[d] = drain[d] \/ (Resting(drain[d]) /\ Resting(drain'[d])),
           place[r] # "worker", place'[r] # "worker",
           <<r, d>> \in leased' <=> <<r, d>> \in leased,
           \A s \in Sources : <<r, d>> \in tokens'[s] => <<r, d>> \in tokens[s]
    PROVE  DrainCustody(r, d)'
<1>1. DrainCustody(r, d)
  BY DEF SchedInv
<1>2. (Claiming(r, d)' <=> Claiming(r, d)) /\ (Claiming(r, d) => Instance(d)' = Instance(d))
  BY DEF Claiming, Candidate, Instance, Resting
<1>3. ~Working(r, d) /\ ~Working(r, d)'
  BY DEF Working
<1> QED BY <1>1, <1>2, <1>3 DEF DrainCustody

LEMMA PendingStepKeeps ==
    ASSUME SchedInv, NEW r \in Requests, EnqueueReject(r) \/ \E d \in Drainers : Enqueue(r, d) \/ CancelPending(r, d)
    PROVE  SchedInv' /\ [CapNext]_capVars
<1>1. SchedTypeOK /\ PendingOK /\ HeldOK(r) /\ TurnCustody(r)
  BY DEF SchedInv
<1>2. CapTypeOK' /\ UNCHANGED capVars /\ tokens' = tokens /\ leased' = leased /\ held' = held
  BY <1>1, StillResource DEF EnqueueReject, Enqueue, CancelPending, SchedTypeOK
<1>3. PICK to \in {"pending", "done"} : place' = [place EXCEPT ![r] = to] /\ (to = "pending" => place[r] = "new")
      /\ (to = "pending" <=> \E d \in Drainers : Enqueue(r, d))
  <2>1. CASE EnqueueReject(r)
    <3>1. ~\E d \in Drainers : Enqueue(r, d)
      BY <2>1 DEF EnqueueReject, Enqueue
    <3> QED BY <2>1, <3>1 DEF EnqueueReject
  <2>2. CASE \E d \in Drainers : Enqueue(r, d)
    BY <2>2 DEF Enqueue
  <2>3. CASE \E d \in Drainers : CancelPending(r, d)
    <3>1. ~\E d \in Drainers : Enqueue(r, d)
      BY <2>3 DEF CancelPending, Enqueue
    <3> QED BY <2>3, <3>1 DEF CancelPending
  <2> QED BY <2>1, <2>2, <2>3
<1>4. place[r] \in {"new", "pending"}
  BY DEF EnqueueReject, Enqueue, CancelPending
<1>5. place' \in [Requests -> Places] /\ place'[r] = to /\ \A q \in Requests \ {r} : place'[q] = place[q]
  BY <1>1, <1>3 DEF SchedTypeOK, Places
<1>6. drain' \in [Drainers -> DrainRec] /\ \A e \in Drainers : drain'[e] = drain[e] \/ (Resting(drain[e]) /\ Resting(drain'[e]))
  <2>1. drain \in [Drainers -> DrainRec]
    BY <1>1 DEF SchedTypeOK, DrainRec
  <2>2. CASE drain' = drain
    BY <2>1, <2>2
  <2>3. CASE \E d \in Drainers : Begin(d)
    BY <1>1, <2>3, BeginIs
  <2> QED BY <2>2, <2>3 DEF EnqueueReject, Enqueue, CancelPending
<1>7. /\ pending' \in Seq(Requests) /\ rotation' \in Seq(Projects) /\ IsInjective(pending') /\ RotationExact'
      /\ \A q \in Requests : Contains(pending', q) <=> place'[q] = "pending"
      /\ \A q \in Requests \ {r} : IsLaneHead(q) => IsLaneHead(q)'
  <2>1. CASE EnqueueReject(r)
    <3>1. pending' = pending /\ rotation' = rotation /\ place[r] = "new" /\ to = "done"
      BY <1>3, <2>1 DEF EnqueueReject, pendingVars, Enqueue
    <3>2. \A q \in Requests : Contains(pending', q) <=> place'[q] = "pending"
      BY <1>1, <1>5, <3>1 DEF PendingOK
    <3> QED BY <1>1, <3>1, <3>2 DEF SchedTypeOK, PendingOK, RotationExact, IsLaneHead
  <2>2. CASE \E d \in Drainers : Enqueue(r, d)
    <3>1. PendingEnqueue(r) /\ place[r] = "new" /\ to = "pending" /\ ~Contains(pending, r)
      BY <1>1, <1>3, <2>2 DEF Enqueue, PendingOK
    <3>2. /\ pending' \in Seq(Requests) /\ rotation' \in Seq(Projects) /\ IsInjective(pending') /\ RotationExact'
          /\ \A x : Contains(pending', x) <=> Contains(pending, x) \/ x = r
          /\ \A q \in Requests \ {r} : IsLaneHead(q) => IsLaneHead(q)'
      BY <1>1, <3>1, EnqueueIs
    <3> QED BY <1>1, <1>5, <3>1, <3>2 DEF PendingOK
  <2>3. CASE \E d \in Drainers : CancelPending(r, d)
    <3>1. PendingRemove(r, FALSE) /\ place[r] = "pending" /\ Contains(pending, r)
      BY <1>1, <2>3 DEF CancelPending, PendingOK
    <3>2. to = "done"
      BY <1>3, <3>1
    <3>3. /\ pending' \in Seq(Requests) /\ rotation' \in Seq(Projects) /\ IsInjective(pending') /\ RotationExact'
          /\ \A x : Contains(pending', x) <=> Contains(pending, x) /\ x # r
          /\ \A q \in Requests \ {r} : IsLaneHead(q) => IsLaneHead(q)'
      BY <1>1, <3>1, RemoveIs
    <3> QED BY <1>1, <1>5, <3>1, <3>2, <3>3 DEF PendingOK
  <2> QED BY <2>1, <2>2, <2>3
<1>8. SchedTypeOK'
  BY <1>1, <1>2, <1>5, <1>6, <1>7 DEF SchedTypeOK, DrainRec
<1>9. PendingOK'
  BY <1>7 DEF PendingOK
<1>10. ScopesRespected'
  BY <1>1, <1>2, FewerLeases DEF SchedInv
<1>11. HeldOK(r)'
  BY <1>1, <1>2, <1>4, <1>5 DEF HeldOK
<1>12. TurnCustody(r)'
  BY <1>1, <1>2, <1>4, <1>5 DEF TurnCustody
<1>13. \A d \in Drainers : DrainCustody(r, d)'
  BY <1>2, <1>4, <1>5, <1>6, RequestCustodyKept
<1> QED BY <1>2, <1>3, <1>5, <1>6, <1>7, <1>8, <1>9, <1>10, <1>11, <1>12, <1>13, RequestStepKeeps

\* A worker that gives its token back was the only one to hold it.
LEMMA WorkerGivesBack ==
    ASSUME SchedInv, NEW r \in Requests, place[r] = "worker", GiveBack(held[r][1], held[r][2]), place'[r] # "worker",
           \A d \in Drainers : drain'[d] = drain[d] \/ (Resting(drain[d]) /\ Resting(drain'[d]))
    PROVE  /\ CapTypeOK' /\ [CapNext]_capVars /\ leased' \subseteq leased /\ held[r][2] \in Sources \cup {Unbounded}
           /\ \A d \in Drainers : DrainCustody(r, d)'
           /\ <<r, Turn>> \notin leased' /\ \A s \in Sources : <<r, Turn>> \notin tokens'[s]
           /\ \A q \in Requests \ {r}, x \in Drainers \cup {Turn} :
                /\ <<q, x>> \in leased' <=> <<q, x>> \in leased
                /\ \A s \in Sources : <<q, x>> \in tokens'[s] => <<q, x>> \in tokens[s]
<1>1. SchedTypeOK /\ HeldOK(r) /\ TurnCustody(r)
  BY DEF SchedInv
<1>2. PICK e \in Drainers, s \in Sources \cup {Unbounded} : held[r] = <<<<r, e>>, s>>
  BY <1>1 DEF HeldOK
<1>3. held[r][1] = <<r, e>> /\ held[r][2] = s /\ <<r, e>> \in SchedTokens
  BY <1>2 DEF SchedTokens
<1>4. /\ CapTypeOK' /\ [CapNext]_capVars /\ leased' = leased \ {<<r, e>>}
      /\ \A x \in Sources : tokens'[x] \subseteq tokens[x] /\ (x = s => <<r, e>> \notin tokens'[x])
  <2>1. GiveBack(<<r, e>>, s) /\ CapTypeOK
    BY <1>1, <1>3 DEF SchedTypeOK
  <2> QED BY <1>3, <2>1, GiveBackIs
<1>5. ASSUME NEW d \in Drainers PROVE DrainCustody(r, d)'
  <2>1. DrainCustody(r, d)
    BY DEF SchedInv
  <2>2. (Claiming(r, d)' <=> Claiming(r, d)) /\ (Claiming(r, d) => Instance(d)' = Instance(d)) /\ ~Working(r, d)'
    BY DEF Claiming, Candidate, Instance, Resting, Working
  <2>3. CASE d = e
    <3>1. ~Claiming(r, d)
      <4>1. SUFFICES ASSUME Claiming(r, d) PROVE FALSE
        OBVIOUS
      <4>2. Contains(drain[d].cands, r)
        BY <4>1, CandidateIs DEF Claiming
      <4> QED BY <1>3, <2>3, <4>2 DEF SchedInv, DrainOK
    <3>2. ASSUME NEW x \in Sources, <<r, d>> \in tokens'[x] PROVE FALSE
      <4>1. <<r, d>> \in tokens[x] /\ x # s
        BY <1>4, <2>3, <3>2
      <4> QED BY <1>3, <2>1, <3>1, <4>1 DEF DrainCustody
    <3> QED BY <1>4, <2>2, <2>3, <3>1, <3>2 DEF DrainCustody
  <2>4. CASE d # e
    <3>1. ~Working(r, d)
      BY <1>3, <2>4 DEF Working
    <3>2. (<<r, d>> \in leased' <=> <<r, d>> \in leased) /\ \A x \in Sources : <<r, d>> \in tokens'[x] => <<r, d>> \in tokens[x]
      BY <1>4, <2>4
    <3> QED BY <2>1, <2>2, <3>1, <3>2 DEF DrainCustody
  <2> QED BY <2>3, <2>4
<1>6. <<r, Turn>> \notin leased' /\ \A x \in Sources : <<r, Turn>> \notin tokens'[x]
  BY <1>1, <1>4 DEF TurnCustody
<1>7. ASSUME NEW q \in Requests \ {r}, NEW x \in Drainers \cup {Turn}
      PROVE  /\ <<q, x>> \in leased' <=> <<q, x>> \in leased
             /\ \A y \in Sources : <<q, x>> \in tokens'[y] => <<q, x>> \in tokens[y]
  <2>1. <<q, x>> # <<r, e>>
    BY <1>7
  <2> QED BY <1>4, <2>1
<1> QED BY <1>3, <1>4, <1>5, <1>6, <1>7

\* Steps of requests that are past the pending index.
LEMMA PendingUntouched ==
    ASSUME SchedInv, UNCHANGED pendingVars, NEW r \in Requests, place[r] # "pending", place'[r] # "pending",
           \A q \in Requests \ {r} : place'[q] = place[q]
    PROVE  /\ PendingOK' /\ pending' \in Seq(Requests) /\ rotation' \in Seq(Projects)
           /\ \A q \in Requests : IsLaneHead(q) => IsLaneHead(q)'
<1>1. pending' = pending /\ rotation' = rotation /\ SchedTypeOK /\ PendingOK
  BY DEF pendingVars, SchedInv
<1>2. \A q \in Requests : place'[q] = "pending" <=> Contains(pending, q)
  BY <1>1 DEF PendingOK
<1> QED BY <1>1, <1>2 DEF PendingOK, SchedTypeOK, RotationExact, IsLaneHead

LEMMA WorkerEndKeeps ==
    ASSUME SchedInv, NEW r \in Requests, NEW d \in Drainers, Finish(r, d) \/ SessionYields(r, d)
    PROVE  SchedInv' /\ [CapNext]_capVars
<1>1. SchedTypeOK
  BY DEF SchedInv
<1>2. PICK to \in {"done", "idle"} : place' = [place EXCEPT ![r] = to]
         /\ held' = [held EXCEPT ![r] = IF to = "done" THEN NoLease ELSE <<NoLease, held[r][2]>>]
  BY DEF Finish, SessionYields
<1>3. place[r] = "worker" /\ GiveBack(held[r][1], held[r][2]) /\ Begin(d) /\ UNCHANGED pendingVars
  BY DEF Finish, SessionYields
<1>4. place' \in [Requests -> Places] /\ place'[r] = to /\ \A q \in Requests \ {r} : place'[q] = place[q]
  BY <1>1, <1>2 DEF SchedTypeOK, Places
<1>5. drain' \in [Drainers -> DrainRec] /\ \A e \in Drainers : drain'[e] = drain[e] \/ (Resting(drain[e]) /\ Resting(drain'[e]))
  BY <1>1, <1>3, BeginIs
<1>6. /\ CapTypeOK' /\ [CapNext]_capVars /\ leased' \subseteq leased /\ held[r][2] \in Sources \cup {Unbounded}
      /\ \A e \in Drainers : DrainCustody(r, e)'
      /\ <<r, Turn>> \notin leased' /\ \A s \in Sources : <<r, Turn>> \notin tokens'[s]
      /\ \A q \in Requests \ {r}, x \in Drainers \cup {Turn} :
           /\ <<q, x>> \in leased' <=> <<q, x>> \in leased
           /\ \A s \in Sources : <<q, x>> \in tokens'[s] => <<q, x>> \in tokens[s]
  BY <1>3, <1>4, <1>5, WorkerGivesBack
<1>7. /\ held' \in [Requests -> {NoLease} \cup ((SchedTokens \cup {NoLease}) \X (Sources \cup {Unbounded}))]
      /\ held'[r] = (IF to = "done" THEN NoLease ELSE <<NoLease, held[r][2]>>)
      /\ \A q \in Requests \ {r} : held'[q] = held[q]
  BY <1>1, <1>2, <1>6 DEF SchedTypeOK
<1>8. /\ PendingOK' /\ pending' \in Seq(Requests) /\ rotation' \in Seq(Projects)
      /\ \A q \in Requests : IsLaneHead(q) => IsLaneHead(q)'
  BY <1>3, <1>4, PendingUntouched
<1>9. SchedTypeOK'
  BY <1>1, <1>4, <1>5, <1>6, <1>7, <1>8 DEF SchedTypeOK, DrainRec
<1>10. ScopesRespected'
  BY <1>1, <1>6, FewerLeases DEF SchedInv
<1>11. HeldOK(r)' /\ TurnCustody(r)'
  BY <1>4, <1>6, <1>7 DEF HeldOK, TurnCustody
<1> QED BY <1>4, <1>5, <1>6, <1>7, <1>8, <1>9, <1>10, <1>11, RequestStepKeeps

\* The turn of a session: the tokens of drains are not its business.
LEMMA TurnStepKeeps ==
    ASSUME SchedInv, NEW r \in Requests, NEW to \in {"polling", "turn", "idle", "done"},
           place[r] \in {"idle", "polling", "turn"},
           CapTypeOK', [CapNext]_capVars, ScopesRespected', UNCHANGED pendingVars,
           leased' \in {leased, leased \cup {<<r, Turn>>}, leased \ {<<r, Turn>>}},
           \A s \in Sources : tokens'[s] \subseteq tokens[s] \cup {<<r, Turn>>},
           drain' \in [Drainers -> DrainRec],
           \A e \in Drainers : drain'[e] = drain[e] \/ (Resting(drain[e]) /\ Resting(drain'[e])),
           place' = [place EXCEPT ![r] = to],
           held' \in [Requests -> {NoLease} \cup ((SchedTokens \cup {NoLease}) \X (Sources \cup {Unbounded}))],
           \A q \in Requests \ {r} : held'[q] = held[q],
           HeldOK(r)', TurnCustody(r)'
    PROVE  SchedInv'
<1>1. SchedTypeOK
  BY DEF SchedInv
<1>2. place' \in [Requests -> Places] /\ place'[r] = to /\ \A q \in Requests \ {r} : place'[q] = place[q]
  BY <1>1 DEF SchedTypeOK, Places
<1>3. /\ PendingOK' /\ pending' \in Seq(Requests) /\ rotation' \in Seq(Projects)
      /\ \A q \in Requests : IsLaneHead(q) => IsLaneHead(q)'
  BY <1>2, PendingUntouched
<1>4. leased' \subseteq SchedTokens
  <2>1. <<r, Turn>> \in SchedTokens
    BY DEF SchedTokens
  <2> QED BY <1>1, <2>1 DEF SchedTypeOK
<1>5. SchedTypeOK'
  BY <1>2, <1>3, <1>4 DEF SchedTypeOK, DrainRec
<1>6. ASSUME NEW q \in Requests, NEW x \in Drainers \cup {Turn}, <<q, x>> # <<r, Turn>>
      PROVE  /\ <<q, x>> \in leased' <=> <<q, x>> \in leased
             /\ \A s \in Sources : <<q, x>> \in tokens'[s] => <<q, x>> \in tokens[s]
  BY <1>6
<1>7. ASSUME NEW d \in Drainers PROVE DrainCustody(r, d)'
  <2>1. <<r, d>> # <<r, Turn>>
    BY TurnAssumption
  <2>2. /\ <<r, d>> \in leased' <=> <<r, d>> \in leased
        /\ \A s \in Sources : <<r, d>> \in tokens'[s] => <<r, d>> \in tokens[s]
    BY <1>6, <2>1
  <2> QED BY <1>2, <2>2, RequestCustodyKept
<1>8. ASSUME NEW q \in Requests \ {r}, NEW x \in Drainers \cup {Turn}
      PROVE  /\ <<q, x>> \in leased' <=> <<q, x>> \in leased
             /\ \A s \in Sources : <<q, x>> \in tokens'[s] => <<q, x>> \in tokens[s]
  <2>1. <<q, x>> # <<r, Turn>>
    BY <1>8
  <2> QED BY <1>6, <2>1
<1>9. place'[r] \notin {"new", "worker"} /\ place'[r] # "pending"
  BY <1>2
<1> QED BY <1>2, <1>3, <1>5, <1>7, <1>8, <1>9, RequestStepKeeps


LEMMA PollScopesKeeps ==
    ASSUME SchedInv, NEW r \in Requests, PollScopes(r)
    PROVE  SchedInv' /\ [CapNext]_capVars
<1>1. SchedTypeOK /\ HeldOK(r) /\ TurnCustody(r) /\ ScopesRespected
  BY DEF SchedInv
<1>2. place[r] = "idle" /\ place' = [place EXCEPT ![r] = "polling"] /\ leased' = leased \cup {<<r, Turn>>}
      /\ UNCHANGED pendingVars /\ held' = held /\ drain' = drain
  BY DEF PollScopes
<1>3. CapTypeOK' /\ UNCHANGED capVars /\ tokens' = tokens
  BY <1>1, StillResource DEF PollScopes, SchedTypeOK
<1>4. ScopesRespected'
  BY <1>1, <1>2, OneMoreLease DEF PollScopes
<1>5. drain' \in [Drainers -> DrainRec] /\ \A e \in Drainers : drain'[e] = drain[e]
  BY <1>1, <1>2 DEF SchedTypeOK, DrainRec
<1>6. place'[r] = "polling"
  BY <1>1, <1>2 DEF SchedTypeOK
<1>7. HeldOK(r)' /\ TurnCustody(r)'
  BY <1>1, <1>2, <1>3, <1>6 DEF HeldOK, TurnCustody
<1>8. held' \in [Requests -> {NoLease} \cup ((SchedTokens \cup {NoLease}) \X (Sources \cup {Unbounded}))]
  BY <1>1, <1>2 DEF SchedTypeOK
<1> QED BY <1>2, <1>3, <1>4, <1>5, <1>7, <1>8, TurnStepKeeps

LEMMA PollRefusedKeeps ==
    ASSUME SchedInv, NEW r \in Requests, PollRefused(r)
    PROVE  SchedInv' /\ [CapNext]_capVars
<1>1. SchedTypeOK /\ HeldOK(r) /\ TurnCustody(r) /\ ScopesRespected
  BY DEF SchedInv
<1>2. place[r] = "polling" /\ place' = [place EXCEPT ![r] = "idle"] /\ leased' = leased \ {<<r, Turn>>}
      /\ UNCHANGED pendingVars /\ held' = held /\ drain' = drain
  BY DEF PollRefused
<1>3. PICK s \in Sources : held[r] = <<NoLease, s>>
  BY <1>1, <1>2 DEF HeldOK, PollRefused
<1>4. CapTypeOK' /\ CapNext /\ tokens' = tokens
  <2>1. PICK lag \in 0 .. MaxLag : Refuse(s, lag)
    BY <1>3 DEF PollRefused
  <2> QED BY <1>1, <2>1, RefuseIs DEF SchedTypeOK
<1>5. ScopesRespected'
  BY <1>1, <1>2, FewerLeases
<1>6. drain' \in [Drainers -> DrainRec] /\ \A e \in Drainers : drain'[e] = drain[e]
  BY <1>1, <1>2 DEF SchedTypeOK, DrainRec
<1>7. place'[r] = "idle"
  BY <1>1, <1>2 DEF SchedTypeOK
<1>8. HeldOK(r)' /\ TurnCustody(r)'
  BY <1>1, <1>2, <1>4, <1>7 DEF HeldOK, TurnCustody
<1>9. held' \in [Requests -> {NoLease} \cup ((SchedTokens \cup {NoLease}) \X (Sources \cup {Unbounded}))]
  BY <1>1, <1>2 DEF SchedTypeOK
<1> QED BY <1>2, <1>4, <1>5, <1>6, <1>8, <1>9, TurnStepKeeps

LEMMA PollGrantedKeeps ==
    ASSUME SchedInv, NEW r \in Requests, PollGranted(r)
    PROVE  SchedInv' /\ [CapNext]_capVars
<1>1. SchedTypeOK /\ HeldOK(r) /\ TurnCustody(r) /\ ScopesRespected
  BY DEF SchedInv
<1>2. place[r] = "polling" /\ place' = [place EXCEPT ![r] = "turn"] /\ leased' = leased
      /\ UNCHANGED pendingVars /\ drain' = drain
  BY DEF PollGranted
<1>3. PICK s \in Sources \cup {Unbounded} : held[r] = <<NoLease, s>>
  BY <1>1, <1>2 DEF HeldOK
<1>4. held[r][2] = s /\ <<r, Turn>> \in SchedTokens
  BY <1>3 DEF SchedTokens
<1>5. /\ CapTypeOK' /\ [CapNext]_capVars
      /\ \A x \in Sources : tokens'[x] \subseteq tokens[x] \cup IF x = s THEN {<<r, Turn>>} ELSE {}
  <2>1. PICK lag \in 0 .. MaxLag : Reserve(s, <<r, Turn>>, lag)
    BY <1>4 DEF PollGranted
  <2> QED BY <1>1, <1>4, <2>1, ReserveIs DEF SchedTypeOK
<1>6. ScopesRespected'
  BY <1>1, <1>2, FewerLeases
<1>7. drain' \in [Drainers -> DrainRec] /\ \A e \in Drainers : drain'[e] = drain[e]
  BY <1>1, <1>2 DEF SchedTypeOK, DrainRec
<1>8. place'[r] = "turn"
  BY <1>1, <1>2 DEF SchedTypeOK
<1>9. /\ held' \in [Requests -> {NoLease} \cup ((SchedTokens \cup {NoLease}) \X (Sources \cup {Unbounded}))]
      /\ held'[r] = <<<<r, Turn>>, s>> /\ \A q \in Requests \ {r} : held'[q] = held[q]
  <2>1. held' = [held EXCEPT ![r] = <<<<r, Turn>>, s>>]
    BY <1>4 DEF PollGranted
  <2>2. <<<<r, Turn>>, s>> \in (SchedTokens \cup {NoLease}) \X (Sources \cup {Unbounded})
    BY <1>4
  <2> QED BY <1>1, <2>1, <2>2 DEF SchedTypeOK
<1>10. HeldOK(r)'
  BY <1>8, <1>9 DEF HeldOK
<1>11. TurnCustody(r)'
  <2>1. ASSUME NEW x \in Sources, <<r, Turn>> \in tokens'[x] PROVE held'[r][2] = x
    <3>1. <<r, Turn>> \notin tokens[x]
      BY <1>1, <1>2 DEF TurnCustody
    <3> QED BY <1>5, <1>9, <2>1, <3>1
  <2> QED BY <1>1, <1>2, <1>8, <2>1 DEF TurnCustody
<1>12. \A x \in Sources : tokens'[x] \subseteq tokens[x] \cup {<<r, Turn>>}
  BY <1>5
<1> QED BY <1>2, <1>5, <1>6, <1>7, <1>9, <1>10, <1>11, <1>12, TurnStepKeeps

LEMMA SessionEndsKeeps ==
    ASSUME SchedInv, NEW r \in Requests, NEW d \in Drainers, SessionEnds(r, d)
    PROVE  SchedInv' /\ [CapNext]_capVars
<1>1. SchedTypeOK /\ HeldOK(r) /\ TurnCustody(r) /\ ScopesRespected
  BY DEF SchedInv
<1>2. place[r] \in {"idle", "turn"} /\ place' = [place EXCEPT ![r] = "done"] /\ held' = [held EXCEPT ![r] = NoLease]
      /\ UNCHANGED pendingVars /\ Begin(d)
  BY DEF SessionEnds
<1>3. /\ CapTypeOK' /\ [CapNext]_capVars /\ leased' = leased \ {<<r, Turn>>}
      /\ \A x \in Sources : tokens'[x] \subseteq tokens[x] /\ <<r, Turn>> \notin tokens'[x]
  <2>1. CASE place[r] = "turn" /\ GiveBack(held[r][1], held[r][2])
    <3>1. PICK s \in Sources \cup {Unbounded} : held[r] = <<<<r, Turn>>, s>>
      BY <1>1, <2>1 DEF HeldOK
    <3>2. held[r][1] = <<r, Turn>> /\ held[r][2] = s /\ <<r, Turn>> \in SchedTokens
      BY <3>1 DEF SchedTokens
    <3>3. GiveBack(<<r, Turn>>, s) /\ CapTypeOK
      BY <1>1, <2>1, <3>2 DEF SchedTypeOK
    <3>4. /\ CapTypeOK' /\ [CapNext]_capVars /\ leased' = leased \ {<<r, Turn>>}
          /\ \A x \in Sources : tokens'[x] \subseteq tokens[x] /\ (x = s => <<r, Turn>> \notin tokens'[x])
      BY <3>2, <3>3, GiveBackIs
    <3>5. \A x \in Sources : <<r, Turn>> \in tokens[x] => x = s
      BY <1>1, <3>2 DEF TurnCustody
    <3> QED BY <3>4, <3>5
  <2>2. CASE place[r] = "idle" /\ UNCHANGED <<resource, leased>>
    <3>1. CapTypeOK' /\ UNCHANGED capVars /\ tokens' = tokens
      BY <1>1, <2>2, StillResource DEF SchedTypeOK
    <3> QED BY <1>1, <2>2, <3>1 DEF TurnCustody
  <2> QED BY <2>1, <2>2 DEF SessionEnds
<1>4. ScopesRespected'
  BY <1>1, <1>3, FewerLeases
<1>5. drain' \in [Drainers -> DrainRec] /\ \A e \in Drainers : drain'[e] = drain[e] \/ (Resting(drain[e]) /\ Resting(drain'[e]))
  BY <1>1, <1>2, BeginIs
<1>6. place'[r] = "done" /\ held'[r] = NoLease /\ \A q \in Requests \ {r} : held'[q] = held[q]
  BY <1>1, <1>2 DEF SchedTypeOK
<1>7. HeldOK(r)' /\ TurnCustody(r)'
  BY <1>3, <1>6 DEF HeldOK, TurnCustody
<1>8. held' \in [Requests -> {NoLease} \cup ((SchedTokens \cup {NoLease}) \X (Sources \cup {Unbounded}))]
  BY <1>1, <1>2 DEF SchedTypeOK
<1> QED BY <1>2, <1>3, <1>4, <1>5, <1>6, <1>7, <1>8, TurnStepKeeps

\* The clock, and steps that change nothing but the ages of the waits.
LEMMA StillKeeps ==
    ASSUME SchedInv, CapTypeOK', tokens' = tokens, UNCHANGED <<pendingVars, place, leased, held, drain>>
    PROVE  SchedInv'
<1>1. pending' = pending /\ rotation' = rotation /\ place' = place /\ leased' = leased /\ held' = held /\ drain' = drain
  BY DEF pendingVars
<1>2. SchedTypeOK' /\ PendingOK'
  BY <1>1 DEF SchedInv, SchedTypeOK, PendingOK, RotationExact
<1>3. ScopesRespected'
  BY <1>1, FewerLeases DEF SchedInv
<1>4. \A d \in Drainers : DrainOK(d)'
  BY <1>1 DEF SchedInv, DrainOK, Candidate, IsLaneHead
<1>5. \A r \in Requests : HeldOK(r)' /\ TurnCustody(r)'
  BY <1>1 DEF SchedInv, HeldOK, TurnCustody
<1>6. ASSUME NEW r \in Requests, NEW d \in Drainers PROVE DrainCustody(r, d)'
  <2>1. (Claiming(r, d)' <=> Claiming(r, d)) /\ (Working(r, d)' <=> Working(r, d)) /\ Instance(d)' = Instance(d)
    BY <1>1 DEF Claiming, Working, Candidate, Instance
  <2> QED BY <1>1, <2>1 DEF SchedInv, DrainCustody
<1> QED BY <1>2, <1>3, <1>4, <1>5, <1>6 DEF SchedInv

-----------------------------------------------------------------------------
LEMMA SchedInvInitially == SchedInit => SchedInv
<1> SUFFICES ASSUME SchedInit PROVE SchedInv
  OBVIOUS
<1>1. CapTypeOK
  BY SchedAssumption DEF SchedInit, CapInit, CapTypeOK, Ages, MaxAge
<1>2. SchedTypeOK
  BY <1>1 DEF SchedInit, SchedTypeOK, IdleDrain, Places
<1>3. PendingOK
  <2>1. \A x : ~Contains(<<>>, x)
    BY EmptyHasNone
  <2>2. ToSet(<<>>) = {} /\ IsInjective(<<>>)
    BY DEF ToSet, IsInjective
  <2> QED BY <2>1, <2>2 DEF SchedInit, PendingOK, RotationExact
<1>4. ScopesRespected
  BY DEF SchedInit, ScopesRespected, Users
<1>5. \A d \in Drainers : DrainOK(d)
  BY EmptyHasNone DEF SchedInit, DrainOK, IdleDrain
<1>6. \A r \in Requests : HeldOK(r) /\ TurnCustody(r)
  BY DEF SchedInit, CapInit, HeldOK, TurnCustody
<1>7. \A r \in Requests, d \in Drainers : DrainCustody(r, d)
  BY DEF SchedInit, CapInit, DrainCustody, Claiming, Working, IdleDrain
<1> QED BY <1>2, <1>3, <1>4, <1>5, <1>6, <1>7 DEF SchedInv

LEMMA SchedInvStep == SchedInv /\ [SchedNext]_schedVars => SchedInv' /\ [CapNext]_capVars
<1> SUFFICES ASSUME SchedInv, [SchedNext]_schedVars PROVE SchedInv' /\ [CapNext]_capVars
  OBVIOUS
<1>1. ASSUME NEW d \in Drainers, DrainStep(d) PROVE SchedInv' /\ [CapNext]_capVars
  BY <1>1, SnapshotKeeps, TryKeeps, TryGrantedKeeps, ClaimMissesKeeps, ClaimKeeps DEF DrainStep
<1>2. ASSUME NEW r \in Requests, WorkerStep(r) PROVE SchedInv' /\ [CapNext]_capVars
  BY <1>2, WorkerEndKeeps, SessionEndsKeeps, PollScopesKeeps, PollGrantedKeeps, PollRefusedKeeps DEF WorkerStep
<1>3. ASSUME NEW r \in Requests, EnqueueReject(r) \/ \E d \in Drainers : Enqueue(r, d) \/ CancelPending(r, d)
      PROVE  SchedInv' /\ [CapNext]_capVars
  BY <1>3, PendingStepKeeps
<1>4. CASE Age
  <2>1. CapTypeOK' /\ CapNext /\ tokens' = tokens
    BY <1>4, TickIs DEF SchedInv, SchedTypeOK, Age
  <2> QED BY <1>4, <2>1, StillKeeps DEF Age
<1>5. CASE UNCHANGED schedVars
  <2>1. UNCHANGED resource /\ UNCHANGED <<pendingVars, place, leased, held, drain>>
    BY <1>5 DEF schedVars, resource, pendingVars
  <2>2. CapTypeOK' /\ UNCHANGED capVars /\ tokens' = tokens
    BY <2>1, StillResource DEF SchedInv, SchedTypeOK
  <2> QED BY <2>1, <2>2, StillKeeps
<1> QED BY <1>1, <1>2, <1>3, <1>4, <1>5 DEF SchedNext

LEMMA SchedInvAlways == SchedSpec => []SchedInv
BY SchedInvInitially, SchedInvStep, PTL DEF SchedSpec


(* The fields of the pending authority, the reservations and the drains    *)
(* keep their types, and the source a drain or a turn asks is one it may   *)
(* use.                                                                    *)
THEOREM SchedTypeCorrect == SchedSpec => []SchedTypeOK
BY SchedInvAlways, PTL DEF SchedInv

(* Whatever drains, cancels and enqueues interleave, PendingAuthority's    *)
(* rotation lists exactly the projects with pending work, each once.       *)
THEOREM RotationIsExact == SchedSpec => []RotationExact
<1>1. SchedInv => RotationExact
  BY DEF SchedInv, PendingOK
<1> QED BY <1>1, SchedInvAlways, PTL

(* ScopedCapacityAuthority never has more leases out on a scope than the   *)
(* strictest limit among their holders.                                    *)
THEOREM ScopesAreRespected == SchedSpec => []ScopesRespected
BY SchedInvAlways, PTL DEF SchedInv

(* Every overlay lease and every source reservation is held by a worker, a *)
(* turn or a drain that is about to claim: a claim that misses, a yield of *)
(* a session and a poll that is refused leak nothing.                      *)
THEOREM LeasesAreAccounted == SchedSpec => []LeasesAccounted
<1> DEFINE claiming == {<<Candidate(d), d>> : d \in {e \in Drainers : drain[e].pc = "claim"}}
           working == {held[r][1] : r \in {q \in Requests : place[q] \in {"worker", "turn"}}}
           polling == {<<r, Turn>> : r \in {q \in Requests : place[q] = "polling"}}
<1>1. ASSUME SchedInv PROVE LeasesAccounted
  <2>1. ASSUME NEW r \in Requests, NEW d \in Drainers
        PROVE  (Claiming(r, d) => <<r, d>> \in claiming) /\ (Working(r, d) => <<r, d>> \in working)
    BY DEF Claiming, Working
  <2>2. ASSUME NEW r \in Requests, place[r] = "turn" PROVE held[r][1] = <<r, Turn>>
    BY <1>1, <2>2 DEF SchedInv, HeldOK
  <2>3. ASSUME NEW r \in Requests, place[r] = "turn" PROVE <<r, Turn>> \in working
    BY <2>2, <2>3
  <2>4. ASSUME NEW tok \in leased PROVE tok \in claiming \cup working \cup polling
    <3>1. PICK r \in Requests, x \in Drainers \cup {Turn} : tok = <<r, x>>
      BY <1>1 DEF SchedInv, SchedTypeOK, SchedTokens
    <3>2. CASE x \in Drainers
      <4>1. Claiming(r, x) \/ Working(r, x)
        BY <1>1, <3>1, <3>2 DEF SchedInv, DrainCustody
      <4> QED BY <2>1, <3>1, <3>2, <4>1
    <3>3. CASE x = Turn
      <4>1. place[r] \in {"polling", "turn"}
        BY <1>1, <3>1, <3>3 DEF SchedInv, TurnCustody
      <4> QED BY <2>3, <3>1, <3>3, <4>1
    <3> QED BY <3>2, <3>3
  <2>5. claiming \subseteq leased
    <3>1. ASSUME NEW d \in Drainers, drain[d].pc = "claim" PROVE <<Candidate(d), d>> \in leased
      <4>1. Candidate(d) \in Requests
        BY <1>1, <3>1, CandidateIs
      <4> QED BY <1>1, <3>1, <4>1 DEF SchedInv, DrainCustody, Claiming
    <3> QED BY <3>1
  <2>6. working \subseteq leased
    <3>1. ASSUME NEW r \in Requests, place[r] = "worker" PROVE held[r][1] \in leased
      <4>1. PICK d \in Drainers, s \in Sources \cup {Unbounded} : held[r] = <<<<r, d>>, s>>
        BY <1>1, <3>1 DEF SchedInv, HeldOK
      <4>2. Working(r, d) /\ held[r][1] = <<r, d>>
        BY <3>1, <4>1 DEF Working
      <4> QED BY <1>1, <4>2 DEF SchedInv, DrainCustody
    <3>2. ASSUME NEW r \in Requests, place[r] = "turn" PROVE held[r][1] \in leased
      BY <1>1, <2>2, <3>2 DEF SchedInv, TurnCustody
    <3> QED BY <3>1, <3>2
  <2>7. polling \subseteq leased
    BY <1>1 DEF SchedInv, TurnCustody
  <2>8. ASSUME NEW tok \in Held PROVE tok \in claiming \cup working
    <3>1. PICK s \in Sources : tok \in tokens[s]
      BY DEF Held
    <3>2. tok \in SchedTokens
      BY <1>1, <3>1 DEF SchedInv, SchedTypeOK, CapTypeOK
    <3>3. PICK r \in Requests, x \in Drainers \cup {Turn} : tok = <<r, x>>
      BY <3>2 DEF SchedTokens
    <3>4. CASE x \in Drainers
      <4>1. Claiming(r, x) \/ Working(r, x)
        BY <1>1, <3>1, <3>3, <3>4 DEF SchedInv, DrainCustody
      <4> QED BY <2>1, <3>3, <3>4, <4>1
    <3>5. CASE x = Turn
      <4>1. place[r] = "turn"
        BY <1>1, <3>1, <3>3, <3>5 DEF SchedInv, TurnCustody
      <4> QED BY <2>3, <3>3, <3>5, <4>1
    <3> QED BY <3>4, <3>5
  <2> HIDE DEF claiming, working, polling
  <2>9. leased = claiming \cup working \cup polling /\ Held \subseteq claiming \cup working
    BY <2>4, <2>5, <2>6, <2>7, <2>8
  <2> QED BY <2>9 DEF LeasesAccounted, claiming, working, polling
<1> QED BY <1>1, SchedInvAlways, PTL

(* However old its snapshot, a drain starts only the head of a lane: no    *)
(* request overtakes one that is pending before it in its lane.            *)
THEOREM LanesAreFifo == SchedSpec => LaneFifo
<1>1. ASSUME SchedInv, [SchedNext]_schedVars, NEW r \in Requests, place[r] = "pending", place'[r] = "worker"
      PROVE  IsLaneHead(r)
  <2>1. place \in [Requests -> Places]
    BY <1>1 DEF SchedInv, SchedTypeOK
  <2>2. ~(\E q \in Requests : WorkerStep(q) \/ EnqueueReject(q)) /\ ~Age /\ ~UNCHANGED schedVars
    BY <1>1, <2>1 DEF WorkerStep, Finish, SessionYields, SessionEnds, PollScopes, PollGranted, PollRefused,
                      EnqueueReject, Age, schedVars
  <2>3. ~\E q \in Requests, d \in Drainers : Enqueue(q, d) \/ CancelPending(q, d)
    BY <1>1, <2>1 DEF Enqueue, CancelPending
  <2>4. PICK d \in Drainers : DrainStep(d)
    BY <1>1, <2>2, <2>3 DEF SchedNext
  <2>5. Claim(d) /\ place'[r] # place[r]
    BY <1>1, <2>4 DEF DrainStep, Snapshot, TryScopes, TryGranted, TryRefused, ClaimMisses
  <2>6. drain[d].pc = "claim" /\ Candidate(d) = r
    BY <2>1, <2>5 DEF Claim
  <2>7. Contains(drain[d].cands, r)
    BY <1>1, <2>6, CandidateIs
  <2> QED BY <1>1, <2>7 DEF SchedInv, DrainOK
<1>2. SchedInv /\ [SchedNext]_schedVars =>
         [\A r \in Requests : (place[r] = "pending" /\ place'[r] = "worker") => IsLaneHead(r)]_schedVars
  BY <1>1
<1> QED BY <1>2, SchedInvAlways, PTL DEF SchedSpec, LaneFifo

(* The drains and the turns of sessions use the shared resource only by    *)
(* its protocol: seen from the resource, every behaviour of the queue      *)
(* manager is one of ResourceCapacity.                                     *)
THEOREM SchedulerKeepsProtocol == SchedSpec => CapSpec
<1>1. SchedInit => CapInit
  BY DEF SchedInit
<1> QED BY <1>1, SchedInvAlways, SchedInvStep, PTL DEF SchedSpec, CapSpec


\* The resource as this module names it and as the theorems about it do.
LEMMA SameSteps == [Resource!CapNext]_(Resource!capVars) <=> [CapNext]_capVars
<1>1. \A s, lag : Resource!Grantable(s, lag) <=> Grantable(s, lag)
  BY DEF Grantable, Resource!Grantable, JoinsActive, Resource!JoinsActive, SwapsIn, Resource!SwapsIn,
         BlockedByWaiter, Resource!BlockedByWaiter
<1>2. \A s, tok, lag : Resource!Grant(s, tok, lag) <=> Grant(s, tok, lag)
  BY <1>1 DEF Grant, Resource!Grant, Held, Resource!Held, SwapsIn, Resource!SwapsIn
<1>3. \A s, lag : Resource!Refuse(s, lag) <=> Refuse(s, lag)
  BY <1>1 DEF Refuse, Resource!Refuse
<1>4. \A s, tok : Resource!Release(s, tok) <=> Release(s, tok)
  BY DEF Release, Resource!Release
<1>5. Resource!Tick <=> Tick
  BY DEF Tick, Resource!Tick, Older, Resource!Older, MaxAge, Resource!MaxAge
<1>6. Resource!CapNext <=> CapNext
  BY <1>2, <1>3, <1>4, <1>5 DEF CapNext, Resource!CapNext, TryReserve, Resource!TryReserve, ReleaseAny, Resource!ReleaseAny
<1> QED BY <1>6 DEF capVars, Resource!capVars

LEMMA ResourceAssumption ==
    /\ Resource!IsFiniteSet(SchedTokens)
    /\ Concurrency \in [Sources -> Nat \ {0}]
    /\ StarvationSeconds \in Nat \ {0}
    /\ MaxLag \in Nat
    /\ NoSource \notin Sources
<1>1. IsFiniteSet(Drainers \cup {Turn})
  BY SchedAssumption, FS_AddElement
<1>2. IsFiniteSet(SchedTokens)
  BY <1>1, SchedAssumption, FS_Product DEF SchedTokens
<1>3. Resource!IsFiniteSet(SchedTokens)
  BY <1>2 DEF IsFiniteSet, Resource!IsFiniteSet
<1> QED BY <1>3, SchedAssumption

(* Under the drains and turns of the queue manager a source never has more *)
(* reservations out than its declared concurrency, and two sources of one  *)
(* resource are never resident together.                                   *)
THEOREM SchedulerKeepsCapacity == SchedSpec => [](NoOversubscription /\ OnlyActiveResident)
<1>1. Resource!CapSpec => []Resource!NoOversubscription
  BY ResourceAssumption, Resource!ConcurrencyKept, PTL
<1>2. Resource!CapSpec => []Resource!OnlyActiveResident
  BY ResourceAssumption, Resource!OneSourceResident, PTL
<1>3. Resource!NoOversubscription <=> NoOversubscription
  BY DEF NoOversubscription, Resource!NoOversubscription, IsFiniteSet, Cardinality, Resource!Cardinality
<1>4. Resource!OnlyActiveResident <=> OnlyActiveResident
  BY DEF OnlyActiveResident, Resource!OnlyActiveResident
<1>5. Resource!CapInit <=> CapInit
  BY DEF CapInit, Resource!CapInit
<1>6. CapSpec => Resource!CapSpec
  BY <1>5, SameSteps, PTL DEF CapSpec, Resource!CapSpec
<1> QED BY <1>1, <1>2, <1>3, <1>4, <1>6, SchedulerKeepsProtocol, PTL
=============================================================================
