-------------------------- MODULE ResourceCapacity --------------------------
(***************************************************************************)
(* One physical resource of the gateway's SourceCapacityAuthority          *)
(* (gateway/queue/capacity.py, class _ResourceCapacity).  Several sources  *)
(* (models) share the resource but are never resident together: a source   *)
(* other than the active one may start only when the active one has        *)
(* drained.  A source that is refused is remembered with the time it was   *)
(* first refused; once it has waited StarvationSeconds the active source   *)
(* gets no further reservation.                                            *)
(*                                                                         *)
(* A caller reads the clock before it takes the resource lock, so the      *)
(* time it compares with may lag the lock holder's by up to MaxLag.  The   *)
(* model keeps waiting AGES, saturated where the code no longer tells them *)
(* apart, instead of absolute times.                                       *)
(***************************************************************************)
EXTENDS Integers, FiniteSets

CONSTANTS
    Sources,            \* capacity_source_id values that share the resource
    Tokens,             \* reservation tokens; a held token is never issued again
    Concurrency,        \* declared concurrency of every source
    StarvationSeconds,  \* anti-starvation threshold
    MaxLag,             \* bound on how stale a caller's clock reading can be
    NoSource            \* Python's None

ASSUME CapacityAssumption ==
    /\ IsFiniteSet(Tokens)
    /\ Concurrency \in [Sources -> Nat \ {0}]
    /\ StarvationSeconds \in Nat \ {0}
    /\ MaxLag \in Nat
    /\ NoSource \notin Sources

VARIABLES
    active,       \* _active_source_id
    inFlight,     \* _in_flight, 0 when the key is absent
    waitingSince, \* _waiting_since as an age, -1 when the key is absent
    tokens        \* _active_tokens, {} when the key is absent

capVars == <<active, inFlight, waitingSince, tokens>>

MaxAge == StarvationSeconds + MaxLag
Ages == -1 .. MaxAge

Held == UNION {tokens[s] : s \in Sources}

CapInit ==
    /\ active = NoSource
    /\ inFlight = [s \in Sources |-> 0]
    /\ waitingSince = [s \in Sources |-> -1]
    /\ tokens = [s \in Sources |-> {}]

-----------------------------------------------------------------------------
(* Mutant: a starving source blocks itself instead of the others.          *)
BlockedByOwnWait(s, lag) == waitingSince[s] >= 0 /\ waitingSince[s] - lag >= StarvationSeconds

(* Another source has been waiting past the threshold, as a caller whose   *)
(* clock reading is `lag' old sees it.                                     *)
BlockedByWaiter(s, lag) ==
    \E w \in Sources \ {s} :
        waitingSince[w] >= 0 /\ waitingSince[w] - lag >= StarvationSeconds

(* Mutant: off by one at the declared concurrency.                         *)
JoinsActiveOffByOne(s, lag) ==
    active \in {NoSource, s} /\ ~BlockedByWaiter(s, lag) /\ inFlight[s] <= Concurrency[s]

(* The three ways try_reserve ends: a grant to the active (or first)       *)
(* source, a grant that swaps the active source, a refusal.                *)
JoinsActive(s, lag) ==
    /\ active \in {NoSource, s}
    /\ ~BlockedByWaiter(s, lag)
    /\ inFlight[s] < Concurrency[s]

(* Mutant: a source swaps in when its own counter, not the active one's,   *)
(* is zero.                                                                *)
SwapsInWhenIdle(s) == active \notin {NoSource, s} /\ inFlight[s] = 0

SwapsIn(s) ==
    /\ active \notin {NoSource, s}
    /\ inFlight[active] = 0

Grantable(s, lag) == JoinsActive(s, lag) \/ SwapsIn(s)

Grant(s, tok, lag) ==
    /\ tok \notin Held
    /\ Grantable(s, lag)
    /\ active' = s
    /\ inFlight' = [inFlight EXCEPT ![s] = IF SwapsIn(s) THEN 1 ELSE @ + 1]
    /\ tokens' = [tokens EXCEPT ![s] = @ \cup {tok}]
    /\ waitingSince' = [waitingSince EXCEPT ![s] = -1]

Refuse(s, lag) ==
    /\ ~Grantable(s, lag)
    /\ waitingSince' = [waitingSince EXCEPT ![s] = IF @ = -1 THEN lag ELSE @]
    /\ UNCHANGED <<active, inFlight, tokens>>

(* Mutant: a release that is not checked against the tokens held.          *)
ReleaseTwice(s, tok) ==
    /\ tokens' = [tokens EXCEPT ![s] = @ \ {tok}]
    /\ inFlight' = [inFlight EXCEPT ![s] = IF @ > 0 THEN @ - 1 ELSE @]
    /\ UNCHANGED <<active, waitingSince>>

(* release is idempotent: a token that is not (or no longer) held by the   *)
(* source changes nothing.                                                 *)
Release(s, tok) ==
    /\ IF tok \in tokens[s]
         THEN /\ tokens' = [tokens EXCEPT ![s] = @ \ {tok}]
              /\ inFlight' = [inFlight EXCEPT ![s] = IF @ > 0 THEN @ - 1 ELSE @]
         ELSE UNCHANGED <<tokens, inFlight>>
    /\ UNCHANGED <<active, waitingSince>>

(* The monotonic clock: every recorded wait grows older.                   *)
Older(age) == IF age = -1 \/ age = MaxAge THEN age ELSE age + 1

Tick ==
    /\ waitingSince' = [s \in Sources |-> Older(waitingSince[s])]
    /\ UNCHANGED <<active, inFlight, tokens>>

TryReserve ==
    \E s \in Sources, lag \in 0 .. MaxLag :
        \/ \E tok \in Tokens : Grant(s, tok, lag)
        \/ Refuse(s, lag)

ReleaseAny == \E s \in Sources, tok \in Tokens : Release(s, tok)

CapNext == TryReserve \/ ReleaseAny \/ Tick

CapSpec == CapInit /\ [][CapNext]_capVars

-----------------------------------------------------------------------------
CapTypeOK ==
    /\ active \in Sources \cup {NoSource}
    /\ inFlight \in [Sources -> Nat]
    /\ waitingSince \in [Sources -> Ages]
    /\ tokens \in [Sources -> SUBSET Tokens]

(* The counter that decides every grant is exactly the number of leases    *)
(* still out, whatever order releases and duplicate releases arrive in.    *)
CounterMatchesLeases == \A s \in Sources : inFlight[s] = Cardinality(tokens[s])

(* Two sources are never resident on the resource together: only the       *)
(* active source has leases out (AS105, drain-before-swap).                *)
OnlyActiveResident == \A s \in Sources : tokens[s] # {} => s = active

(* No interleaving of reservations and releases lends more than the        *)
(* declared concurrency of a source.                                       *)
NoOversubscription == \A s \in Sources : Cardinality(tokens[s]) <= Concurrency[s]

(* A swap of the active source only ever happens on a fully drained        *)
(* resource.                                                               *)
DrainBeforeSwap == [][active' # active => Held = {}]_capVars

(* Once the resource is active for one source and another has waited past  *)
(* the threshold (for every possible clock reading), the active source's   *)
(* leases can only drain until the resource is handed over.                *)
Overdue(w) == waitingSince[w] >= StarvationSeconds + MaxLag
StarvationStopsActive ==
    [][\A s, w \in Sources :
         (s # w /\ active = s /\ Overdue(w)) => tokens'[s] \subseteq tokens[s]]_capVars
=============================================================================
