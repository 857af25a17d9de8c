------------------------- MODULE SessionOrderProofs -------------------------
(***************************************************************************)
(* Proofs about SessionOrder, for any requests and sessions and any number *)
(* of restarts and recovery attempts.                                      *)
(*                                                                         *)
(* That turns start in order rests on five facts that hold together only:  *)
(* the two dictionaries agree (Indexed), requests of one generation are    *)
(* registered under the same name of the project (KeyNamed), a FIFO keeps  *)
(* them in the order of their ordinals (FifoInOrder), whoever is unfinished*)
(* is registered or still to be scheduled by the starting service          *)
(* (Registered, RecoveryInOrder), and the runner of an unfinished request  *)
(* has the head of its FIFO (Placed).                                      *)
(***************************************************************************)
EXTENDS SessionOrder, FiniteSetTheorems, SequenceTheorems, TLAPS

\* Every entry of a FIFO is a request that has the key, once; every key has
\* its entry.
Indexed ==
    /\ \A k \in Keys : \A i \in DOMAIN queues[k] : keys[queues[k][i]] = k
    /\ \A k \in Keys : \A i, j \in DOMAIN queues[k] : queues[k][i] = queues[k][j] => i = j
    /\ \A r \in Requests : keys[r] # NoKey => \E i \in DOMAIN queues[keys[r]] : queues[keys[r]][i] = r

\* The name of the project in a key tells this generation's requests from
\* recovered ones.
KeyNamed ==
    \A r \in Requests :
        keys[r] # NoKey => keys[r] = IF born[r] = restarts THEN ByPath(r) ELSE ById(r)

\* Records have ordinals, each its own.
Ordinals ==
    /\ \A r \in Requests : rec[r] = "absent" <=> ordinal[r] = 0
    /\ \A q, r \in Requests : ordinal[q] = ordinal[r] /\ ordinal[r] # 0 => q = r

\* Where the thread of a request is when it is registered, or has ended.
Placed(r) ==
    /\ rec[r] = "absent" => keys[r] = NoKey /\ at[r] = "none" /\ r \notin ToRecover
    /\ at[r] = "admitted" => keys[r] # NoKey
    /\ at[r] = "unwind" \/ cancelling[r] => rec[r] = "ended"
    /\ cancelling[r] => at[r] # "admitted"
    /\ at[r] = "runner" /\ Unfinished(r) => IsHead(r)

\* An unfinished request is registered, or still to be.
Registered(r) ==
    /\ Unfinished(r) => keys[r] # NoKey \/ r \in ToRecover
    /\ r \in ToRecover => keys[r] = NoKey /\ at[r] = "none" /\ born[r] < restarts
    /\ r \notin recovering.running \/ r \notin recovering.queued

SameTurnOrder(q, r) == q # r /\ SessionOf[q] = SessionOf[r] /\ born[q] = born[r]

\* A FIFO keeps the requests of a generation in admission order.
FifoInOrder ==
    \A k \in Keys : \A i, j \in DOMAIN queues[k] :
        i < j /\ born[queues[k][i]] = born[queues[k][j]] => ordinal[queues[k][i]] < ordinal[queues[k][j]]

\* Of the unfinished requests of a generation, the running one is the first.
RunningFirst ==
    \A q, r \in Requests :
        SameTurnOrder(q, r) /\ rec[r] = "running" /\ Unfinished(q) => ordinal[r] < ordinal[q]

\* What is still to be scheduled comes after what is registered, the queued
\* after the running.
RecoveryInOrder ==
    \A q, r \in Requests :
        SameTurnOrder(q, r) =>
            /\ r \in recovering.running /\ q \in recovering.queued => ordinal[r] < ordinal[q]
            /\ keys[r] # NoKey /\ q \in ToRecover => ordinal[r] < ordinal[q]

OrderInv ==
    /\ OrderTypeOK /\ Indexed /\ KeyNamed /\ Ordinals
    /\ \A r \in Requests : Placed(r) /\ Registered(r)
    /\ FifoInOrder /\ RunningFirst /\ RecoveryInOrder

-----------------------------------------------------------------------------
\* The two names of a project, and no name.
LEMMA KeyTypes ==
    ASSUME NEW r \in Requests
    PROVE  ByPath(r) \in Keys /\ ById(r) \in Keys
BY DEF ByPath, ById, Keys, Sessions

LEMMA NoKeyIsNone == NoKey \notin Keys
BY DEF NoKey, Keys

LEMMA KeysApart ==
    ASSUME NEW q \in Requests, NEW r \in Requests
    PROVE  (ById(q) = ById(r) => SessionOf[q] = SessionOf[r]) /\ ByPath(q) # ById(r)
<1>1. ById(q)[2] = SessionOf[q] /\ ById(r)[2] = SessionOf[r] /\ ByPath(q)[1] = "path" /\ ById(r)[1] = "id"
  BY DEF ById, ByPath
<1> QED BY <1>1

\* deque.remove of an entry.
LEMMA WithoutIs ==
    ASSUME NEW q \in Seq(Requests), NEW i \in DOMAIN q, \A a, b \in DOMAIN q : q[a] = q[b] => a = b
    PROVE  /\ Without(q, q[i]) \in Seq(Requests)
           /\ Len(Without(q, q[i])) = Len(q) - 1
           /\ \A j \in 1 .. Len(q) - 1 : Without(q, q[i])[j] = IF j < i THEN q[j] ELSE q[j + 1]
<1> DEFINE c == CHOOSE a \in DOMAIN q : q[a] = q[i]
<1>1. c \in DOMAIN q /\ q[c] = q[i]
  OBVIOUS
<1>2. c = i
  BY <1>1
<1>3. Without(q, q[i]) = SubSeq(q, 1, i - 1) \o SubSeq(q, i + 1, Len(q))
  BY <1>2 DEF Without, RemoveAt
<1>4. i \in 1 .. Len(q) /\ Len(q) \in Nat
  OBVIOUS
<1>5. SubSeq(q, 1, i - 1) \in Seq(Requests) /\ Len(SubSeq(q, 1, i - 1)) = i - 1
      /\ \A j \in 1 .. i - 1 : SubSeq(q, 1, i - 1)[j] = q[j]
  BY <1>4
<1>6. SubSeq(q, i + 1, Len(q)) \in Seq(Requests) /\ Len(SubSeq(q, i + 1, Len(q))) = Len(q) - i
      /\ \A j \in 1 .. Len(q) - i : SubSeq(q, i + 1, Len(q))[j] = q[i + j]
  BY <1>4
<1> DEFINE u == SubSeq(q, 1, i - 1)
           v == SubSeq(q, i + 1, Len(q))
<1>7. u \in Seq(Requests) /\ v \in Seq(Requests) /\ Len(u) = i - 1 /\ Len(v) = Len(q) - i
      /\ (\A j \in 1 .. i - 1 : u[j] = q[j]) /\ \A j \in 1 .. Len(q) - i : v[j] = q[i + j]
  BY <1>5, <1>6
<1>8. Without(q, q[i]) = u \o v
  BY <1>3
<1> HIDE DEF u, v, c
<1>9. u \o v \in Seq(Requests) /\ Len(u \o v) = Len(q) - 1
  BY <1>4, <1>7
<1>10. ASSUME NEW j \in 1 .. Len(q) - 1 PROVE (u \o v)[j] = IF j < i THEN q[j] ELSE q[j + 1]
  <2>1. CASE j < i
    BY <1>4, <1>7, <2>1
  <2>2. CASE ~(j < i)
    <3>1. j \in 1 .. Len(u) + Len(v) /\ ~(j <= Len(u)) /\ Len(u) = i - 1
      BY <1>4, <1>7, <2>2
    <3>2. (u \o v)[j] = v[j - (i - 1)]
      BY <1>7, <3>1, ConcatProperties, SMTT(30)
    <3>3. j - (i - 1) \in 1 .. Len(q) - i /\ i + (j - (i - 1)) = j + 1
      BY <1>4, <2>2
    <3> QED BY <1>7, <2>2, <3>2, <3>3
  <2> QED BY <2>1, <2>2
<1> QED BY <1>8, <1>9, <1>10

\* What register does to a request that has no key.
LEMMA RegisterIs ==
    ASSUME OrderTypeOK, Indexed, NEW r \in Requests, NEW k \in Keys, keys[r] = NoKey, Register(r, k)
    PROVE  /\ keys' \in [Requests -> Keys \cup {NoKey}] /\ queues' \in [Keys -> Seq(Requests)]
           /\ keys'[r] = k /\ \A q \in Requests \ {r} : keys'[q] = keys[q]
           /\ \A l \in Keys \ {k} : queues'[l] = queues[l]
           /\ Len(queues'[k]) = Len(queues[k]) + 1 /\ queues'[k][Len(queues[k]) + 1] = r
           /\ \A i \in DOMAIN queues[k] : i \in DOMAIN queues'[k] /\ queues'[k][i] = queues[k][i]
           /\ \A i \in DOMAIN queues'[k] : i \in DOMAIN queues[k] \/ i = Len(queues[k]) + 1
           /\ Indexed'
<1>1. keys \in [Requests -> Keys \cup {NoKey}] /\ queues \in [Keys -> Seq(Requests)]
  BY DEF OrderTypeOK
<1>2. keys' = [keys EXCEPT ![r] = k] /\ queues' = [queues EXCEPT ![k] = Append(queues[k], r)]
  BY DEF Register
<1>3. /\ keys' \in [Requests -> Keys \cup {NoKey}] /\ keys'[r] = k
      /\ \A q \in Requests \ {r} : keys'[q] = keys[q]
  BY <1>1, <1>2
<1>4. queues'[k] = Append(queues[k], r) /\ \A l \in Keys \ {k} : queues'[l] = queues[l]
  BY <1>1, <1>2
<1>5. queues[k] \in Seq(Requests)
  BY <1>1
<1>6. /\ queues'[k] \in Seq(Requests)
      /\ Len(queues'[k]) = Len(queues[k]) + 1 /\ queues'[k][Len(queues[k]) + 1] = r
      /\ \A i \in DOMAIN queues[k] : i \in DOMAIN queues'[k] /\ queues'[k][i] = queues[k][i]
      /\ \A i \in DOMAIN queues'[k] : i \in DOMAIN queues[k] \/ i = Len(queues[k]) + 1
      /\ Len(queues[k]) + 1 \in DOMAIN queues'[k]
  BY <1>4, <1>5
<1>7. queues' \in [Keys -> Seq(Requests)]
  BY <1>1, <1>2, <1>5
<1>8. \A i \in DOMAIN queues[k] : queues[k][i] # r
  BY NoKeyIsNone DEF Indexed
<1>9. \A l \in Keys \ {k} : \A i \in DOMAIN queues[l] : queues[l][i] # r
  BY NoKeyIsNone DEF Indexed
<1>10. ASSUME NEW l \in Keys, NEW i \in DOMAIN queues'[l] PROVE keys'[queues'[l][i]] = l
  <2>1. CASE l = k
    <3>1. CASE i \in DOMAIN queues[k]
      <4>1. queues[k][i] \in Requests \ {r} /\ queues'[l][i] = queues[k][i]
        BY <1>5, <1>6, <1>8, <2>1, <3>1
      <4> QED BY <1>3, <2>1, <3>1, <4>1 DEF Indexed
    <3>2. CASE i = Len(queues[k]) + 1
      BY <1>3, <1>6, <2>1, <3>2
    <3> QED BY <1>6, <1>10, <2>1, <3>1, <3>2
  <2>2. CASE l # k
    <3>1. queues[l] \in Seq(Requests) /\ i \in DOMAIN queues[l] /\ queues'[l] = queues[l]
      BY <1>1, <1>4, <1>10, <2>2
    <3>2. queues[l][i] \in Requests \ {r}
      BY <1>9, <2>2, <3>1
    <3> QED BY <1>3, <3>1, <3>2 DEF Indexed
  <2> QED BY <2>1, <2>2
<1>11. ASSUME NEW l \in Keys, NEW i \in DOMAIN queues'[l], NEW j \in DOMAIN queues'[l], queues'[l][i] = queues'[l][j]
       PROVE  i = j
  <2>1. CASE l = k
    BY <1>6, <1>8, <1>11, <2>1 DEF Indexed
  <2>2. CASE l # k
    BY <1>4, <1>11, <2>2 DEF Indexed
  <2> QED BY <2>1, <2>2
<1>12. ASSUME NEW q \in Requests, keys'[q] # NoKey PROVE \E i \in DOMAIN queues'[keys'[q]] : queues'[keys'[q]][i] = q
  <2>1. CASE q = r
    BY <1>3, <1>6, <2>1
  <2>2. CASE q # r
    <3>1. keys'[q] = keys[q] /\ keys[q] \in Keys
      BY <1>1, <1>3, <1>12, <2>2
    <3>2. PICK i \in DOMAIN queues[keys[q]] : queues[keys[q]][i] = q
      BY <1>12, <3>1 DEF Indexed
    <3>3. CASE keys[q] = k
      BY <1>6, <3>1, <3>2, <3>3
    <3>4. CASE keys[q] # k
      BY <1>4, <3>1, <3>2, <3>4
    <3> QED BY <3>3, <3>4
  <2> QED BY <2>1, <2>2
<1>13. Indexed'
  BY <1>10, <1>11, <1>12 DEF Indexed
<1> QED BY <1>3, <1>4, <1>6, <1>7, <1>13

\* What complete does to the FIFO: the entries that stay keep their order.
LEMMA ForgetIs ==
    ASSUME OrderTypeOK, Indexed, NEW r \in Requests, Forget(r)
    PROVE  /\ keys' \in [Requests -> Keys \cup {NoKey}] /\ queues' \in [Keys -> Seq(Requests)]
           /\ keys'[r] = NoKey /\ \A q \in Requests \ {r} : keys'[q] = keys[q]
           /\ \A l \in Keys : \A i, j \in DOMAIN queues'[l] : i < j =>
                 \E a, b \in DOMAIN queues[l] :
                    a < b /\ queues[l][a] = queues'[l][i] /\ queues[l][b] = queues'[l][j]
           /\ \A q \in Requests \ {r} : IsHead(q) => IsHead(q)'
           /\ Indexed'
<1>1. keys \in [Requests -> Keys \cup {NoKey}] /\ queues \in [Keys -> Seq(Requests)]
  BY DEF OrderTypeOK
<1>2. CASE keys[r] = NoKey
  <2>1. keys' = keys /\ queues' = queues
    BY <1>2 DEF Forget, order
  <2>2. Indexed'
    BY <2>1 DEF Indexed
  <2>3. \A q \in Requests : IsHead(q) => IsHead(q)'
    BY <2>1 DEF IsHead
  <2> QED BY <1>1, <1>2, <2>1, <2>2, <2>3
<1>3. CASE keys[r] # NoKey
  <2> DEFINE k == keys[r]
             w == Without(queues[k], r)
  <2>1. k \in Keys /\ keys' = [keys EXCEPT ![r] = NoKey] /\ queues' = [queues EXCEPT ![k] = w]
    BY <1>1, <1>3 DEF Forget
  <2>2. PICK p \in DOMAIN queues[k] : queues[k][p] = r
    BY <1>3 DEF Indexed
  <2>3. queues[k] \in Seq(Requests) /\ Len(queues[k]) \in Nat /\ DOMAIN queues[k] = 1 .. Len(queues[k])
    BY <1>1, <2>1
  <2>4. /\ w \in Seq(Requests) /\ Len(w) = Len(queues[k]) - 1
        /\ \A j \in 1 .. Len(queues[k]) - 1 : w[j] = IF j < p THEN queues[k][j] ELSE queues[k][j + 1]
    <3>1. \A a, b \in DOMAIN queues[k] : queues[k][a] = queues[k][b] => a = b
      BY <2>1 DEF Indexed
    <3> DEFINE q == queues[k]
    <3>2. q \in Seq(Requests) /\ p \in DOMAIN q /\ (\A a, b \in DOMAIN q : q[a] = q[b] => a = b) /\ q[p] = r
      BY <2>2, <2>3, <3>1
    <3>3. w = Without(q, r)
      OBVIOUS
    <3> HIDE DEF q, w, k
    <3>4. /\ Without(q, q[p]) \in Seq(Requests) /\ Len(Without(q, q[p])) = Len(q) - 1
          /\ \A j \in 1 .. Len(q) - 1 : Without(q, q[p])[j] = IF j < p THEN q[j] ELSE q[j + 1]
      BY <3>2, WithoutIs
    <3> QED BY <3>2, <3>3, <3>4 DEF q
  <2> HIDE DEF w
  <2>5. /\ keys' \in [Requests -> Keys \cup {NoKey}] /\ keys'[r] = NoKey
        /\ \A q \in Requests \ {r} : keys'[q] = keys[q]
    BY <1>1, <2>1
  <2>6. queues' \in [Keys -> Seq(Requests)] /\ queues'[k] = w /\ \A l \in Keys \ {k} : queues'[l] = queues[l]
    BY <1>1, <2>1, <2>4
  <2> HIDE DEF k
  <2> DEFINE old(j) == IF j < p THEN j ELSE j + 1
  <2>7. ASSUME NEW j \in DOMAIN w
        PROVE  old(j) \in DOMAIN queues[k] /\ w[j] = queues[k][old(j)] /\ old(j) # p
    BY <2>3, <2>4, <2>7
  <2>8. \A i, j \in DOMAIN w : (i < j <=> old(i) < old(j)) /\ (old(i) = old(j) => i = j)
    BY <2>2, <2>3, <2>4
  <2>9. ASSUME NEW l \in Keys, NEW i \in DOMAIN queues'[l], NEW j \in DOMAIN queues'[l], i < j
        PROVE  \E a, b \in DOMAIN queues[l] :
                  a < b /\ queues[l][a] = queues'[l][i] /\ queues[l][b] = queues'[l][j]
    <3>1. CASE l = k
      <4>1. /\ i \in DOMAIN w /\ j \in DOMAIN w
            /\ old(i) \in DOMAIN queues[l] /\ old(j) \in DOMAIN queues[l] /\ old(i) < old(j)
            /\ queues[l][old(i)] = queues'[l][i] /\ queues[l][old(j)] = queues'[l][j]
        BY <2>6, <2>7, <2>8, <2>9, <3>1
      <4> HIDE DEF old
      <4> QED BY <4>1
    <3>2. CASE l # k
      <4>1. queues'[l] = queues[l]
        BY <2>6, <3>2
      <4> QED BY <2>9, <4>1
    <3> QED BY <3>1, <3>2
  <2>10. ASSUME NEW l \in Keys, NEW i \in DOMAIN queues'[l] PROVE keys'[queues'[l][i]] = l
    <3>1. CASE l = k
      <4>1. i \in DOMAIN w /\ old(i) \in DOMAIN queues[k] /\ w[i] = queues[k][old(i)] /\ old(i) # p
        BY <2>6, <2>7, <2>10, <3>1
      <4>2. queues[k][old(i)] # r /\ queues[k][old(i)] \in Requests /\ keys[queues[k][old(i)]] = k
        BY <2>1, <2>2, <2>3, <4>1 DEF Indexed
      <4> QED BY <2>5, <2>6, <3>1, <4>1, <4>2
    <3>2. CASE l # k
      <4>1. queues'[l] = queues[l] /\ i \in DOMAIN queues[l] /\ queues[l] \in Seq(Requests)
        BY <1>1, <2>6, <2>10, <3>2
      <4>2. queues[l][i] \in Requests /\ keys[queues[l][i]] = l
        BY <4>1 DEF Indexed
      <4>3. queues[l][i] # r
        BY <4>2, <3>2 DEF k
      <4> QED BY <2>5, <4>1, <4>2, <4>3
    <3> QED BY <3>1, <3>2
  <2>11. ASSUME NEW l \in Keys, NEW i \in DOMAIN queues'[l], NEW j \in DOMAIN queues'[l], queues'[l][i] = queues'[l][j]
         PROVE  i = j
    <3>1. CASE l = k
      <4>1. /\ i \in DOMAIN w /\ j \in DOMAIN w
            /\ old(i) \in DOMAIN queues[k] /\ old(j) \in DOMAIN queues[k]
            /\ queues[k][old(i)] = queues[k][old(j)]
        BY <2>6, <2>7, <2>11, <3>1
      <4>2. old(i) = old(j)
        BY <2>1, <4>1 DEF Indexed
      <4> QED BY <2>8, <4>1, <4>2
    <3>2. CASE l # k
      BY <2>6, <2>11, <3>2 DEF Indexed
    <3> QED BY <3>1, <3>2
  <2>12. ASSUME NEW q \in Requests \ {r}, keys[q] = k PROVE \E i \in DOMAIN w : w[i] = q
    <3>1. PICK i \in DOMAIN queues[k] : queues[k][i] = q
      BY <2>1, <2>12, NoKeyIsNone DEF Indexed
    <3>2. i # p
      BY <2>2, <2>12, <3>1
    <3>3. CASE i < p
      BY <2>2, <2>3, <2>4, <3>1, <3>3
    <3>4. CASE i > p
      <4>1. p \in 1 .. Len(queues[k]) /\ i \in 1 .. Len(queues[k])
        BY <2>2, <2>3, <3>1
      <4>2. i - 1 \in 1 .. Len(queues[k]) - 1 /\ ~(i - 1 < p) /\ (i - 1) + 1 = i
        BY <2>3, <3>4, <4>1
      <4>3. w[i - 1] = queues[k][i]
        BY <2>4, <4>2
      <4> QED BY <2>4, <3>1, <4>2, <4>3
    <3> QED BY <2>2, <2>3, <3>1, <3>2, <3>3, <3>4
  <2>13. ASSUME NEW q \in Requests, keys'[q] # NoKey PROVE \E i \in DOMAIN queues'[keys'[q]] : queues'[keys'[q]][i] = q
    <3>1. q # r /\ keys'[q] = keys[q] /\ keys[q] \in Keys
      BY <1>1, <2>5, <2>13
    <3>2. CASE keys[q] = k
      BY <2>6, <2>12, <3>1, <3>2
    <3>3. CASE keys[q] # k
      BY <2>6, <2>13, <3>1, <3>3 DEF Indexed
    <3> QED BY <3>2, <3>3
  <2>14. ASSUME NEW q \in Requests \ {r}, IsHead(q) PROVE IsHead(q)'
    <3>1. keys[q] \in Keys /\ keys'[q] = keys[q] /\ keys[q] # NoKey /\ Head(queues[keys[q]]) = q
      BY <1>1, <2>5, <2>14 DEF IsHead
    <3>2. CASE keys[q] = k
      <4>1. PICK i \in DOMAIN w : w[i] = q
        BY <2>12, <3>2
      <4>2. queues[k][1] = q /\ Len(w) >= 1 /\ Len(queues[k]) >= 2 /\ p # 1
        BY <2>2, <2>3, <2>4, <2>14, <3>1, <3>2, <4>1
      <4>3. w[1] = q
        BY <2>2, <2>3, <2>4, <4>2
      <4>4. Head(w) = q
        BY <2>4, <4>2, <4>3
      <4> QED BY <2>6, <3>1, <3>2, <4>4 DEF IsHead
    <3>3. CASE keys[q] # k
      BY <2>6, <3>1, <3>3 DEF IsHead
    <3> QED BY <3>2, <3>3
  <2>15. Indexed'
    BY <2>10, <2>11, <2>13 DEF Indexed
  <2> QED BY <2>5, <2>6, <2>9, <2>14, <2>15
<1> QED BY <1>2, <1>3

\* Who has the head of a FIFO was admitted first of those still to run.
LEMMA HeadFirst ==
    ASSUME OrderInv, NEW r \in Requests, NEW q \in Requests, SameTurnOrder(q, r), IsHead(r), Unfinished(q)
    PROVE  ordinal[r] < ordinal[q]
<1>1. OrderTypeOK /\ Indexed /\ KeyNamed /\ Registered(q) /\ FifoInOrder /\ RecoveryInOrder
  BY DEF OrderInv
<1>2. keys[r] # NoKey /\ Head(queues[keys[r]]) = r
  BY DEF IsHead
<1>3. CASE q \in ToRecover
  BY <1>1, <1>2, <1>3 DEF RecoveryInOrder
<1>4. CASE q \notin ToRecover
  <2>1. keys[q] # NoKey
    BY <1>1, <1>4 DEF Registered
  <2>2. keys[q] = keys[r] /\ keys[r] \in Keys
    <3>1. keys[q] = IF born[q] = restarts THEN ByPath(q) ELSE ById(q)
      BY <1>1, <2>1 DEF KeyNamed
    <3>2. keys[r] = IF born[r] = restarts THEN ByPath(r) ELSE ById(r)
      BY <1>1, <1>2 DEF KeyNamed
    <3> QED BY <3>1, <3>2, KeyTypes DEF SameTurnOrder, ByPath, ById
  <2>3. PICK j \in DOMAIN queues[keys[r]] : queues[keys[r]][j] = q
    BY <1>1, <2>1, <2>2 DEF Indexed
  <2>4. queues[keys[r]] \in Seq(Requests)
    BY <1>1, <2>2 DEF OrderTypeOK
  <2>5. 1 \in DOMAIN queues[keys[r]] /\ queues[keys[r]][1] = r /\ (j # 1 => 1 < j)
    BY <1>2, <2>3, <2>4
  <2>6. j # 1
    BY <2>3, <2>5 DEF SameTurnOrder
  <2> QED BY <1>1, <2>2, <2>3, <2>5, <2>6 DEF FifoInOrder, SameTurnOrder
<1> QED BY <1>3, <1>4

\* Steps that leave the fence alone: only a thread at the head starts a turn.
LEMMA RecordStepKeeps ==
    ASSUME OrderInv, OrderTypeOK', NEW r \in Requests,
           UNCHANGED <<order, recovering, stamps>>,
           \A q \in Requests \ {r} : rec'[q] = rec[q] /\ at'[q] = at[q] /\ cancelling'[q] = cancelling[q],
           rec[r] # "absent", rec'[r] # "absent", Unfinished(r)' => Unfinished(r),
           rec'[r] = "running" => rec[r] = "running" \/ at[r] = "runner",
           r \in ToRecover => at'[r] = "none", Placed(r)'
    PROVE  OrderInv'
<1>1. /\ keys' = keys /\ queues' = queues /\ recovering' = recovering
      /\ ordinal' = ordinal /\ sequence' = sequence /\ born' = born /\ restarts' = restarts
  BY DEF order, stamps
<1>2. Indexed /\ KeyNamed /\ Ordinals /\ FifoInOrder /\ RunningFirst /\ RecoveryInOrder
  BY DEF OrderInv
<1>3. Indexed' /\ KeyNamed' /\ FifoInOrder' /\ RecoveryInOrder'
  BY <1>1, <1>2 DEF Indexed, KeyNamed, FifoInOrder, RecoveryInOrder, SameTurnOrder, ToRecover
<1>4. Ordinals'
  BY <1>1, <1>2 DEF Ordinals
<1>5. ASSUME NEW q \in Requests PROVE Placed(q)' /\ Registered(q)'
  <2>1. Placed(q) /\ Registered(q)
    BY DEF OrderInv
  <2>2. CASE q = r
    BY <1>1, <2>1, <2>2 DEF Registered, ToRecover
  <2>3. CASE q # r
    <3>1. rec'[q] = rec[q] /\ at'[q] = at[q] /\ cancelling'[q] = cancelling[q]
      BY <2>3
    <3> QED BY <1>1, <2>1, <3>1 DEF Placed, Registered, Unfinished, IsHead, ToRecover
  <2> QED BY <2>2, <2>3
<1>6. ASSUME NEW q \in Requests, NEW x \in Requests, SameTurnOrder(q, x)', rec'[x] = "running", Unfinished(q)'
      PROVE  ordinal'[x] < ordinal'[q]
  <2>1. SameTurnOrder(q, x) /\ Unfinished(q)
    BY <1>1, <1>6 DEF SameTurnOrder, Unfinished
  <2>2. CASE rec[x] = "running"
    BY <1>1, <1>2, <2>1, <2>2 DEF RunningFirst
  <2>3. CASE rec[x] # "running"
    <3>1. x = r /\ at[r] = "runner"
      BY <1>6, <2>3
    <3>2. Unfinished(r)
      BY <1>6, <3>1 DEF Unfinished
    <3>3. IsHead(r)
      BY <3>1, <3>2 DEF OrderInv, Placed
    <3> QED BY <1>1, <2>1, <3>1, <3>3, HeadFirst
  <2> QED BY <2>2, <2>3
<1>7. RunningFirst'
  BY <1>6 DEF RunningFirst
<1> QED BY <1>3, <1>4, <1>5, <1>7 DEF OrderInv

\* A request that has ended leaves the fence.
LEMMA ForgetKeeps ==
    ASSUME OrderInv, OrderTypeOK', NEW r \in Requests, Forget(r), rec[r] = "ended",
           UNCHANGED <<rec, recovering, stamps>>,
           \A q \in Requests \ {r} : at'[q] = at[q] /\ cancelling'[q] = cancelling[q],
           at'[r] # "admitted", r \in ToRecover => at'[r] = "none"
    PROVE  OrderInv'
<1>1. /\ rec' = rec /\ recovering' = recovering
      /\ ordinal' = ordinal /\ sequence' = sequence /\ born' = born /\ restarts' = restarts
  BY DEF stamps
<1>2. OrderTypeOK /\ Indexed /\ KeyNamed /\ Ordinals /\ FifoInOrder /\ RunningFirst /\ RecoveryInOrder
  BY DEF OrderInv
<1>3. /\ keys'[r] = NoKey /\ \A q \in Requests \ {r} : keys'[q] = keys[q]
      /\ \A l \in Keys : \A i, j \in DOMAIN queues'[l] : i < j =>
             \E a, b \in DOMAIN queues[l] :
                a < b /\ queues[l][a] = queues'[l][i] /\ queues[l][b] = queues'[l][j]
      /\ \A q \in Requests \ {r} : IsHead(q) => IsHead(q)'
      /\ Indexed'
  BY <1>2, ForgetIs
<1>4. KeyNamed'
  BY <1>1, <1>2, <1>3 DEF KeyNamed
<1>5. Ordinals' /\ RunningFirst'
  BY <1>1, <1>2 DEF Ordinals, RunningFirst, SameTurnOrder, Unfinished
<1>6. RecoveryInOrder'
  BY <1>1, <1>2, <1>3 DEF RecoveryInOrder, SameTurnOrder, ToRecover
<1>7. FifoInOrder'
  <2> SUFFICES ASSUME NEW l \in Keys, NEW i \in DOMAIN queues'[l], NEW j \in DOMAIN queues'[l],
                      i < j, born[queues'[l][i]] = born[queues'[l][j]]
               PROVE  ordinal[queues'[l][i]] < ordinal[queues'[l][j]]
    BY <1>1 DEF FifoInOrder
  <2>1. PICK a, b \in DOMAIN queues[l] :
             a < b /\ queues[l][a] = queues'[l][i] /\ queues[l][b] = queues'[l][j]
    BY <1>3
  <2> QED BY <1>2, <2>1 DEF FifoInOrder
<1>8. ASSUME NEW q \in Requests PROVE Placed(q)' /\ Registered(q)'
  <2>1. Placed(q) /\ Registered(q)
    BY DEF OrderInv
  <2>2. CASE q = r
    BY <1>1, <1>3, <2>1, <2>2 DEF Placed, Registered, Unfinished, ToRecover
  <2>3. CASE q # r
    <3>1. keys'[q] = keys[q] /\ at'[q] = at[q] /\ cancelling'[q] = cancelling[q] /\ (IsHead(q) => IsHead(q)')
      BY <1>3, <2>3
    <3> QED BY <1>1, <2>1, <3>1 DEF Placed, Registered, Unfinished, ToRecover
  <2> QED BY <2>2, <2>3
<1> QED BY <1>3, <1>4, <1>5, <1>6, <1>7, <1>8 DEF OrderInv

\* A request that is put behind those of its generation that came before it.
LEMMA RegisterKeepsFifo ==
    ASSUME OrderTypeOK, Indexed, FifoInOrder, NEW r \in Requests, NEW k \in Keys, keys[r] = NoKey, Register(r, k),
           \A q \in Requests \ {r} : ordinal'[q] = ordinal[q] /\ born'[q] = born[q],
           \A q \in Requests \ {r} : keys[q] = k /\ born[q] = born'[r] => ordinal[q] < ordinal'[r]
    PROVE  FifoInOrder' /\ \A q \in Requests \ {r} : IsHead(q) => IsHead(q)'
<1>1. /\ queues' \in [Keys -> Seq(Requests)]
      /\ \A q \in Requests \ {r} : keys'[q] = keys[q]
      /\ \A l \in Keys \ {k} : queues'[l] = queues[l]
      /\ Len(queues'[k]) = Len(queues[k]) + 1 /\ queues'[k][Len(queues[k]) + 1] = r
      /\ \A i \in DOMAIN queues[k] : i \in DOMAIN queues'[k] /\ queues'[k][i] = queues[k][i]
      /\ \A i \in DOMAIN queues'[k] : i \in DOMAIN queues[k] \/ i = Len(queues[k]) + 1
  BY RegisterIs
<1>2. \A l \in Keys : queues[l] \in Seq(Requests)
  BY DEF OrderTypeOK
<1>3. \A l \in Keys : \A i \in DOMAIN queues[l] : queues[l][i] \in Requests \ {r} /\ keys[queues[l][i]] = l
  BY <1>2, NoKeyIsNone DEF Indexed
<1>4. ASSUME NEW l \in Keys, NEW i \in DOMAIN queues'[l], NEW j \in DOMAIN queues'[l],
             i < j, born'[queues'[l][i]] = born'[queues'[l][j]]
      PROVE  ordinal'[queues'[l][i]] < ordinal'[queues'[l][j]]
  <2>1. CASE i \in DOMAIN queues[l] /\ j \in DOMAIN queues[l]
    <3>1. queues'[l][i] = queues[l][i] /\ queues'[l][j] = queues[l][j]
      BY <1>1, <2>1
    <3>2. queues[l][i] \in Requests \ {r} /\ queues[l][j] \in Requests \ {r}
      BY <1>3, <2>1
    <3> QED BY <1>4, <2>1, <3>1, <3>2 DEF FifoInOrder
  <2>2. CASE ~(i \in DOMAIN queues[l] /\ j \in DOMAIN queues[l])
    <3>1. l = k
      BY <1>1, <2>2
    <3>2. i \in Nat /\ j \in Nat /\ Len(queues[k]) \in Nat /\ DOMAIN queues[k] = 1 .. Len(queues[k])
          /\ DOMAIN queues'[k] = 1 .. Len(queues[k]) + 1
      BY <1>1, <1>2, <3>1
    <3>3. i \in DOMAIN queues[k] /\ j = Len(queues[k]) + 1
      BY <1>4, <2>2, <3>1, <3>2
    <3>4. queues'[k][i] = queues[k][i] /\ queues'[k][j] = r
      BY <1>1, <3>3
    <3>5. queues[k][i] \in Requests \ {r} /\ keys[queues[k][i]] = k
      BY <1>3, <3>3
    <3> QED BY <1>4, <3>1, <3>4, <3>5
  <2> QED BY <2>1, <2>2
<1>5. ASSUME NEW q \in Requests \ {r}, IsHead(q) PROVE IsHead(q)'
  <2>1. keys'[q] = keys[q] /\ keys[q] # NoKey /\ keys[q] \in Keys /\ Head(queues[keys[q]]) = q
    BY <1>1, <1>5 DEF IsHead, OrderTypeOK
  <2>2. CASE keys[q] # k
    BY <1>1, <2>1, <2>2 DEF IsHead
  <2>3. CASE keys[q] = k
    <3>1. PICK i \in DOMAIN queues[k] : queues[k][i] = q
      BY <2>1, <2>3 DEF Indexed
    <3>2. 1 \in DOMAIN queues[k] /\ queues[k][1] = q
      BY <1>2, <2>1, <2>3, <3>1
    <3>3. queues'[k] \in Seq(Requests) /\ 1 \in DOMAIN queues'[k] /\ queues'[k][1] = q
      BY <1>1, <3>2
    <3>4. Head(queues'[k]) = q
      BY <3>3
    <3> QED BY <2>1, <2>3, <3>4 DEF IsHead
  <2> QED BY <2>2, <2>3
<1> QED BY <1>4, <1>5 DEF FifoInOrder

LEMMA AdmitKeeps ==
    ASSUME OrderInv, NEW r \in Requests, Admit(r)
    PROVE  OrderInv'
<1>1. OrderTypeOK /\ Indexed /\ KeyNamed /\ Ordinals /\ FifoInOrder /\ RunningFirst /\ RecoveryInOrder
  BY DEF OrderInv
<1>2. /\ rec[r] = "absent" /\ ToRecover = {} /\ keys[r] = NoKey
      /\ Register(r, ByPath(r)) /\ ByPath(r) \in Keys
      /\ rec' = [rec EXCEPT ![r] = "queued"] /\ at' = [at EXCEPT ![r] = "admitted"]
      /\ sequence' = sequence + 1 /\ ordinal' = [ordinal EXCEPT ![r] = sequence + 1]
      /\ born' = [born EXCEPT ![r] = restarts]
      /\ cancelling' = cancelling /\ defers' = defers /\ recovering' = recovering /\ restarts' = restarts
  BY KeyTypes DEF Admit, SetRecord, Goto, OrderInv, Placed
<1>3. /\ keys' \in [Requests -> Keys \cup {NoKey}] /\ queues' \in [Keys -> Seq(Requests)]
      /\ keys'[r] = ByPath(r) /\ \A q \in Requests \ {r} : keys'[q] = keys[q]
      /\ Indexed'
  BY <1>1, <1>2, RegisterIs
<1>4. /\ rec'[r] = "queued" /\ at'[r] = "admitted" /\ ordinal'[r] = sequence + 1 /\ born'[r] = restarts
      /\ \A q \in Requests \ {r} : rec'[q] = rec[q] /\ at'[q] = at[q] /\ ordinal'[q] = ordinal[q] /\ born'[q] = born[q]
  BY <1>1, <1>2 DEF OrderTypeOK
<1>5. sequence \in Nat /\ \A q \in Requests : ordinal[q] \in Nat /\ ordinal[q] < sequence + 1
  BY <1>1 DEF OrderTypeOK
<1>6. OrderTypeOK'
  <2>1. ordinal' \in [Requests -> 0 .. sequence'] /\ sequence' \in Nat
    BY <1>1, <1>2, <1>5 DEF OrderTypeOK
  <2>2. rec' \in [Requests -> {"absent", "queued", "running", "ended"}] /\ at' \in [Requests -> Places]
    BY <1>1, <1>2 DEF OrderTypeOK, Places
  <2>3. born' \in [Requests -> 0 .. restarts]
    BY <1>1, <1>2 DEF OrderTypeOK
  <2> QED BY <1>1, <1>2, <1>3, <2>1, <2>2, <2>3 DEF OrderTypeOK
<1>7. FifoInOrder' /\ \A q \in Requests \ {r} : IsHead(q) => IsHead(q)'
  BY <1>1, <1>2, <1>4, <1>5, RegisterKeepsFifo
<1>8. KeyNamed'
  <2> SUFFICES ASSUME NEW q \in Requests, keys'[q] # NoKey
               PROVE  keys'[q] = IF born'[q] = restarts THEN ByPath(q) ELSE ById(q)
    BY <1>2 DEF KeyNamed, ByPath, ById
  <2>1. CASE q = r
    BY <1>3, <1>4, <2>1
  <2>2. CASE q # r
    BY <1>1, <1>3, <1>4, <2>2 DEF KeyNamed
  <2> QED BY <2>1, <2>2
<1>9. Ordinals'
  BY <1>1, <1>4, <1>5 DEF Ordinals
<1>10. RunningFirst'
  BY <1>1, <1>4, <1>5 DEF RunningFirst, SameTurnOrder, Unfinished
<1>11. RecoveryInOrder'
  BY <1>2 DEF RecoveryInOrder, ToRecover
<1>12. ASSUME NEW q \in Requests PROVE Placed(q)' /\ Registered(q)'
  <2>1. Placed(q) /\ Registered(q)
    BY DEF OrderInv
  <2>2. CASE q = r
    BY <1>2, <1>3, <1>4, <2>1, <2>2, NoKeyIsNone DEF Placed, Registered, Unfinished, ToRecover
  <2>3. CASE q # r
    BY <1>2, <1>3, <1>4, <1>7, <2>1, <2>3 DEF Placed, Registered, Unfinished, ToRecover
  <2> QED BY <2>2, <2>3
<1> QED BY <1>3, <1>6, <1>7, <1>8, <1>9, <1>10, <1>11, <1>12 DEF OrderInv

LEMMA RecoverKeeps ==
    ASSUME OrderInv, NEW r \in Requests, Recover(r)
    PROVE  OrderInv'
<1>1. OrderTypeOK /\ Indexed /\ KeyNamed /\ Ordinals /\ FifoInOrder /\ RunningFirst /\ RecoveryInOrder
  BY DEF OrderInv
<1>2. PICK place \in {"stop", "timer", "pending"} : Goto(r, place)
  BY DEF Recover
<1>3. /\ r \in ToRecover /\ keys[r] = NoKey /\ born[r] < restarts
      /\ \A q \in ToRecover \ {r} : TakenBefore(r, q)
      /\ Register(r, ById(r)) /\ ById(r) \in Keys
      /\ recovering' = [running |-> recovering.running \ {r}, queued |-> recovering.queued \ {r}]
      /\ rec' = rec /\ cancelling' = cancelling /\ defers' = defers
      /\ ordinal' = ordinal /\ sequence' = sequence /\ born' = born /\ restarts' = restarts
  BY KeyTypes DEF Recover, OrderInv, Registered, stamps
<1>4. /\ keys' \in [Requests -> Keys \cup {NoKey}] /\ queues' \in [Keys -> Seq(Requests)]
      /\ keys'[r] = ById(r) /\ \A q \in Requests \ {r} : keys'[q] = keys[q]
      /\ Indexed'
  BY <1>1, <1>3, RegisterIs
<1>5. at' \in [Requests -> Places] /\ at'[r] = place /\ \A q \in Requests \ {r} : at'[q] = at[q]
  BY <1>1, <1>2 DEF OrderTypeOK, Goto, Places
<1>6. recovering'.running = recovering.running \ {r} /\ recovering'.queued = recovering.queued \ {r}
  BY <1>3
<1>7. OrderTypeOK'
  <2>1. recovering' \in [running : SUBSET Requests, queued : SUBSET Requests]
    BY <1>1, <1>3 DEF OrderTypeOK
  <2> QED BY <1>1, <1>3, <1>4, <1>5, <2>1 DEF OrderTypeOK
<1>8. FifoInOrder' /\ \A q \in Requests \ {r} : IsHead(q) => IsHead(q)'
  <2>1. ASSUME NEW q \in Requests \ {r}, keys[q] = ById(r), born[q] = born[r] PROVE ordinal[q] < ordinal[r]
    <3>1. keys[q] # NoKey
      BY <1>3, <2>1, NoKeyIsNone
    <3>2. SessionOf[q] = SessionOf[r]
      <4>1. keys[q] = ByPath(q) \/ keys[q] = ById(q)
        BY <1>1, <3>1 DEF KeyNamed
      <4> QED BY <2>1, <4>1, KeysApart
    <3> QED BY <1>1, <1>3, <2>1, <3>1, <3>2 DEF RecoveryInOrder, SameTurnOrder
  <2> QED BY <1>1, <1>3, <2>1, RegisterKeepsFifo
<1>9. KeyNamed'
  <2>1. born[r] # restarts
    BY <1>1, <1>3 DEF OrderTypeOK
  <2> QED BY <1>1, <1>3, <1>4, <2>1 DEF KeyNamed, ByPath, ById
<1>10. Ordinals' /\ RunningFirst'
  BY <1>1, <1>3 DEF Ordinals, RunningFirst, SameTurnOrder, Unfinished
<1>11. RecoveryInOrder'
  <2> SUFFICES ASSUME NEW q \in Requests, NEW x \in Requests, SameTurnOrder(q, x)
               PROVE  /\ x \in recovering'.running /\ q \in recovering'.queued => ordinal[x] < ordinal[q]
                      /\ keys'[x] # NoKey /\ q \in ToRecover' => ordinal[x] < ordinal[q]
    BY <1>3 DEF RecoveryInOrder, SameTurnOrder
  <2>1. x \in recovering'.running /\ q \in recovering'.queued => ordinal[x] < ordinal[q]
    BY <1>1, <1>6 DEF RecoveryInOrder
  <2>2. ASSUME keys'[x] # NoKey, q \in ToRecover' PROVE ordinal[x] < ordinal[q]
    <3>1. q \in ToRecover \ {r}
      BY <1>6, <2>2 DEF ToRecover
    <3>2. CASE x = r
      <4>1. TakenBefore(r, q)
        BY <1>3, <3>1
      <4> QED BY <1>1, <3>2, <4>1 DEF TakenBefore, RecoveryInOrder
    <3>3. CASE x # r
      <4>1. keys[x] # NoKey
        BY <1>4, <2>2, <3>3
      <4> QED BY <1>1, <3>1, <4>1 DEF RecoveryInOrder
    <3> QED BY <3>2, <3>3
  <2> QED BY <2>1, <2>2
<1>12. ASSUME NEW q \in Requests PROVE Placed(q)' /\ Registered(q)'
  <2>1. Placed(q) /\ Registered(q)
    BY DEF OrderInv
  <2>2. CASE q = r
    <3>1. keys'[r] # NoKey /\ r \notin recovering'.running /\ r \notin recovering'.queued
      BY <1>3, <1>4, <1>6, NoKeyIsNone
    <3>2. Registered(q)'
      BY <2>2, <3>1 DEF Registered, ToRecover
    <3>3. rec[r] # "absent" /\ at'[r] # "unwind" /\ at'[r] # "admitted" /\ at'[r] # "runner"
      BY <1>3, <1>5, <2>1, <2>2 DEF Placed
    <3> QED BY <1>3, <2>1, <2>2, <3>2, <3>3 DEF Placed
  <2>3. CASE q # r
    <3>1. keys'[q] = keys[q] /\ at'[q] = at[q] /\ (IsHead(q) => IsHead(q)') /\ (q \in ToRecover' <=> q \in ToRecover)
          /\ (q \in recovering'.running <=> q \in recovering.running) /\ (q \in recovering'.queued <=> q \in recovering.queued)
      BY <1>4, <1>5, <1>6, <1>8, <2>3 DEF ToRecover
    <3> QED BY <1>3, <2>1, <3>1 DEF Placed, Registered, Unfinished
  <2> QED BY <2>2, <2>3
<1> QED BY <1>4, <1>7, <1>8, <1>9, <1>10, <1>11, <1>12 DEF OrderInv

LEMMA RestartKeeps ==
    ASSUME OrderInv, Restart
    PROVE  OrderInv'
<1>1. OrderTypeOK /\ Ordinals /\ RunningFirst
  BY DEF OrderInv
<1>2. /\ restarts < MaxRestarts /\ restarts' = restarts + 1
      /\ keys' = [r \in Requests |-> NoKey] /\ queues' = [k \in Keys |-> <<>>]
      /\ at' = [r \in Requests |-> "none"] /\ cancelling' = [r \in Requests |-> FALSE]
      /\ recovering'.running = {r \in Requests : rec[r] = "running"}
      /\ recovering'.queued = {r \in Requests : rec[r] = "queued"}
      /\ rec' = rec /\ defers' = defers /\ ordinal' = ordinal /\ sequence' = sequence /\ born' = born
  BY DEF Restart
<1>3. OrderTypeOK'
  <2>1. keys' \in [Requests -> Keys \cup {NoKey}] /\ queues' \in [Keys -> Seq(Requests)]
    BY <1>2
  <2>2. at' \in [Requests -> Places] /\ cancelling' \in [Requests -> BOOLEAN]
    BY <1>2 DEF Places
  <2>3. recovering' \in [running : SUBSET Requests, queued : SUBSET Requests]
    BY DEF Restart
  <2>4. restarts' \in 0 .. MaxRestarts /\ born' \in [Requests -> 0 .. restarts']
    BY <1>1, <1>2, OrderAssumption DEF OrderTypeOK
  <2> QED BY <1>1, <1>2, <2>1, <2>2, <2>3, <2>4 DEF OrderTypeOK
<1>4. Indexed' /\ FifoInOrder'
  BY <1>2 DEF Indexed, FifoInOrder
<1>5. KeyNamed'
  BY <1>2 DEF KeyNamed
<1>6. Ordinals' /\ RunningFirst'
  BY <1>1, <1>2 DEF Ordinals, RunningFirst, SameTurnOrder, Unfinished
<1>7. RecoveryInOrder'
  <2> SUFFICES ASSUME NEW q \in Requests, NEW r \in Requests, SameTurnOrder(q, r),
                      r \in recovering'.running, q \in recovering'.queued
               PROVE  ordinal[r] < ordinal[q]
    BY <1>2 DEF RecoveryInOrder, SameTurnOrder
  <2>1. rec[r] = "running" /\ Unfinished(q)
    BY <1>2 DEF Unfinished
  <2> QED BY <1>1, <2>1 DEF RunningFirst
<1>8. ASSUME NEW r \in Requests PROVE Placed(r)' /\ Registered(r)'
  <2>1. keys'[r] = NoKey /\ at'[r] = "none" /\ cancelling'[r] = FALSE /\ rec'[r] = rec[r]
    BY <1>2
  <2>2. born'[r] < restarts'
    BY <1>1, <1>2 DEF OrderInv, OrderTypeOK
  <2>3. Registered(r)'
    BY <1>2, <2>1, <2>2 DEF Registered, ToRecover, Unfinished
  <2> QED BY <1>2, <2>1, <2>3 DEF Placed, ToRecover
<1> QED BY <1>3, <1>4, <1>5, <1>6, <1>7, <1>8 DEF OrderInv

-----------------------------------------------------------------------------
\* The steps of the thread that carries a request.
LEMMA WorkerKeeps ==
    ASSUME OrderInv, NEW r \in Requests, WorkerStep(r)
    PROVE  OrderInv'
<1>1. OrderTypeOK /\ Indexed /\ Placed(r) /\ Registered(r)
  BY DEF OrderInv
<1>2. /\ rec \in [Requests -> {"absent", "queued", "running", "ended"}]
      /\ at \in [Requests -> Places] /\ cancelling \in [Requests -> BOOLEAN]
      /\ defers \in [Requests -> 0 .. MaxDefers]
  BY <1>1 DEF OrderTypeOK
<1>3. CASE Enqueue(r)
  <2>1. /\ at[r] = "admitted" /\ keys[r] # NoKey /\ rec[r] # "absent" /\ r \notin ToRecover
        /\ UNCHANGED order /\ rec' = rec /\ cancelling' = cancelling /\ defers' = defers /\ recovering' = recovering
        /\ UNCHANGED stamps /\ at' = [at EXCEPT ![r] = "pending"]
    BY <1>1, <1>3 DEF Enqueue, Register, Goto, Placed, Registered
  <2>2. at' \in [Requests -> Places] /\ at'[r] = "pending" /\ \A q \in Requests \ {r} : at'[q] = at[q]
    BY <1>2, <2>1 DEF Places
  <2>3. OrderTypeOK'
    BY <1>1, <2>1, <2>2 DEF OrderTypeOK, order, stamps
  <2>4. Placed(r)'
    BY <1>1, <2>1, <2>2 DEF Placed, order
  <2> QED BY <2>1, <2>2, <2>3, <2>4, RecordStepKeeps DEF Unfinished
<1>4. CASE EnqueueReject(r)
  <2>1. /\ at[r] = "admitted" /\ rec[r] # "absent" /\ r \notin ToRecover
        /\ UNCHANGED order /\ cancelling' = cancelling /\ defers' = defers /\ recovering' = recovering
        /\ UNCHANGED stamps /\ at' = [at EXCEPT ![r] = "rejected"] /\ rec' = [rec EXCEPT ![r] = "ended"]
    BY <1>1, <1>4 DEF EnqueueReject, SetRecord, Goto, Placed, Registered
  <2>2. at' \in [Requests -> Places] /\ at'[r] = "rejected" /\ \A q \in Requests \ {r} : at'[q] = at[q]
    BY <1>2, <2>1 DEF Places
  <2>3. /\ rec' \in [Requests -> {"absent", "queued", "running", "ended"}]
        /\ rec'[r] = "ended" /\ \A q \in Requests \ {r} : rec'[q] = rec[q]
    BY <1>2, <2>1
  <2>4. OrderTypeOK'
    BY <1>1, <2>1, <2>2, <2>3 DEF OrderTypeOK, order, stamps
  <2>5. Placed(r)'
    BY <1>1, <2>1, <2>2, <2>3 DEF Placed
  <2> QED BY <2>1, <2>2, <2>3, <2>4, <2>5, RecordStepKeeps DEF Unfinished
<1>5. ASSUME NEW place \in {"stop", "head", "runner", "unwind", "timer"}, Goto(r, place),
             at[r] \in {"pending", "stop", "head", "timer"}, UNCHANGED <<rec, order, cancelling, defers, recovering, stamps>>,
             place = "unwind" => ~Unfinished(r), place = "runner" /\ Unfinished(r) => IsHead(r)
      PROVE  OrderInv'
  <2>1. /\ rec[r] # "absent" /\ r \notin ToRecover
        /\ UNCHANGED order /\ rec' = rec /\ cancelling' = cancelling /\ defers' = defers /\ recovering' = recovering
        /\ UNCHANGED stamps /\ at' = [at EXCEPT ![r] = place]
    BY <1>1, <1>5 DEF Goto, Placed, Registered
  <2>2. at' \in [Requests -> Places] /\ at'[r] = place /\ \A q \in Requests \ {r} : at'[q] = at[q]
    BY <1>2, <2>1 DEF Places
  <2>3. OrderTypeOK'
    BY <1>1, <2>1, <2>2 DEF OrderTypeOK, order, stamps
  <2>4. place = "unwind" => rec[r] = "ended"
    BY <1>2, <1>5, <2>1 DEF Unfinished
  <2>5. Placed(r)'
    BY <1>1, <1>5, <2>1, <2>2, <2>4 DEF Placed, Unfinished, IsHead, order
  <2> QED BY <2>1, <2>2, <2>3, <2>5, RecordStepKeeps DEF Unfinished
<1>6. CASE Dispatch(r)
  BY <1>5, <1>6 DEF Dispatch
<1>7. CASE WaitStopped(r)
  BY <1>5, <1>7 DEF WaitStopped
<1>8. CASE WaitHead(r)
  <2>1. rec[r] # "absent" /\ r \notin ToRecover
    BY <1>1, <1>8 DEF WaitHead, Placed, Registered
  <2>2. keys[r] = NoKey => ~Unfinished(r)
    BY <1>1, <2>1 DEF Registered
  <2> QED BY <1>5, <1>8, <2>2 DEF WaitHead
<1>9. CASE StartTurn(r)
  <2>1. /\ at[r] = "runner" /\ rec[r] = "queued" /\ r \notin ToRecover
        /\ UNCHANGED order /\ at' = at /\ cancelling' = cancelling /\ defers' = defers /\ recovering' = recovering
        /\ UNCHANGED stamps /\ rec' = [rec EXCEPT ![r] = "running"]
    BY <1>1, <1>9 DEF StartTurn, SetRecord, Registered
  <2>2. /\ rec' \in [Requests -> {"absent", "queued", "running", "ended"}]
        /\ rec'[r] = "running" /\ \A q \in Requests \ {r} : rec'[q] = rec[q]
    BY <1>2, <2>1
  <2>3. OrderTypeOK'
    BY <1>1, <2>1, <2>2 DEF OrderTypeOK, order, stamps
  <2>4. Placed(r)'
    BY <1>1, <2>1, <2>2 DEF Placed, Unfinished, IsHead, order
  <2> QED BY <2>1, <2>2, <2>3, <2>4, RecordStepKeeps DEF Unfinished
<1>10. CASE RunnerReturns(r)
  <2>1. /\ at[r] = "runner" /\ rec[r] # "absent" /\ r \notin ToRecover
        /\ UNCHANGED order /\ cancelling' = cancelling /\ defers' = defers /\ recovering' = recovering
        /\ UNCHANGED stamps /\ at' = [at EXCEPT ![r] = "unwind"] /\ rec' = [rec EXCEPT ![r] = "ended"]
    BY <1>1, <1>10 DEF RunnerReturns, SetRecord, Goto, Placed, Registered
  <2>2. at' \in [Requests -> Places] /\ at'[r] = "unwind" /\ \A q \in Requests \ {r} : at'[q] = at[q]
    BY <1>2, <2>1 DEF Places
  <2>3. /\ rec' \in [Requests -> {"absent", "queued", "running", "ended"}]
        /\ rec'[r] = "ended" /\ \A q \in Requests \ {r} : rec'[q] = rec[q]
    BY <1>2, <2>1
  <2>4. OrderTypeOK'
    BY <1>1, <2>1, <2>2, <2>3 DEF OrderTypeOK, order, stamps
  <2>5. Placed(r)'
    BY <2>2, <2>3 DEF Placed
  <2> QED BY <2>1, <2>2, <2>3, <2>4, <2>5, RecordStepKeeps DEF Unfinished
<1>11. CASE RunnerDefers(r)
  <2>1. /\ at[r] = "runner" /\ Unfinished(r) /\ r \notin ToRecover /\ defers[r] < MaxDefers
        /\ UNCHANGED order /\ rec' = rec /\ cancelling' = cancelling /\ recovering' = recovering
        /\ UNCHANGED stamps /\ at' = [at EXCEPT ![r] = "timer"] /\ defers' = [defers EXCEPT ![r] = defers[r] + 1]
    BY <1>1, <1>11 DEF RunnerDefers, Goto, Registered
  <2>2. at' \in [Requests -> Places] /\ at'[r] = "timer" /\ \A q \in Requests \ {r} : at'[q] = at[q]
    BY <1>2, <2>1 DEF Places
  <2>3. defers' \in [Requests -> 0 .. MaxDefers]
    BY <1>2, <2>1, OrderAssumption
  <2>4. OrderTypeOK'
    BY <1>1, <2>1, <2>2, <2>3 DEF OrderTypeOK, order, stamps
  <2>5. Placed(r)'
    BY <1>1, <2>1, <2>2 DEF Placed, Unfinished
  <2> QED BY <2>1, <2>2, <2>4, <2>5, RecordStepKeeps DEF Unfinished
<1>12. CASE TimerFires(r)
  <2>1. /\ at[r] = "timer" /\ r \notin ToRecover /\ rec[r] # "absent" /\ rec[r] \in {"absent", "queued", "running", "ended"}
        /\ UNCHANGED <<rec, cancelling, defers, recovering, stamps>>
    BY <1>1, <1>2, <1>12 DEF TimerFires, Placed, Registered
  <2>2. CASE Unfinished(r)
    <3>1. Goto(r, "stop") /\ UNCHANGED order
      BY <1>12, <2>2 DEF TimerFires
    <3> QED BY <1>5, <2>1, <3>1
  <2>3. CASE ~Unfinished(r)
    <3>1. Forget(r) /\ at' = [at EXCEPT ![r] = "none"] /\ rec[r] = "ended"
      BY <1>12, <2>1, <2>3 DEF TimerFires, Goto, Unfinished
    <3>2. at' \in [Requests -> Places] /\ at'[r] = "none" /\ \A q \in Requests \ {r} : at'[q] = at[q]
      BY <1>2, <3>1 DEF Places
    <3>3. keys' \in [Requests -> Keys \cup {NoKey}] /\ queues' \in [Keys -> Seq(Requests)]
      BY <1>1, <3>1, ForgetIs
    <3>4. OrderTypeOK'
      BY <1>1, <2>1, <3>2, <3>3 DEF OrderTypeOK, stamps
    <3> QED BY <2>1, <3>1, <3>2, <3>4, ForgetKeeps
  <2> QED BY <2>2, <2>3
<1>13. CASE Unwind(r)
  <2>1. /\ at[r] = "unwind" /\ r \notin ToRecover /\ rec[r] = "ended"
        /\ UNCHANGED <<rec, cancelling, defers, recovering, stamps>>
        /\ Forget(r) /\ at' = [at EXCEPT ![r] = "none"]
    BY <1>1, <1>13 DEF Unwind, Placed, Registered, Goto
  <2>2. at' \in [Requests -> Places] /\ at'[r] = "none" /\ \A q \in Requests \ {r} : at'[q] = at[q]
    BY <1>2, <2>1 DEF Places
  <2>3. keys' \in [Requests -> Keys \cup {NoKey}] /\ queues' \in [Keys -> Seq(Requests)]
    BY <1>1, <2>1, ForgetIs
  <2>4. OrderTypeOK'
    BY <1>1, <2>1, <2>2, <2>3 DEF OrderTypeOK, stamps
  <2> QED BY <2>1, <2>2, <2>4, ForgetKeeps
<1> QED BY <1>3, <1>4, <1>6, <1>7, <1>8, <1>9, <1>10, <1>11, <1>12, <1>13 DEF WorkerStep

\* Cancellation, here and by another process.
LEMMA CancelKeeps ==
    ASSUME OrderInv, NEW r \in Requests, Cancel(r) \/ CancelCompletes(r) \/ CancelRemote(r)
    PROVE  OrderInv'
<1>1. OrderTypeOK /\ Indexed /\ Placed(r) /\ Registered(r)
  BY DEF OrderInv
<1>2. /\ rec \in [Requests -> {"absent", "queued", "running", "ended"}]
      /\ at \in [Requests -> Places] /\ cancelling \in [Requests -> BOOLEAN]
  BY <1>1 DEF OrderTypeOK
<1>3. CASE Cancel(r)
  <2>1. /\ rec[r] = "queued" /\ r \notin ToRecover
        /\ UNCHANGED order /\ defers' = defers /\ recovering' = recovering /\ UNCHANGED stamps
        /\ rec' = [rec EXCEPT ![r] = "ended"]
        /\ at' = [at EXCEPT ![r] = IF at[r] = "pending" THEN "none" ELSE at[r]]
        /\ cancelling' = [cancelling EXCEPT ![r] = at[r] \notin {"admitted", "timer"}]
    BY <1>3 DEF Cancel, SetRecord
  <2>2. /\ at' \in [Requests -> Places] /\ at'[r] \in {at[r], "none"} /\ \A q \in Requests \ {r} : at'[q] = at[q]
    BY <1>2, <2>1 DEF Places
  <2>3. /\ rec' \in [Requests -> {"absent", "queued", "running", "ended"}]
        /\ rec'[r] = "ended" /\ \A q \in Requests \ {r} : rec'[q] = rec[q]
    BY <1>2, <2>1
  <2>4. /\ cancelling' \in [Requests -> BOOLEAN] /\ cancelling'[r] = (at[r] \notin {"admitted", "timer"})
        /\ \A q \in Requests \ {r} : cancelling'[q] = cancelling[q]
    BY <1>2, <2>1
  <2>5. OrderTypeOK'
    BY <1>1, <2>1, <2>2, <2>3, <2>4 DEF OrderTypeOK, order, stamps
  <2>6. Placed(r)'
    BY <1>1, <2>1, <2>2, <2>3, <2>4 DEF Placed, Unfinished, order
  <2> QED BY <2>1, <2>2, <2>3, <2>4, <2>5, <2>6, RecordStepKeeps DEF Unfinished
<1>4. CASE CancelCompletes(r)
  <2>1. /\ cancelling[r] /\ rec[r] = "ended" /\ at[r] # "admitted" /\ (r \in ToRecover => at[r] = "none")
        /\ rec' = rec /\ at' = at /\ UNCHANGED <<defers, recovering, stamps>>
        /\ Forget(r) /\ cancelling' = [cancelling EXCEPT ![r] = FALSE]
    BY <1>1, <1>4 DEF CancelCompletes, Placed, Registered
  <2>2. cancelling' \in [Requests -> BOOLEAN] /\ \A q \in Requests \ {r} : cancelling'[q] = cancelling[q]
    BY <1>2, <2>1
  <2>3. keys' \in [Requests -> Keys \cup {NoKey}] /\ queues' \in [Keys -> Seq(Requests)]
    BY <1>1, <2>1, ForgetIs
  <2>4. OrderTypeOK'
    BY <1>1, <2>1, <2>2, <2>3 DEF OrderTypeOK, stamps
  <2> QED BY <2>1, <2>2, <2>4, ForgetKeeps
<1>5. CASE CancelRemote(r)
  <2>1. /\ rec[r] = "queued" /\ rec' = [rec EXCEPT ![r] = "ended"]
        /\ at' = at /\ cancelling' = cancelling /\ defers' = defers /\ recovering' = recovering
        /\ UNCHANGED order /\ UNCHANGED stamps
    BY <1>5 DEF CancelRemote, SetRecord
  <2>2. /\ rec' \in [Requests -> {"absent", "queued", "running", "ended"}]
        /\ rec'[r] = "ended" /\ \A q \in Requests \ {r} : rec'[q] = rec[q]
    BY <1>2, <2>1
  <2>3. OrderTypeOK'
    BY <1>1, <2>1, <2>2 DEF OrderTypeOK, order, stamps
  <2>4. Placed(r)' /\ (r \in ToRecover => at'[r] = "none")
    BY <1>1, <2>1, <2>2 DEF Placed, Registered, Unfinished, order
  <2> QED BY <2>1, <2>2, <2>3, <2>4, RecordStepKeeps DEF Unfinished
<1> QED BY <1>3, <1>4, <1>5

LEMMA OrderInvInitially == OrderInit => OrderInv
<1> SUFFICES ASSUME OrderInit PROVE OrderInv
  OBVIOUS
<1>1. /\ rec = [r \in Requests |-> "absent"] /\ keys = [r \in Requests |-> NoKey] /\ queues = [k \in Keys |-> <<>>]
      /\ at = [r \in Requests |-> "none"] /\ cancelling = [r \in Requests |-> FALSE] /\ defers = [r \in Requests |-> 0]
      /\ ordinal = [r \in Requests |-> 0] /\ sequence = 0 /\ born = [r \in Requests |-> 0] /\ restarts = 0
      /\ recovering = [running |-> {}, queued |-> {}] /\ ToRecover = {}
  BY DEF OrderInit, NoRecovery, ToRecover
<1>2. OrderTypeOK
  <2>1. keys \in [Requests -> Keys \cup {NoKey}] /\ queues \in [Keys -> Seq(Requests)]
    BY <1>1
  <2>2. at \in [Requests -> Places] /\ rec \in [Requests -> {"absent", "queued", "running", "ended"}]
    BY <1>1 DEF Places
  <2>3. recovering \in [running : SUBSET Requests, queued : SUBSET Requests] /\ cancelling \in [Requests -> BOOLEAN]
    BY <1>1
  <2>4. /\ defers \in [Requests -> 0 .. MaxDefers] /\ ordinal \in [Requests -> 0 .. sequence] /\ sequence \in Nat
        /\ born \in [Requests -> 0 .. restarts] /\ restarts \in 0 .. MaxRestarts
    BY <1>1, OrderAssumption
  <2> QED BY <2>1, <2>2, <2>3, <2>4 DEF OrderTypeOK
<1>3. Indexed /\ FifoInOrder
  BY <1>1 DEF Indexed, FifoInOrder
<1>4. KeyNamed /\ Ordinals /\ RunningFirst
  BY <1>1 DEF KeyNamed, Ordinals, RunningFirst
<1>5. RecoveryInOrder
  BY <1>1 DEF RecoveryInOrder
<1>6. \A r \in Requests : Placed(r) /\ Registered(r)
  BY <1>1 DEF Placed, Registered, Unfinished
<1> QED BY <1>2, <1>3, <1>4, <1>5, <1>6 DEF OrderInv

LEMMA OrderInvStep == OrderInv /\ [OrderNext]_orderVars => OrderInv'
<1> SUFFICES ASSUME OrderInv, [OrderNext]_orderVars PROVE OrderInv'
  OBVIOUS
<1>1. ASSUME NEW r \in Requests, Admit(r) \/ Recover(r) \/ WorkerStep(r) \/ Cancel(r) \/ CancelCompletes(r) \/ CancelRemote(r)
      PROVE  OrderInv'
  BY <1>1, AdmitKeeps, RecoverKeeps, WorkerKeeps, CancelKeeps
<1>2. CASE Restart
  BY <1>2, RestartKeeps
<1>3. CASE UNCHANGED orderVars
  <2>1. /\ rec' = rec /\ keys' = keys /\ queues' = queues /\ at' = at /\ cancelling' = cancelling /\ defers' = defers
        /\ ordinal' = ordinal /\ sequence' = sequence /\ recovering' = recovering /\ born' = born /\ restarts' = restarts
    BY <1>3 DEF orderVars
  <2>2. OrderTypeOK' /\ Indexed' /\ KeyNamed' /\ Ordinals' /\ FifoInOrder'
    BY <2>1 DEF OrderInv, OrderTypeOK, Indexed, KeyNamed, Ordinals, FifoInOrder
  <2>3. RunningFirst' /\ RecoveryInOrder'
    BY <2>1 DEF OrderInv, RunningFirst, RecoveryInOrder, SameTurnOrder, Unfinished, ToRecover
  <2>4. \A r \in Requests : Placed(r)' /\ Registered(r)'
    BY <2>1 DEF OrderInv, Placed, Registered, Unfinished, IsHead, ToRecover
  <2> QED BY <2>2, <2>3, <2>4 DEF OrderInv
<1> QED BY <1>1, <1>2, <1>3 DEF OrderNext

LEMMA OrderInvAlways == OrderSpec => []OrderInv
BY OrderInvInitially, OrderInvStep, PTL DEF OrderSpec

\* The state of the fence has its types: keys name a FIFO or none, the FIFOs
\* hold requests, ordinals are those enqueue-sequence.json has given out.
THEOREM OrderTypeCorrect == OrderSpec => []OrderTypeOK
<1>1. OrderInv => OrderTypeOK
  BY DEF OrderInv
<1> QED BY <1>1, OrderInvAlways, PTL

\* _keys and _queues of SessionDispatchOrder agree through every register,
\* complete and rebuild: a request has one place in the FIFO its key names and
\* none in any other.
THEOREM IndexAlwaysMatches == OrderSpec => []IndexMatchesQueues
<1>1. ASSUME OrderInv PROVE IndexMatchesQueues
  <2> SUFFICES ASSUME NEW r \in Requests, NEW k \in Keys
               PROVE  Cardinality({i \in DOMAIN queues[k] : queues[k][i] = r}) = IF keys[r] = k THEN 1 ELSE 0
    BY DEF IndexMatchesQueues
  <2>1. Indexed
    BY <1>1 DEF OrderInv
  <2>2. CASE keys[r] = k
    <3>1. PICK i \in DOMAIN queues[k] : queues[k][i] = r
      BY <2>1, <2>2, NoKeyIsNone DEF Indexed
    <3>2. {j \in DOMAIN queues[k] : queues[k][j] = r} = {i}
      BY <2>1, <3>1 DEF Indexed
    <3> QED BY <2>2, <3>2, FS_Singleton
  <2>3. CASE keys[r] # k
    <3>1. {j \in DOMAIN queues[k] : queues[k][j] = r} = {}
      BY <2>1, <2>3 DEF Indexed
    <3> QED BY <2>3, <3>1, FS_EmptySet
  <2> QED BY <2>2, <2>3
<1> QED BY <1>1, OrderInvAlways, PTL

\* A turn starts only after every request its own service generation admitted
\* before it to the same session has ended, whichever generation starts it and
\* wherever a restart or a cancellation fell.
THEOREM TurnsStartInOrder == OrderSpec => GenerationInOrder
<1>1. ASSUME OrderInv, [OrderNext]_orderVars, NEW r \in Requests, rec[r] = "queued", rec'[r] = "running",
             NEW q \in Requests, Earlier(q, r), born[q] = born[r], Unfinished(q)
      PROVE  FALSE
  <2>1. OrderTypeOK
    BY <1>1 DEF OrderInv
  <2>2. rec \in [Requests -> {"absent", "queued", "running", "ended"}]
    BY <2>1 DEF OrderTypeOK
  <2>3. rec' # rec
    BY <1>1
  <2>4. ASSUME NEW x \in Requests, SetRecord(x, "queued") \/ SetRecord(x, "ended") PROVE FALSE
    BY <1>1, <2>2, <2>4 DEF SetRecord
  <2>5. ~UNCHANGED orderVars /\ ~Restart
    BY <2>3 DEF orderVars, Restart
  <2>6. ASSUME NEW x \in Requests, Admit(x) \/ Recover(x) \/ Cancel(x) \/ CancelCompletes(x) \/ CancelRemote(x) PROVE FALSE
    BY <2>3, <2>4, <2>6 DEF Admit, Recover, Cancel, CancelCompletes, CancelRemote
  <2>7. PICK x \in Requests : WorkerStep(x)
    BY <1>1, <2>5, <2>6 DEF OrderNext
  <2>8. StartTurn(x)
    BY <2>3, <2>4, <2>7 DEF WorkerStep, Enqueue, EnqueueReject, Dispatch, WaitStopped, WaitHead,
                            RunnerReturns, RunnerDefers, TimerFires, Unwind
  <2>9. x = r /\ at[r] = "runner"
    BY <1>1, <2>2, <2>8 DEF StartTurn, SetRecord
  <2>10. IsHead(r)
    BY <1>1, <2>9 DEF OrderInv, Placed, Unfinished
  <2>11. ordinal[q] < ordinal[r] /\ ordinal[q] \in Nat /\ ordinal[r] \in Nat
    BY <1>1, <2>1 DEF Earlier, OrderTypeOK
  <2>12. SameTurnOrder(q, r)
    BY <1>1, <2>11 DEF SameTurnOrder, Earlier
  <2>13. ordinal[r] < ordinal[q]
    BY <1>1, <2>10, <2>12, HeadFirst
  <2> QED BY <2>11, <2>13
<1>2. OrderInv /\ [OrderNext]_orderVars =>
        [\A r \in Requests :
           (rec[r] = "queued" /\ rec'[r] = "running") =>
             \A q \in Requests : (Earlier(q, r) /\ born[q] = born[r]) => ~Unfinished(q)]_orderVars
  BY <1>1
<1> QED BY <1>2, OrderInvAlways, PTL DEF OrderSpec, GenerationInOrder
=============================================================================
