---------------------------- MODULE NetworkProofs ----------------------------
(***************************************************************************)
(* What the ROUTER's send loop does to the queues of the clients.          *)
(* AfterSendingAll is a recursive function: its value is known only once a *)
(* function that satisfies the recursion is shown to exist, and what holds *)
(* of that value is shown by induction over the messages sent.  Induction  *)
(* is taken over a set of numbers, and rests on < being well founded.      *)
(***************************************************************************)
EXTENDS Network, SequencesExt, SequenceTheorems, FiniteSetTheorems, TLAPS

\* A set with 0, and with m + 1 for every m in it, has every number.
LEMMA NatSetInduction ==
    ASSUME NEW S, 0 \in S, \A m \in Nat : m \in S => m + 1 \in S
    PROVE  Nat \subseteq S
<1> SUFFICES ASSUME Nat \ S # {}
             PROVE  FALSE
  OBVIOUS
<1> DEFINE R == OpToRel(<, Nat)
<1>1. IsWellFoundedOn(R, Nat)
  BY NatLessThanWellFounded
<1>2. \A m, k \in Nat : k < m => <<k, m>> \in R
  BY DEF OpToRel
<1> HIDE DEF R
<1>3. PICK m \in Nat \ S : \A k \in Nat \ S : <<k, m>> \notin R
  BY <1>1, WFMin
<1>4. m # 0 /\ m - 1 \in Nat /\ m - 1 < m /\ (m - 1) + 1 = m
  OBVIOUS
<1>5. m - 1 \in S
  BY <1>2, <1>3, <1>4
<1> QED
  BY <1>3, <1>4, <1>5

\* f[i] is the state of the queues after the first i of n messages.
IsSending(f, base, ids, bodies, n) ==
    f = [i \in 0 .. n |->
            IF i = 0 THEN base ELSE AfterSending(f[i - 1], ids[i], bodies[i])]

\* The send loop takes the queues through some sequence of states.
LEMMA SendingDefined ==
    ASSUME NEW base, NEW ids, NEW bodies, NEW n \in Nat
    PROVE  \E f : IsSending(f, base, ids, bodies, n)
<1> DEFINE Upto(f, m) == IsSending(f, base, ids, bodies, m)
           S == {m \in Nat : \E f : Upto(f, m)}
<1>1. 0 \in S
  <2>1. Upto([i \in 0 .. 0 |-> base], 0)
    BY DEF IsSending
  <2> QED
    BY <2>1
<1>2. ASSUME NEW m \in Nat, m \in S
      PROVE  m + 1 \in S
  <2>1. PICK f : Upto(f, m)
    BY <1>2
  <2> DEFINE g == [i \in 0 .. m + 1 |->
                     IF i = 0 THEN base ELSE AfterSending(f[i - 1], ids[i], bodies[i])]
  <2>2. \A i \in 0 .. m : g[i] = f[i]
    BY <2>1 DEF IsSending
  <2>3. \A i \in 0 .. m + 1 : i # 0 => i - 1 \in 0 .. m
    OBVIOUS
  <2>4. \A i \in 0 .. m + 1 : i # 0 => g[i - 1] = f[i - 1]
    BY <2>2, <2>3
  <2>5. \A i \in 0 .. m + 1 :
          g[i] = IF i = 0 THEN base ELSE AfterSending(g[i - 1], ids[i], bodies[i])
    BY <2>4
  <2>6. g = [i \in 0 .. m + 1 |-> g[i]]
    OBVIOUS
  <2> HIDE DEF g
  <2>7. Upto(g, m + 1)
    BY <2>5, <2>6 DEF IsSending
  <2> QED
    BY <2>7
<1> HIDE DEF S
<1>3. n \in S
  BY <1>1, <1>2, NatSetInduction
<1> QED
  BY <1>3 DEF S

\* What holds of the queues before the loop, and is taken by message i from the
\* states after i - 1 messages to those after i, holds after the loop.
LEMMA SendingInduction ==
    ASSUME NEW base, NEW ids, NEW bodies, Len(ids) \in Nat, NEW G,
           base \in G[0],
           \A i \in 1 .. Len(ids) : \A q \in G[i - 1] : AfterSending(q, ids[i], bodies[i]) \in G[i]
    PROVE  AfterSendingAll(base, ids, bodies) \in G[Len(ids)]
<1> DEFINE n == Len(ids)
           Is(f) == IsSending(f, base, ids, bodies, n)
           after == CHOOSE f : Is(f)
<1>1. Is(after)
  BY SendingDefined
<1>2. AfterSendingAll(base, ids, bodies) = after[n]
  BY Zenon DEF AfterSendingAll, IsSending
<1> HIDE DEF after
<1> DEFINE S == {m \in Nat : m <= n => after[m] \in G[m]}
<1>3. 0 \in S
  BY <1>1 DEF IsSending
<1>4. ASSUME NEW m \in Nat, m \in S
      PROVE  m + 1 \in S
  <2> SUFFICES ASSUME m + 1 <= n
               PROVE  after[m + 1] \in G[m + 1]
    OBVIOUS
  <2>1. after[m] \in G[m] /\ m + 1 \in 1 .. n /\ m + 1 # 0 /\ (m + 1) - 1 = m
    BY <1>4
  <2>2. after[m + 1] = AfterSending(after[m], ids[m + 1], bodies[m + 1])
    BY <1>1, <2>1 DEF IsSending
  <2> QED
    BY <2>1, <2>2
<1> HIDE DEF S
<1>5. n \in S
  BY <1>3, <1>4, NatSetInduction
<1> QED
  BY <1>2, <1>5 DEF S

\* An order of a finite set lists each of its elements once.
LEMMA Enumerated ==
    ASSUME NEW S, IsFiniteSet(S), NEW order \in SetToSeqs(S)
    PROVE  /\ Len(order) = Cardinality(S) /\ Len(order) \in Nat
           /\ order \in [1 .. Len(order) -> S]
           /\ \A i, j \in 1 .. Len(order) : i # j => order[i] # order[j]
           /\ \A s \in S : \E i \in 1 .. Len(order) : order[i] = s
<1> DEFINE n == Cardinality(S)
<1>1. n \in Nat
  BY FS_CardinalityType
<1>2. order \in [1 .. n -> S] /\ \A i, j \in 1 .. n : i # j => order[i] # order[j]
  BY DEF SetToSeqs
<1> HIDE DEF n
<1>3. Len(order) = n
  <2>1. order \in Seq(S)
    BY <1>1, <1>2
  <2> QED
    BY <1>1, <1>2, <2>1, LenProperties
<1>4. order \in Injection(1 .. n, S)
  BY <1>2 DEF Injection, IsInjective
<1>5. IsFiniteSet(1 .. n) /\ Cardinality(1 .. n) = n
  BY <1>1, FS_Interval
<1>6. order \in Surjection(1 .. n, S)
  BY <1>4, <1>5, FS_Injection DEF n
<1>7. \A s \in S : \E i \in 1 .. n : order[i] = s
  BY <1>6 DEF Surjection
<1> QED
  BY <1>1, <1>2, <1>3, <1>7 DEF n

-----------------------------------------------------------------------------
(* The queues of the clients, with frames in a set F.                      *)

Queues(F) == [Client -> Seq(F)]

\* Queues of whole messages, pairs of frames.
Paired(q) == \A c \in Client : \E k \in Nat : Len(q[c]) = 2 * k

\* A sequence with a message at its end.
LEMMA PairAppended ==
    ASSUME NEW F, NEW q \in Seq(F), NEW d \in F, NEW b \in F
    PROVE  /\ q \o <<d, b>> \in Seq(F)
           /\ Len(q) \in Nat /\ Len(q \o <<d, b>>) = Len(q) + 2
           /\ \A k \in 1 .. Len(q) : (q \o <<d, b>>)[k] = q[k]
           /\ (q \o <<d, b>>)[Len(q) + 1] = d /\ (q \o <<d, b>>)[Len(q) + 2] = b
<1>1. <<d, b>> \in Seq(F) /\ Len(<<d, b>>) = 2 /\ <<d, b>>[1] = d /\ <<d, b>>[2] = b
  OBVIOUS
<1> QED
  BY <1>1

\* One message sent: the queue of its receiver has it at the end, or nothing
\* happens because the receiver is away or its queue is full.
LEMMA SendOne ==
    ASSUME NEW F, Delimiter \in F, NEW q \in Queues(F), NEW c \in Client, NEW b \in F
    PROVE  LET r == AfterSending(q, c, b)
               room == c \in connected /\ Len(q[c]) + 2 <= 2 * Hwm
           IN  /\ r \in Queues(F)
               /\ \A d \in Client : d # c \/ ~room => r[d] = q[d]
               /\ room => /\ Len(q[c]) \in Nat /\ Len(r[c]) = Len(q[c]) + 2
                          /\ \A k \in 1 .. Len(q[c]) : r[c][k] = q[c][k]
                          /\ r[c][Len(q[c]) + 1] = Delimiter /\ r[c][Len(q[c]) + 2] = b
<1> DEFINE r == AfterSending(q, c, b)
           room == c \in connected /\ Len(q[c]) + 2 <= 2 * Hwm
           e == q[c] \o <<Delimiter, b>>
<1>1. q \in [Client -> Seq(F)]
  BY DEF Queues
<1>2. q[c] \in Seq(F)
  BY <1>1
<1>3. /\ e \in Seq(F)
      /\ Len(q[c]) \in Nat /\ Len(e) = Len(q[c]) + 2
      /\ \A k \in 1 .. Len(q[c]) : e[k] = q[c][k]
      /\ e[Len(q[c]) + 1] = Delimiter /\ e[Len(q[c]) + 2] = b
  BY <1>2, PairAppended
<1>4. r = IF room THEN [q EXCEPT ![c] = e] ELSE q
  BY DEF AfterSending
<1> HIDE DEF r, e, room
<1>5. CASE room
  <2>1. r = [q EXCEPT ![c] = e]
    BY <1>4, <1>5
  <2>2. r \in [Client -> Seq(F)] /\ r[c] = e /\ \A d \in Client : d # c => r[d] = q[d]
    BY <1>1, <1>3, <2>1
  <2>3. r \in Queues(F)
    BY <2>2 DEF Queues
  <2> QED
    BY <1>3, <1>5, <2>2, <2>3 DEF r, room
<1>6. CASE ~room
  BY <1>4, <1>6 DEF r, room
<1> QED
  BY <1>5, <1>6

\* The loop puts into a queue only what may be there: delimiters, and bodies
\* that its messages address to that client.
LEMMA SendLoop ==
    ASSUME NEW F, NEW May \in [Client -> SUBSET F], NEW q \in Queues(F),
           NEW ids, NEW bodies, Len(ids) \in Nat,
           \A i \in 1 .. Len(ids) : ids[i] \in Client /\ bodies[i] \in May[ids[i]],
           Delimiter \in F,
           \A c \in Client : Delimiter \in May[c],
           \A c \in Client : \A k \in 1 .. Len(q[c]) : q[c][k] \in May[c]
    PROVE  LET r == AfterSendingAll(q, ids, bodies)
           IN  r \in Queues(F) /\ \A c \in Client : \A k \in 1 .. Len(r[c]) : r[c][k] \in May[c]
<1> DEFINE Good == {r \in Queues(F) : \A c \in Client : \A k \in 1 .. Len(r[c]) : r[c][k] \in May[c]}
           G == [i \in 0 .. Len(ids) |-> Good]
<1>1. q \in G[0]
  OBVIOUS
<1>2. ASSUME NEW i \in 1 .. Len(ids), NEW r \in G[i - 1]
      PROVE  AfterSending(r, ids[i], bodies[i]) \in G[i]
  <2> DEFINE c == ids[i]
             b == bodies[i]
             t == AfterSending(r, c, b)
             room == c \in connected /\ Len(r[c]) + 2 <= 2 * Hwm
  <2>1. r \in Good /\ G[i] = Good
    <3> i \in 0 .. Len(ids) /\ i - 1 \in 0 .. Len(ids)
      OBVIOUS
    <3>1. G[i - 1] = Good /\ G[i] = Good
      OBVIOUS
    <3> QED
      BY <1>2, <3>1
  <2>2. c \in Client /\ b \in May[c] /\ b \in F
    OBVIOUS
  <2> HIDE DEF c, b, G
  <2>3. /\ t \in Queues(F)
        /\ \A d \in Client : d # c \/ ~room => t[d] = r[d]
        /\ room => /\ Len(r[c]) \in Nat /\ Len(t[c]) = Len(r[c]) + 2
                   /\ \A k \in 1 .. Len(r[c]) : t[c][k] = r[c][k]
                   /\ t[c][Len(r[c]) + 1] = Delimiter /\ t[c][Len(r[c]) + 2] = b
    BY <2>1, <2>2, SendOne
  <2> HIDE DEF t, room
  <2>4. ASSUME NEW d \in Client, NEW k \in 1 .. Len(t[d])
        PROVE  t[d][k] \in May[d]
    <3>1. CASE d # c \/ ~room
      BY <2>1, <2>3, <3>1
    <3>2. CASE d = c /\ room
      <4>1. k \in 1 .. Len(r[c]) \/ k = Len(r[c]) + 1 \/ k = Len(r[c]) + 2
        BY <2>3, <3>2
      <4>2. CASE k \in 1 .. Len(r[c])
        BY <2>1, <2>2, <2>3, <3>2, <4>2
      <4>3. CASE k = Len(r[c]) + 1
        BY <2>2, <2>3, <3>2, <4>3
      <4>4. CASE k = Len(r[c]) + 2
        BY <2>2, <2>3, <3>2, <4>4
      <4> QED
        BY <4>1, <4>2, <4>3, <4>4
    <3> QED
      BY <3>1, <3>2
  <2> QED
    BY <2>1, <2>3, <2>4 DEF t, c, b
<1> HIDE DEF G
<1>3. AfterSendingAll(q, ids, bodies) \in G[Len(ids)]
  BY <1>1, <1>2, SendingInduction
<1>4. G[Len(ids)] = Good
  BY DEF G
<1> QED
  BY <1>3, <1>4

\* Whole messages stay whole.
LEMMA SendLoopPaired ==
    ASSUME NEW F, NEW q \in Queues(F), Paired(q), NEW ids, NEW bodies, Len(ids) \in Nat,
           \A i \in 1 .. Len(ids) : ids[i] \in Client /\ bodies[i] \in F,
           Delimiter \in F
    PROVE  Paired(AfterSendingAll(q, ids, bodies))
<1> DEFINE Good == {r \in Queues(F) : Paired(r)}
           G == [i \in 0 .. Len(ids) |-> Good]
<1>1. q \in G[0]
  OBVIOUS
<1>2. ASSUME NEW i \in 1 .. Len(ids), NEW r \in G[i - 1]
      PROVE  AfterSending(r, ids[i], bodies[i]) \in G[i]
  <2> DEFINE c == ids[i]
             t == AfterSending(r, c, bodies[i])
             room == c \in connected /\ Len(r[c]) + 2 <= 2 * Hwm
  <2>1. r \in Good /\ G[i] = Good
    <3> i \in 0 .. Len(ids) /\ i - 1 \in 0 .. Len(ids)
      OBVIOUS
    <3>1. G[i - 1] = Good /\ G[i] = Good
      OBVIOUS
    <3> QED
      BY <1>2, <3>1
  <2>2. c \in Client /\ bodies[i] \in F
    OBVIOUS
  <2> HIDE DEF c, G
  <2>3. /\ t \in Queues(F)
        /\ \A d \in Client : d # c \/ ~room => t[d] = r[d]
        /\ room => Len(r[c]) \in Nat /\ Len(t[c]) = Len(r[c]) + 2
    BY <2>1, <2>2, SendOne
  <2> HIDE DEF t, room
  <2>4. ASSUME NEW d \in Client
        PROVE  \E k \in Nat : Len(t[d]) = 2 * k
    <3>1. PICK k \in Nat : Len(r[d]) = 2 * k
      BY <2>1 DEF Paired
    <3>2. k + 1 \in Nat /\ 2 * k + 2 = 2 * (k + 1)
      OBVIOUS
    <3>3. CASE d # c \/ ~room
      BY <2>3, <3>1, <3>3
    <3>4. CASE d = c /\ room
      BY <2>3, <3>1, <3>2, <3>4
    <3> QED
      BY <3>3, <3>4
  <2> QED
    BY <2>1, <2>3, <2>4 DEF Paired, t, c
<1> HIDE DEF G
<1>3. AfterSendingAll(q, ids, bodies) \in G[Len(ids)]
  BY <1>1, <1>2, SendingInduction
<1>4. G[Len(ids)] = Good
  BY DEF G
<1> QED
  BY <1>3, <1>4

\* The messages of the loop that are for client c.
Turns(ids, c) == {j \in 1 .. Len(ids) : ids[j] = c}

\* A client that is connected, and has room for all the messages that the loop
\* has for it, gets each of them, however many go to others in between.
LEMMA SendLoopDelivers ==
    ASSUME NEW F, NEW q \in Queues(F), NEW ids, NEW bodies, Len(ids) \in Nat, Delimiter \in F,
           \A i \in 1 .. Len(ids) : ids[i] \in Client /\ bodies[i] \in F,
           NEW c \in Client, c \in connected,
           Len(q[c]) + 2 * Cardinality(Turns(ids, c)) <= 2 * Hwm
    PROVE  \A j \in 1 .. Len(ids) : ids[j] = c =>
              \E k \in 1 .. Len(AfterSendingAll(q, ids, bodies)[c]) :
                 AfterSendingAll(q, ids, bodies)[c][k] = bodies[j]
<1> DEFINE n == Len(ids)
           Mine(i) == {j \in 1 .. i : ids[j] = c}
           Good(i) == {r \in Queues(F) :
                         /\ Len(r[c]) <= Len(q[c]) + 2 * Cardinality(Mine(i))
                         /\ \A j \in Mine(i) : \E k \in 1 .. Len(r[c]) : r[c][k] = bodies[j]}
           G == [i \in 0 .. n |-> Good(i)]
<1>1. \A i \in 0 .. n : IsFiniteSet(Mine(i)) /\ Cardinality(Mine(i)) \in Nat
  <2> SUFFICES ASSUME NEW i \in 0 .. n
               PROVE  IsFiniteSet(Mine(i)) /\ Cardinality(Mine(i)) \in Nat
    OBVIOUS
  <2>1. IsFiniteSet(1 .. i) /\ Mine(i) \subseteq 1 .. i
    BY FS_Interval
  <2> HIDE DEF Mine
  <2>2. IsFiniteSet(Mine(i))
    BY <2>1, FS_Subset
  <2> QED
    BY <2>2, FS_CardinalityType
<1>2. \A r \in Queues(F) : Len(r[c]) \in Nat
  BY DEF Queues
<1>3. q \in G[0]
  <2>1. Mine(0) = {}
    OBVIOUS
  <2> HIDE DEF Mine
  <2>2. Len(q[c]) <= Len(q[c]) + 2 * Cardinality(Mine(0))
    <3>1. Cardinality(Mine(0)) = 0 /\ Len(q[c]) \in Nat
      BY <1>2, <2>1, FS_EmptySet
    <3> QED
      BY <3>1
  <2> QED
    BY <2>1, <2>2
<1>4. ASSUME NEW i \in 1 .. n, NEW r \in G[i - 1]
      PROVE  AfterSending(r, ids[i], bodies[i]) \in G[i]
  <2> DEFINE d == ids[i]
             b == bodies[i]
             t == AfterSending(r, d, b)
             room == d \in connected /\ Len(r[d]) + 2 <= 2 * Hwm
  <2>1. i \in Nat /\ i - 1 \in Nat /\ i \in 0 .. n /\ i - 1 \in 0 .. n
    OBVIOUS
  <2>2. r \in Good(i - 1)
    BY <1>4, <2>1
  <2>3. d \in Client /\ b \in F
    OBVIOUS
  <2> HIDE DEF d, b
  <2>4. /\ t \in Queues(F)
        /\ \A e \in Client : e # d \/ ~room => t[e] = r[e]
        /\ room => /\ Len(r[d]) \in Nat /\ Len(t[d]) = Len(r[d]) + 2
                   /\ \A k \in 1 .. Len(r[d]) : t[d][k] = r[d][k]
                   /\ t[d][Len(r[d]) + 1] = Delimiter /\ t[d][Len(r[d]) + 2] = b
    BY <2>2, <2>3, SendOne
  <2> HIDE DEF t
  <2>5. t \in Good(i)
    <3>1. CASE d # c
      <4>1. Mine(i) = Mine(i - 1)
        BY <2>1, <3>1 DEF d
      <4>2. t[c] = r[c]
        BY <2>4, <3>1
      <4> HIDE DEF Mine
      <4> QED
        BY <2>2, <2>4, <4>1, <4>2
    <3>2. CASE d = c
      <4>1. Mine(i) = Mine(i - 1) \cup {i} /\ i \notin Mine(i - 1)
        BY <2>1, <3>2 DEF d
      <4>2. Mine(i) \subseteq Mine(n)
        BY <2>1
      <4>3. n \in 0 .. n
        OBVIOUS
      <4> HIDE DEF Mine
      <4>4. Cardinality(Mine(i)) = Cardinality(Mine(i - 1)) + 1
        BY <1>1, <2>1, <4>1, FS_AddElement
      <4>5. Cardinality(Mine(i)) <= Cardinality(Mine(n))
        BY <1>1, <4>2, <4>3, FS_Subset
      <4>6. Len(q[c]) + 2 * Cardinality(Mine(n)) <= 2 * Hwm
        BY DEF Mine, Turns
      <4>7. /\ Cardinality(Mine(i - 1)) \in Nat /\ Cardinality(Mine(n)) \in Nat
            /\ Len(q[c]) \in Nat /\ Len(r[c]) \in Nat /\ 2 * Hwm \in Nat
        BY <1>1, <1>2, <2>1, <2>2, <4>3, NetworkAssumption
      <4>8. Len(r[c]) <= Len(q[c]) + 2 * Cardinality(Mine(i - 1))
        BY <2>2
      <4>9. Len(r[c]) + 2 <= 2 * Hwm
        <5>1. \A a, l, x, y, h \in Nat :
                 a <= l + 2 * x /\ x + 1 <= y /\ l + 2 * y <= h => a + 2 <= h
          OBVIOUS
        <5>2. Cardinality(Mine(i - 1)) + 1 <= Cardinality(Mine(n))
          BY <4>4, <4>5
        <5> QED
          BY <4>6, <4>7, <4>8, <5>1, <5>2
      <4>10. room
        BY <3>2, <4>9
      <4>11. Len(t[c]) = Len(r[c]) + 2 /\ t[c][Len(r[c]) + 2] = b
             /\ \A k \in 1 .. Len(r[c]) : t[c][k] = r[c][k]
        BY <2>4, <3>2, <4>10
      <4>12. Len(t[c]) <= Len(q[c]) + 2 * Cardinality(Mine(i))
        <5>1. \A a, l, x \in Nat : a <= l + 2 * x => a + 2 <= l + 2 * (x + 1)
          OBVIOUS
        <5> QED
          BY <4>4, <4>7, <4>8, <4>11, <5>1
      <4>13. ASSUME NEW j \in Mine(i)
             PROVE  \E k \in 1 .. Len(t[c]) : t[c][k] = bodies[j]
        <5>1. CASE j = i
          <6>1. Len(r[c]) + 2 \in 1 .. Len(t[c])
            BY <4>7, <4>11
          <6> QED
            BY <4>11, <5>1, <6>1 DEF b
        <5>2. CASE j \in Mine(i - 1)
          <6>1. PICK k \in 1 .. Len(r[c]) : r[c][k] = bodies[j]
            BY <2>2, <5>2
          <6>2. k \in 1 .. Len(t[c])
            BY <4>7, <4>11
          <6> QED
            BY <4>11, <6>1, <6>2
        <5> QED
          BY <4>1, <5>1, <5>2
      <4> QED
        BY <2>4, <4>12, <4>13
    <3> QED
      BY <3>1, <3>2
  <2>6. G[i] = Good(i)
    BY <2>1
  <2> QED
    BY <2>5, <2>6 DEF t, d, b
<1> HIDE DEF G
<1>5. AfterSendingAll(q, ids, bodies) \in G[n]
  BY <1>3, <1>4, SendingInduction
<1>6. G[n] = Good(n)
  BY DEF G
<1> QED
  BY <1>5, <1>6

\* From q to r, the queues have got some of the bodies, each of them once.
AddedOnce(F, q, r, ids, bodies) ==
    /\ r \in Queues(F)
    /\ \A c \in Client :
          /\ Len(q[c]) \in Nat /\ Len(r[c]) \in Nat /\ Len(q[c]) <= Len(r[c])
          /\ \A k \in 1 .. Len(q[c]) : r[c][k] = q[c][k]
          /\ \A k \in Len(q[c]) + 1 .. Len(r[c]) :
                r[c][k] = Delimiter \/ \E j \in Turns(ids, c) : r[c][k] = bodies[j]
          /\ \A k, l \in Len(q[c]) + 1 .. Len(r[c]) :
                k # l /\ r[c][k] # Delimiter => r[c][k] # r[c][l]

\* When the bodies of a loop differ, it adds each of them to a queue once at
\* most, behind what was there before.
LEMMA SendLoopOnce ==
    ASSUME NEW F, NEW q \in Queues(F), NEW ids, NEW bodies, Len(ids) \in Nat, Delimiter \in F,
           \A i \in 1 .. Len(ids) : ids[i] \in Client /\ bodies[i] \in F,
           \A i, j \in 1 .. Len(ids) : i # j => bodies[i] # bodies[j]
    PROVE  AddedOnce(F, q, AfterSendingAll(q, ids, bodies), ids, bodies)
<1> DEFINE n == Len(ids)
           Sent(c, x, i) == \E j \in 1 .. i : ids[j] = c /\ x = bodies[j]
           Added(c, r, i) ==
              /\ Len(q[c]) <= Len(r)
              /\ \A k \in 1 .. Len(q[c]) : r[k] = q[c][k]
              /\ \A k \in Len(q[c]) + 1 .. Len(r) : r[k] = Delimiter \/ Sent(c, r[k], i)
              /\ \A k, l \in Len(q[c]) + 1 .. Len(r) : k # l /\ r[k] # Delimiter => r[k] # r[l]
           Good(i) == {r \in Queues(F) : \A c \in Client : Added(c, r[c], i)}
           G == [i \in 0 .. n |-> Good(i)]
<1>1. \A r \in Queues(F) : \A c \in Client : r[c] \in Seq(F) /\ Len(r[c]) \in Nat
  BY DEF Queues
<1>2. q \in G[0]
  <2>1. ASSUME NEW c \in Client
        PROVE  Added(c, q[c], 0)
    <3>1. Len(q[c]) \in Nat
      BY <1>1
    <3>2. Len(q[c]) + 1 .. Len(q[c]) = {}
      BY <3>1
    <3> QED
      BY <3>1, <3>2
  <2> HIDE DEF Added
  <2> QED
    BY <2>1
<1>3. ASSUME NEW i \in 1 .. n, NEW r \in G[i - 1]
      PROVE  AfterSending(r, ids[i], bodies[i]) \in G[i]
  <2> DEFINE d == ids[i]
             b == bodies[i]
             t == AfterSending(r, d, b)
             room == d \in connected /\ Len(r[d]) + 2 <= 2 * Hwm
  <2>1. i \in Nat /\ i - 1 \in Nat /\ i \in 0 .. n /\ i - 1 \in 0 .. n /\ 1 .. i - 1 \subseteq 1 .. i
    OBVIOUS
  <2>2. r \in Good(i - 1) /\ G[i] = Good(i)
    BY <1>3, <2>1
  <2>3. d \in Client /\ b \in F
    OBVIOUS
  <2>4. \A c, x : Sent(c, x, i - 1) => Sent(c, x, i) /\ x # b
    BY <2>1
  <2>5. Sent(d, b, i)
    BY <2>1
  <2> HIDE DEF d, b, G, Sent
  <2>6. /\ t \in Queues(F)
        /\ \A e \in Client : e # d \/ ~room => t[e] = r[e]
        /\ room => /\ Len(r[d]) \in Nat /\ Len(t[d]) = Len(r[d]) + 2
                   /\ \A k \in 1 .. Len(r[d]) : t[d][k] = r[d][k]
                   /\ t[d][Len(r[d]) + 1] = Delimiter /\ t[d][Len(r[d]) + 2] = b
    BY <2>2, <2>3, SendOne
  <2> HIDE DEF t, room
  <2>7. ASSUME NEW c \in Client
        PROVE  Added(c, t[c], i)
    <3>1. Added(c, r[c], i - 1)
      BY <2>2
    <3>2. CASE c # d \/ ~room
      BY <2>4, <2>6, <3>1, <3>2
    <3>3. CASE c = d /\ room
      <4> DEFINE u == r[c]
                 v == t[c]
                 m == Len(q[c])
      <4>1. /\ m \in Nat /\ Len(u) \in Nat /\ m <= Len(u) /\ Len(v) = Len(u) + 2
            /\ \A k \in 1 .. Len(u) : v[k] = u[k]
            /\ v[Len(u) + 1] = Delimiter /\ v[Len(u) + 2] = b
        BY <1>1, <2>6, <3>1, <3>3
      <4>2. /\ \A k \in 1 .. m : u[k] = q[c][k]
            /\ \A k \in m + 1 .. Len(u) : u[k] = Delimiter \/ Sent(c, u[k], i - 1)
            /\ \A k, l \in m + 1 .. Len(u) : k # l /\ u[k] # Delimiter => u[k] # u[l]
        BY <3>1
      <4> HIDE DEF u, v, m
      <4>3. \A k \in m + 1 .. Len(v) :
               \/ k \in m + 1 .. Len(u) /\ v[k] = u[k]
               \/ k = Len(u) + 1 /\ v[k] = Delimiter
               \/ k = Len(u) + 2 /\ v[k] = b
        BY <4>1
      <4>4. \A k \in 1 .. m : v[k] = q[c][k]
        BY <4>1, <4>2
      <4>5. \A k \in m + 1 .. Len(v) : v[k] = Delimiter \/ Sent(c, v[k], i)
        BY <2>4, <2>5, <3>3, <4>2, <4>3
      <4>6. ASSUME NEW k \in m + 1 .. Len(v), NEW l \in m + 1 .. Len(v), k # l, v[k] # Delimiter
            PROVE  v[k] # v[l]
        <5>1. CASE k = Len(u) + 2
          BY <2>4, <4>2, <4>3, <4>6, <5>1
        <5>2. CASE l = Len(u) + 2
          BY <2>4, <4>2, <4>3, <4>6, <5>2
        <5>3. CASE k # Len(u) + 2 /\ l # Len(u) + 2
          BY <4>2, <4>3, <4>6, <5>3
        <5> QED
          BY <5>1, <5>2, <5>3
      <4>7. m <= Len(v)
        BY <4>1
      <4> QED
        BY <4>4, <4>5, <4>6, <4>7 DEF u, v, m
    <3> QED
      BY <3>2, <3>3
  <2> HIDE DEF Added
  <2> QED
    BY <2>2, <2>6, <2>7 DEF t, d, b
<1> HIDE DEF G
<1>4. AfterSendingAll(q, ids, bodies) \in G[n]
  BY <1>2, <1>3, SendingInduction
<1>5. G[n] = Good(n)
  BY DEF G
<1> DEFINE r == AfterSendingAll(q, ids, bodies)
<1>6. r \in Queues(F) /\ \A c \in Client : Added(c, r[c], n)
  BY <1>4, <1>5
<1> HIDE DEF r
<1>7. \A c \in Client : \A x : Sent(c, x, n) => \E j \in Turns(ids, c) : x = bodies[j]
  BY DEF Turns
<1> HIDE DEF Sent
<1>8. ASSUME NEW c \in Client
      PROVE  /\ Len(q[c]) \in Nat /\ Len(r[c]) \in Nat /\ Len(q[c]) <= Len(r[c])
             /\ \A k \in 1 .. Len(q[c]) : r[c][k] = q[c][k]
             /\ \A k \in Len(q[c]) + 1 .. Len(r[c]) :
                   r[c][k] = Delimiter \/ \E j \in Turns(ids, c) : r[c][k] = bodies[j]
             /\ \A k, l \in Len(q[c]) + 1 .. Len(r[c]) :
                   k # l /\ r[c][k] # Delimiter => r[c][k] # r[c][l]
  BY <1>1, <1>6, <1>7
<1>9. AddedOnce(F, q, r, ids, bodies)
  BY <1>6, <1>8 DEF AddedOnce
<1> QED
  BY <1>9 DEF r
-----------------------------------------------------------------------------
(* Queues that are read message by message.                                *)

\* A client reads a message: the two frames at the head of its queue.
LEMMA MessageRead ==
    ASSUME NEW F, NEW q \in Seq(F), NEW k \in Nat, Len(q) = 2 * k, q # <<>>
    PROVE  /\ Tail(Tail(q)) \in Seq(F) /\ k - 1 \in Nat /\ Len(Tail(Tail(q))) = 2 * (k - 1)
           /\ \A i \in 1 .. Len(Tail(Tail(q))) : i + 2 \in 1 .. Len(q) /\ Tail(Tail(q))[i] = q[i + 2]
<1>1. k # 0 /\ Len(q) >= 2
  BY EmptySeq
<1>2. /\ Tail(q) \in Seq(F) /\ Len(Tail(q)) = Len(q) - 1
      /\ \A i \in 1 .. Len(Tail(q)) : Tail(q)[i] = q[i + 1]
  BY HeadTailProperties
<1> DEFINE t == Tail(q)
<1> HIDE DEF t
<1>3. t # <<>>
  <2>1. Len(t) # 0
    BY <1>1, <1>2 DEF t
  <2> QED
    BY <2>1
<1>4. /\ Tail(t) \in Seq(F) /\ Len(Tail(t)) = Len(t) - 1
      /\ \A i \in 1 .. Len(Tail(t)) : Tail(t)[i] = t[i + 1]
  BY <1>2, <1>3, HeadTailProperties DEF t
<1> QED
  BY <1>1, <1>2, <1>4 DEF t

\* Whole messages, with bodies in A.
Whole(q, A) ==
    /\ \E k \in Nat : Len(q) = 2 * k
    /\ \A k \in Nat : 2 * k + 2 <= Len(q) => q[2 * k + 2] \in A

LEMMA WholeRead ==
    ASSUME NEW F, NEW A, NEW q \in Seq(F), Whole(q, A), q # <<>>
    PROVE  q[2] \in A /\ Tail(Tail(q)) \in Seq(F) /\ Whole(Tail(Tail(q)), A)
<1>1. PICK n \in Nat : Len(q) = 2 * n
  BY DEF Whole
<1> DEFINE r == Tail(Tail(q))
<1>2. /\ r \in Seq(F) /\ n - 1 \in Nat /\ Len(r) = 2 * (n - 1)
      /\ \A i \in 1 .. Len(r) : i + 2 \in 1 .. Len(q) /\ r[i] = q[i + 2]
  BY <1>1, MessageRead
<1> HIDE DEF r
<1>3. q[2 * 0 + 2] \in A
  <2>1. 0 \in Nat /\ 2 * 0 + 2 <= Len(q)
    BY <1>1, <1>2
  <2> QED
    BY <2>1 DEF Whole
<1>4. ASSUME NEW k \in Nat, 2 * k + 2 <= Len(r)
      PROVE  r[2 * k + 2] \in A
  <2>1. /\ 2 * k + 2 \in 1 .. Len(r) /\ k + 1 \in Nat
        /\ (2 * k + 2) + 2 = 2 * (k + 1) + 2 /\ 2 * (k + 1) + 2 <= Len(q)
    BY <1>1, <1>2, <1>4
  <2>2. q[2 * (k + 1) + 2] \in A
    BY <2>1 DEF Whole
  <2> QED
    BY <1>2, <2>1, <2>2
<1>5. Whole(r, A)
  BY <1>2, <1>4 DEF Whole
<1> QED
  BY <1>2, <1>3, <1>5 DEF r

\* The loop keeps the queue of one client whole, if what it has for it is in A.
LEMMA SendLoopWhole ==
    ASSUME NEW F, NEW A, NEW q \in Queues(F), NEW ids, NEW bodies, Len(ids) \in Nat,
           Delimiter \in F, NEW c \in Client, Whole(q[c], A),
           \A i \in 1 .. Len(ids) :
              ids[i] \in Client /\ bodies[i] \in F /\ (ids[i] = c => bodies[i] \in A)
    PROVE  Whole(AfterSendingAll(q, ids, bodies)[c], A)
<1> DEFINE Good == {r \in Queues(F) : Whole(r[c], A)}
           G == [i \in 0 .. Len(ids) |-> Good]
<1>1. q \in G[0]
  OBVIOUS
<1>2. ASSUME NEW i \in 1 .. Len(ids), NEW r \in G[i - 1]
      PROVE  AfterSending(r, ids[i], bodies[i]) \in G[i]
  <2> DEFINE d == ids[i]
             b == bodies[i]
             t == AfterSending(r, d, b)
             room == d \in connected /\ Len(r[d]) + 2 <= 2 * Hwm
  <2>1. r \in Good /\ G[i] = Good
    <3> i \in 0 .. Len(ids) /\ i - 1 \in 0 .. Len(ids)
      OBVIOUS
    <3>1. G[i - 1] = Good /\ G[i] = Good
      OBVIOUS
    <3> QED
      BY <1>2, <3>1
  <2>2. d \in Client /\ b \in F /\ (d = c => b \in A)
    OBVIOUS
  <2> HIDE DEF d, b, G
  <2>3. /\ t \in Queues(F)
        /\ \A e \in Client : e # d \/ ~room => t[e] = r[e]
        /\ room => /\ Len(r[d]) \in Nat /\ Len(t[d]) = Len(r[d]) + 2
                   /\ \A k \in 1 .. Len(r[d]) : t[d][k] = r[d][k]
                   /\ t[d][Len(r[d]) + 1] = Delimiter /\ t[d][Len(r[d]) + 2] = b
    BY <2>1, <2>2, SendOne
  <2> HIDE DEF t, room
  <2>4. Whole(t[c], A)
    <3>1. CASE c # d \/ ~room
      BY <2>1, <2>3, <3>1
    <3>2. CASE c = d /\ room
      <4>1. PICK n \in Nat : Len(r[c]) = 2 * n
        BY <2>1 DEF Whole
      <4>2. /\ Len(t[c]) = 2 * (n + 1) /\ n + 1 \in Nat
            /\ \A k \in 1 .. 2 * n : t[c][k] = r[c][k]
            /\ t[c][2 * n + 2] = b /\ b \in A
        BY <2>2, <2>3, <3>2, <4>1
      <4>3. ASSUME NEW k \in Nat, 2 * k + 2 <= Len(t[c])
            PROVE  t[c][2 * k + 2] \in A
        <5>1. k = n \/ (2 * k + 2 \in 1 .. 2 * n /\ 2 * k + 2 <= Len(r[c]))
          BY <4>1, <4>2, <4>3
        <5> QED
          BY <2>1, <4>2, <5>1 DEF Whole
      <4> QED
        BY <4>2, <4>3 DEF Whole
    <3> QED
      BY <3>1, <3>2
  <2> QED
    BY <2>1, <2>3, <2>4 DEF t, d, b
<1> HIDE DEF G
<1>3. AfterSendingAll(q, ids, bodies) \in G[Len(ids)]
  BY <1>1, <1>2, SendingInduction
<1>4. G[Len(ids)] = Good
  BY DEF G
<1> QED
  BY <1>3, <1>4
=============================================================================
