--------------------------- MODULE PreFilterProofs ---------------------------
(***************************************************************************)
(* The prefilter, for every hash function, every set of subscriptions and  *)
(* events, every order of insertion and every variant: its lists stay in   *)
(* order, and a publication pushes what matches it exactly once.           *)
(***************************************************************************)
EXTENDS PreFilter, GraphProofs, SequenceTheorems

-----------------------------------------------------------------------------
(* Sequences: the first element with a property, insertion and removal.    *)

LEMMA MinOfNumbers ==
    ASSUME NEW I \in SUBSET Nat, I # {}
    PROVE  Min(I) \in I /\ \A i \in I : Min(I) <= i
<1> DEFINE M == {m \in Nat : \A i \in I : m <= i}
<1>1. \E m \in I : \A i \in I : m <= i
  <2> SUFFICES ASSUME \A m \in I : \E i \in I : i < m
               PROVE  FALSE
    OBVIOUS
  <2>1. 0 \in M
    OBVIOUS
  <2>2. ASSUME NEW m \in Nat, m \in M
        PROVE  m + 1 \in M
    <3> SUFFICES ASSUME NEW i \in I, ~(m + 1 <= i)
                 PROVE  FALSE
      OBVIOUS
    <3>1. i \in Nat /\ m <= i /\ i = m
      BY <2>2
    <3>2. PICK j \in I : j < m
      BY <3>1
    <3>3. j \in Nat /\ m <= j
      BY <2>2
    <3> QED
      BY <2>2, <3>2, <3>3
  <2>3. Nat \subseteq M
    <3> HIDE DEF M
    <3> QED
      BY <2>1, <2>2, NatSetInduction
  <2>4. PICK i \in I : TRUE
    OBVIOUS
  <2>5. i + 1 \in M
    BY <2>3
  <2> QED
    BY <2>4, <2>5
<1> QED
  BY <1>1 DEF Min

LEMMA JoinedIs ==
    ASSUME NEW S, NEW a \in Seq(S), NEW b \in Seq(S)
    PROVE  /\ a \o b \in Seq(S) /\ Len(a \o b) = Len(a) + Len(b)
           /\ \A i \in 1 .. Len(a) : (a \o b)[i] = a[i]
           /\ \A i \in Len(a) + 1 .. Len(a) + Len(b) : (a \o b)[i] = b[i - Len(a)]
BY ConcatProperties

\* r is l with s inserted at position p.
IsInserted(r, l, p, s) ==
    /\ Len(r) = Len(l) + 1 /\ r[p] = s
    /\ \A i \in 1 .. Len(l) : i < p => r[i] = l[i]
    /\ \A i \in 1 .. Len(l) : i >= p => r[i + 1] = l[i]

LEMMA InsertAtIs ==
    ASSUME NEW S, NEW l \in Seq(S), NEW p \in 1 .. Len(l), NEW s \in S
    PROVE  InsertAt(l, p, s) \in Seq(S) /\ IsInserted(InsertAt(l, p, s), l, p, s)
<1> DEFINE a == SubSeq(l, 1, p - 1)
           b == SubSeq(l, p, Len(l))
<1>1. /\ a \in Seq(S) /\ Len(a) = p - 1 /\ \A i \in 1 .. p - 1 : a[i] = l[i]
      /\ b \in Seq(S) /\ Len(b) = Len(l) - p + 1 /\ \A i \in 1 .. Len(b) : b[i] = l[p + i - 1]
  OBVIOUS
<1> HIDE DEF a, b
<1>2. /\ a \o <<s>> \in Seq(S) /\ Len(a \o <<s>>) = p /\ (a \o <<s>>)[p] = s
      /\ \A i \in 1 .. p - 1 : (a \o <<s>>)[i] = l[i]
  <2>1. <<s>> \in Seq(S) /\ Len(<<s>>) = 1 /\ <<s>>[1] = s
    OBVIOUS
  <2>2. p \in Int /\ p >= 1 /\ (p - 1) + 1 = p /\ p - (p - 1) = 1 /\ p \in (p - 1) + 1 .. (p - 1) + 1
    OBVIOUS
  <2> DEFINE u == <<s>>
  <2> HIDE DEF u, a
  <2>3. /\ a \o u \in Seq(S) /\ Len(a \o u) = Len(a) + Len(u)
        /\ \A i \in 1 .. Len(a) : (a \o u)[i] = a[i]
        /\ \A i \in Len(a) + 1 .. Len(a) + Len(u) : (a \o u)[i] = u[i - Len(a)]
    <3>1. a \in Seq(S) /\ u \in Seq(S)
      BY <1>1, <2>1 DEF u
    <3> QED
      BY <3>1, JoinedIs
  <2>4. Len(a) = p - 1 /\ Len(u) = 1 /\ u[1] = s
    BY <1>1, <2>1 DEF u
  <2>5. Len(a \o u) = p /\ (a \o u)[p] = s
    BY <2>2, <2>3, <2>4
  <2>6. \A i \in 1 .. p - 1 : (a \o u)[i] = l[i]
    BY <1>1, <2>3, <2>4
  <2> QED
    BY <2>3, <2>5, <2>6 DEF u
<1> DEFINE c == a \o <<s>>
           r == c \o b
<1> HIDE DEF c
<1>3. /\ r \in Seq(S) /\ Len(r) = Len(l) + 1
      /\ \A i \in 1 .. p : r[i] = c[i]
      /\ \A i \in p + 1 .. Len(l) + 1 : r[i] = b[i - p]
  <2>1. c \in Seq(S) /\ Len(c) = p /\ Len(l) \in Nat /\ p \in Nat
    BY <1>2 DEF c
  <2>2. r \in Seq(S) /\ Len(r) = p + Len(b) /\ p + Len(b) = Len(l) + 1
    <3>1. b \in Seq(S) /\ p + Len(b) = Len(l) + 1
      BY <1>1, <2>1
    <3> HIDE DEF b
    <3> QED
      BY <2>1, <3>1, JoinedIs
  <2>3. \A i \in 1 .. p : r[i] = c[i]
    BY <1>1, <2>1, JoinedIs
  <2>4. \A i \in p + 1 .. p + Len(b) : r[i] = b[i - p]
    BY <1>1, <2>1, JoinedIs
  <2> QED
    BY <2>2, <2>3, <2>4
<1> HIDE DEF r
<1>4. ASSUME NEW i \in 1 .. Len(l), i >= p
      PROVE  r[i + 1] = l[i]
  <2>1. i + 1 \in p + 1 .. Len(l) + 1 /\ (i + 1) - p \in 1 .. Len(b) /\ p + ((i + 1) - p) - 1 = i
    BY <1>1, <1>4
  <2> QED
    BY <1>1, <1>3, <2>1
<1>5. IsInserted(r, l, p, s)
  BY <1>2, <1>3, <1>4 DEF IsInserted, c
<1> QED
  BY <1>3, <1>5 DEF r, c, a, b, InsertAt

LEMMA AppendIs ==
    ASSUME NEW S, NEW l \in Seq(S), NEW s \in S
    PROVE  Append(l, s) \in Seq(S) /\ IsInserted(Append(l, s), l, Len(l) + 1, s)
BY DEF IsInserted

\* Where PreFilter::add puts a subscription: with containment, before the first
\* one that it covers.
LEMMA ListedIs ==
    ASSUME NEW l \in Seq(Sub), NEW s \in Sub
    PROVE  /\ Listed(l, s) \in Seq(Sub)
           /\ \E p \in 1 .. Len(l) + 1 :
                 /\ IsInserted(Listed(l, s), l, p, s)
                 /\ UsesContainment =>
                       /\ \A i \in 1 .. Len(l) : i < p => ~Covers(s, l[i])
                       /\ p <= Len(l) => Covers(s, l[p])
<1> DEFINE I == {i \in 1 .. Len(l) : Covers(s, l[i])}
           first == IF I # {} THEN Min(I) ELSE 0
<1>1. Listed(l, s) = IF UsesContainment /\ first # 0 THEN InsertAt(l, first, s) ELSE Append(l, s)
  BY Zenon DEF Listed, SelectInSeq
<1>2. I # {} => first \in I /\ \A i \in I : first <= i
  <2>1. I \in SUBSET Nat
    OBVIOUS
  <2> HIDE DEF I
  <2> QED
    BY <2>1, MinOfNumbers
<1> HIDE DEF first
<1>3. CASE UsesContainment /\ first # 0
  <2>1. I # {} /\ first \in I /\ \A i \in I : first <= i
    BY <1>2, <1>3 DEF first
  <2>2. /\ first \in 1 .. Len(l) /\ first \in 1 .. Len(l) + 1
        /\ \A i \in 1 .. Len(l) : i < first => ~Covers(s, l[i])
        /\ Covers(s, l[first])
    BY <2>1
  <2> QED
    BY <1>1, <1>3, <2>2, InsertAtIs
<1>4. CASE ~(UsesContainment /\ first # 0)
  <2>1. UsesContainment => I = {}
    <3>1. I # {} => first # 0
      BY <1>2
    <3> QED
      BY <1>4, <3>1
  <2>2. Listed(l, s) = Append(l, s) /\ Len(l) + 1 \in 1 .. Len(l) + 1
    BY <1>1, <1>4
  <2> QED
    BY <2>1, <2>2, AppendIs
<1> QED
  BY <1>3, <1>4

\* What insertion does to a list without the element.
LEMMA InsertedKeeps ==
    ASSUME NEW l \in Seq(Sub), NEW s \in Sub, NEW r \in Seq(Sub),
           NEW p \in 1 .. Len(l) + 1, IsInserted(r, l, p, s)
    PROVE  /\ \A i \in 1 .. Len(r) :
                 \/ i < p /\ i \in 1 .. Len(l) /\ r[i] = l[i]
                 \/ i = p /\ r[i] = s
                 \/ i > p /\ i - 1 \in 1 .. Len(l) /\ r[i] = l[i - 1]
           /\ ToSet(r) = ToSet(l) \cup {s}
           /\ IsInjective(l) /\ s \notin ToSet(l) => IsInjective(r)
<1>1. /\ Len(r) = Len(l) + 1 /\ Len(l) \in Nat /\ r[p] = s
      /\ \A i \in 1 .. Len(l) : i < p => r[i] = l[i]
      /\ \A i \in 1 .. Len(l) : i >= p => r[i + 1] = l[i]
  BY DEF IsInserted
<1>2. \A i \in 1 .. Len(r) :
         \/ i < p /\ i \in 1 .. Len(l) /\ r[i] = l[i]
         \/ i = p /\ r[i] = s
         \/ i > p /\ i - 1 \in 1 .. Len(l) /\ r[i] = l[i - 1]
  <2> SUFFICES ASSUME NEW i \in 1 .. Len(r)
               PROVE  \/ i < p /\ i \in 1 .. Len(l) /\ r[i] = l[i]
                      \/ i = p /\ r[i] = s
                      \/ i > p /\ i - 1 \in 1 .. Len(l) /\ r[i] = l[i - 1]
    OBVIOUS
  <2>1. CASE i < p
    BY <1>1, <2>1
  <2>2. CASE i > p
    <3>1. i - 1 \in 1 .. Len(l) /\ i - 1 >= p /\ (i - 1) + 1 = i
      BY <1>1, <2>2
    <3> QED
      BY <1>1, <2>2, <3>1
  <2> QED
    BY <1>1, <2>1, <2>2
<1>3. DOMAIN r = 1 .. Len(r) /\ DOMAIN l = 1 .. Len(l)
  OBVIOUS
<1>4. ToSet(r) = ToSet(l) \cup {s}
  <2>1. ASSUME NEW x \in ToSet(r)
        PROVE  x \in ToSet(l) \cup {s}
    BY <1>2, <1>3 DEF ToSet
  <2>2. ASSUME NEW x \in ToSet(l)
        PROVE  x \in ToSet(r)
    <3>1. PICK i \in 1 .. Len(l) : l[i] = x
      BY <1>3 DEF ToSet
    <3>2. i \in 1 .. Len(r) /\ i + 1 \in 1 .. Len(r) /\ (r[i] = x \/ r[i + 1] = x)
      BY <1>1, <3>1
    <3> QED
      BY <1>3, <3>2 DEF ToSet
  <2>3. s \in ToSet(r)
    BY <1>1, <1>3 DEF ToSet
  <2> QED
    BY <2>1, <2>2, <2>3
<1>5. ASSUME IsInjective(l), s \notin ToSet(l), NEW i \in 1 .. Len(r), NEW j \in 1 .. Len(r), r[i] = r[j]
      PROVE  i = j
  <2>1. \A k \in 1 .. Len(l) : l[k] # s
    BY <1>3, <1>5 DEF ToSet
  <2>2. \A k, m \in 1 .. Len(l) : l[k] = l[m] => k = m
    BY <1>3, <1>5 DEF IsInjective
  <2>3. /\ i \in Int /\ j \in Int /\ p \in Int
        /\ \/ i < p /\ i \in 1 .. Len(l) /\ r[i] = l[i]
           \/ i = p /\ r[i] = s
           \/ i > p /\ i - 1 \in 1 .. Len(l) /\ r[i] = l[i - 1]
        /\ \/ j < p /\ j \in 1 .. Len(l) /\ r[j] = l[j]
           \/ j = p /\ r[j] = s
           \/ j > p /\ j - 1 \in 1 .. Len(l) /\ r[j] = l[j - 1]
    BY <1>2
  <2> QED
    BY <1>5, <2>1, <2>2, <2>3
<1> QED
  BY <1>2, <1>3, <1>4, <1>5 DEF IsInjective

\* Containers stay first when s is inserted before the first one it covers.
Ordered(l) == \A i, j \in 1 .. Len(l) : StrictlyCovers(l[i], l[j]) => i < j

LEMMA ListedOrdered ==
    ASSUME UsesContainment, NEW l \in Seq(Sub), NEW s \in Sub, Ordered(l)
    PROVE  Ordered(Listed(l, s))
<1> DEFINE r == Listed(l, s)
<1>1. r \in Seq(Sub)
  BY ListedIs
<1>2. PICK p \in 1 .. Len(l) + 1 :
         /\ IsInserted(r, l, p, s)
         /\ \A i \in 1 .. Len(l) : i < p => ~Covers(s, l[i])
         /\ p <= Len(l) => Covers(s, l[p])
  BY ListedIs
<1> HIDE DEF r
<1>3. \A i \in 1 .. Len(r) :
         \/ i < p /\ i \in 1 .. Len(l) /\ r[i] = l[i]
         \/ i = p /\ r[i] = s
         \/ i > p /\ i - 1 \in 1 .. Len(l) /\ r[i] = l[i - 1]
  BY <1>1, <1>2, InsertedKeeps
<1>4. ASSUME NEW i \in 1 .. Len(r), NEW j \in 1 .. Len(r), StrictlyCovers(r[i], r[j])
      PROVE  i < j
  <2>1. i \in Int /\ j \in Int /\ p \in Int /\ Len(l) \in Nat
    BY <1>1
  <2>2. CASE i # p /\ j # p
    <3>1. PICK k \in 1 .. Len(l) : r[i] = l[k] /\ (i < p => i = k) /\ (i > p => i = k + 1)
      BY <1>3, <2>1, <2>2
    <3>2. PICK m \in 1 .. Len(l) : r[j] = l[m] /\ (j < p => j = m) /\ (j > p => j = m + 1)
      BY <1>3, <2>1, <2>2
    <3>3. k < m
      BY <1>4, <3>1, <3>2 DEF Ordered
    <3> QED
      BY <2>1, <2>2, <3>1, <3>2, <3>3
  <2>3. CASE i = p /\ j = p
    BY <1>3, <1>4, <2>1, <2>3 DEF StrictlyCovers
  <2>4. CASE i = p /\ j # p
    <3>1. r[i] = s /\ Covers(s, r[j])
      BY <1>3, <1>4, <2>1, <2>4 DEF StrictlyCovers
    <3>2. j > p
      BY <1>2, <1>3, <2>1, <2>4, <3>1
    <3> QED
      BY <2>4, <3>2
  <2>5. CASE i # p /\ j = p
    <3>1. r[j] = s /\ StrictlyCovers(r[i], s)
      BY <1>3, <1>4, <2>1, <2>5
    <3>2. SUFFICES ASSUME i > p
                   PROVE  FALSE
      BY <2>1, <2>5
    <3>3. i - 1 \in 1 .. Len(l) /\ r[i] = l[i - 1] /\ p <= Len(l) /\ p \in 1 .. Len(l)
      BY <1>3, <2>1, <3>2
    <3>4. Covers(s, l[p]) /\ s \in Sub /\ l[p] \in Sub /\ r[i] \in Sub
      BY <1>2, <3>3
    <3>5. Covers(r[i], l[p])
      BY <3>1, <3>4, CoversTransitive DEF StrictlyCovers
    <3>6. ~Covers(l[p], r[i])
      BY <3>1, <3>4, CoversTransitive DEF StrictlyCovers
    <3>7. i - 1 < p
      BY <3>3, <3>5, <3>6 DEF Ordered, StrictlyCovers
    <3> QED
      BY <2>1, <3>2, <3>7
  <2> QED
    BY <2>2, <2>3, <2>4, <2>5
<1> QED
  BY <1>4 DEF Ordered, r

LEMMA RemoveFirstIs ==
    ASSUME NEW l \in Seq(Sub), NEW s
    PROVE  /\ RemoveFirst(l, s) \in Seq(Sub)
           /\ IsInjective(l) => /\ ToSet(RemoveFirst(l, s)) = ToSet(l) \ {s}
                                /\ IsInjective(RemoveFirst(l, s))
<1> DEFINE I == {i \in 1 .. Len(l) : l[i] = s}
           first == IF I # {} THEN Min(I) ELSE 0
<1>1. RemoveFirst(l, s) = IF \E i \in 1 .. Len(l) : l[i] = s THEN RemoveAt(l, first) ELSE l
  BY Zenon DEF RemoveFirst, SelectInSeq
<1>2. CASE I = {}
  <2>1. RemoveFirst(l, s) = l
    BY <1>1, <1>2
  <2>2. s \notin ToSet(l)
    BY <1>2 DEF ToSet
  <2> QED
    BY <2>1, <2>2
<1>3. CASE I # {}
  <2>1. first \in 1 .. Len(l) /\ l[first] = s
    <3>1. I \in SUBSET Nat
      OBVIOUS
    <3> HIDE DEF I
    <3>2. first \in I
      BY <1>3, <3>1, MinOfNumbers
    <3> QED
      BY <3>2 DEF I
  <2> DEFINE r == RemoveAt(l, first)
  <2>2. RemoveFirst(l, s) = r
    BY <1>1, <2>1
  <2> HIDE DEF first
  <2> DEFINE a == SubSeq(l, 1, first - 1)
             b == SubSeq(l, first + 1, Len(l))
  <2>3. /\ a \in Seq(Sub) /\ Len(a) = first - 1 /\ \A i \in 1 .. first - 1 : a[i] = l[i]
        /\ b \in Seq(Sub) /\ Len(b) = Len(l) - first /\ \A i \in 1 .. Len(b) : b[i] = l[first + i]
    BY <2>1
  <2> HIDE DEF a, b
  <2>4. /\ r \in Seq(Sub) /\ Len(r) = Len(l) - 1
        /\ \A i \in 1 .. Len(a) : r[i] = a[i]
        /\ \A i \in Len(a) + 1 .. Len(l) - 1 : r[i] = b[i - Len(a)]
    <3>1. r = a \o b
      BY DEF RemoveAt, a, b
    <3>2. Len(a) + Len(b) = Len(l) - 1 /\ a \in Seq(Sub) /\ b \in Seq(Sub)
      BY <2>1, <2>3
    <3> HIDE DEF r
    <3>3. r \in Seq(Sub) /\ Len(r) = Len(l) - 1
      BY <3>1, <3>2, JoinedIs
    <3>4. \A i \in 1 .. Len(a) : r[i] = a[i]
      BY <3>1, <3>2, JoinedIs
    <3>5. \A i \in Len(a) + 1 .. Len(a) + Len(b) : r[i] = b[i - Len(a)]
      BY <3>1, <3>2, JoinedIs
    <3> QED
      BY <3>2, <3>3, <3>4, <3>5
  <2> HIDE DEF r
  <2>5. ASSUME NEW i \in 1 .. Len(r)
        PROVE  \/ i < first /\ i \in 1 .. Len(l) /\ r[i] = l[i]
               \/ i >= first /\ i + 1 \in 1 .. Len(l) /\ r[i] = l[i + 1]
    <3>1. CASE i < first
      BY <2>1, <2>3, <2>4, <3>1
    <3>2. CASE i >= first
      <4>1. i - Len(a) \in 1 .. Len(b) /\ first + (i - Len(a)) = i + 1 /\ i + 1 \in 1 .. Len(l)
            /\ i \in Len(a) + 1 .. Len(l) - 1
        BY <2>1, <2>3, <2>4, <3>2
      <4> QED
        BY <2>3, <2>4, <3>2, <4>1
    <3> QED
      BY <2>1, <3>1, <3>2
  <2>6. DOMAIN l = 1 .. Len(l) /\ DOMAIN r = 1 .. Len(r)
    BY <2>4
  <2>7. ASSUME IsInjective(l)
        PROVE  ToSet(r) = ToSet(l) \ {s} /\ IsInjective(r)
    <3>1. \A k, m \in 1 .. Len(l) : l[k] = l[m] => k = m
      BY <2>6, <2>7 DEF IsInjective
    <3>2. ASSUME NEW x \in ToSet(r)
          PROVE  x \in ToSet(l) \ {s}
      <4>1. PICK i \in 1 .. Len(r) : r[i] = x
        BY <2>6 DEF ToSet
      <4>2. PICK k \in 1 .. Len(l) : x = l[k] /\ k # first
        BY <2>1, <2>5, <4>1
      <4> QED
        BY <2>1, <2>6, <3>1, <4>2 DEF ToSet
    <3>3. ASSUME NEW x \in ToSet(l), x # s
          PROVE  x \in ToSet(r)
      <4>1. PICK k \in 1 .. Len(l) : l[k] = x
        BY <2>6 DEF ToSet
      <4>2. k # first
        BY <2>1, <3>3, <4>1
      <4>3. CASE k < first
        <5>1. k \in 1 .. Len(r) /\ r[k] = x
          BY <2>1, <2>3, <2>4, <4>1, <4>3
        <5> QED
          BY <2>6, <5>1 DEF ToSet
      <4>4. CASE k > first
        <5>1. k - 1 \in 1 .. Len(r) /\ k - 1 >= first /\ (k - 1) + 1 = k
          BY <2>1, <2>4, <4>4
        <5>2. r[k - 1] = x
          BY <2>1, <2>5, <4>1, <5>1
        <5> QED
          BY <2>6, <5>1, <5>2 DEF ToSet
      <4> QED
        BY <2>1, <4>2, <4>3, <4>4
    <3>4. ASSUME NEW i \in 1 .. Len(r), NEW j \in 1 .. Len(r), r[i] = r[j]
          PROVE  i = j
      BY <2>1, <2>5, <3>1, <3>4
    <3> QED
      BY <2>6, <3>2, <3>3, <3>4 DEF IsInjective
  <2> QED
    BY <2>2, <2>4, <2>7
<1> QED
  BY <1>2, <1>3

-----------------------------------------------------------------------------
(* The invariant.  Its parts about the graph are those of the graph, which *)
(* is only filled, and only before the prefilter is made.                  *)

\* The lists a stored subscription belongs to.
BelongsTo(s, b) == b \in bloom[s] \/ (b = Default /\ bloom[s] = {})

ListNumbers == Bits \cup {Default}

GraphInv == CountInv /\ RouterInv

FilterTypes ==
    /\ variant \in AllNoContainment .. AllContainmentNP \cup {NoVariant}
    /\ hash \in [Value -> SUBSET Bits]
    /\ subs \in Seq(Sub) /\ IsInjective(subs)
    /\ id \in [Sub -> Nat]
    /\ bloom \in [Sub -> SUBSET Bits]
    /\ duplicates \in [Sub -> SUBSET Sub]
    /\ DOMAIN lists = ListNumbers
    /\ \A b \in ListNumbers : lists[b] \in Seq(Sub)

ListsExact ==
    \A b \in ListNumbers :
        IsInjective(lists[b]) /\ ToSet(lists[b]) = {s \in Stored : BelongsTo(s, b)}

\* A prefilter that uses containment has a graph, and its lists are in order.
ContainmentInv ==
    UsesContainment => HasGraph /\ \A b \in ListNumbers : Ordered(lists[b])

\* What the prefilter and the graph say of a stored subscription.
StoredInv ==
    /\ variant = NoVariant => subs = <<>>
    /\ HasGraph => Stored \subseteq Live
    /\ \A p \in Sub : duplicates[p] = {t \in Stored : HasGraph /\ attr[t] = p /\ t # p}
    /\ \A s \in Stored : bloom[s] \subseteq UNION {hash[p[2]] : p \in EqualValues[s]}

FilterInv == GraphInv /\ FilterTypes /\ ListsExact /\ ContainmentInv /\ StoredInv

LEMMA EmptyIs ==
    ASSUME NEW l \in Seq(Sub), ToSet(l) = {}
    PROVE  l = <<>>
<1>1. DOMAIN l = 1 .. Len(l) /\ Len(l) \in Nat
  OBVIOUS
<1>2. 1 \notin DOMAIN l
  BY DEF ToSet
<1>3. Len(l) = 0
  BY <1>1, <1>2
<1> QED
  BY <1>3

LEMMA EmptyList == ToSet(<<>>) = {} /\ IsInjective(<<>>) /\ Ordered(<<>>) /\ <<>> \in Seq(Sub)
BY DEF ToSet, IsInjective, Ordered

LEMMA FilterInitial == PreFilterInit => FilterInv
<1> SUFFICES ASSUME PreFilterInit
             PROVE  FilterInv
  OBVIOUS
<1>1. GraphInv
  <2>1. Init
    BY DEF PreFilterInit
  <2>2. TypeInv /\ Shape /\ AttrExact /\ CountsExact /\ EntriesExact /\ MatchExact
    BY <2>1, TypeInit, ShapeInit, CountInit, EntriesInit
  <2> QED
    BY <2>2 DEF GraphInv, CountInv, RouterInv, ShapeInv
<1>2. Stored = {} /\ variant = NoVariant /\ subs = <<>> /\ duplicates = [s \in Sub |-> {}]
      /\ lists = [b \in ListNumbers |-> <<>>]
  BY EmptyList DEF PreFilterInit, Stored, ListNumbers
<1>3. FilterTypes
  BY <1>2, EmptyList DEF PreFilterInit, FilterTypes, ListNumbers
<1>4. ListsExact /\ ContainmentInv
  <2>1. ~UsesContainment
    BY <1>2, PreFilterAssumption
       DEF UsesContainment, AllNoContainment, AllContainmentN, AllContainmentNP
  <2> QED
    BY <1>2, <2>1, EmptyList DEF ListsExact, ContainmentInv
<1>5. StoredInv
  BY <1>2 DEF StoredInv
<1> QED
  BY <1>1, <1>3, <1>4, <1>5 DEF FilterInv

LEMMA GraphKept == GraphInv /\ [RouterNext]_vars => GraphInv'
<1>1. RouterNext => Next
  BY DEF Next
<1> QED
  BY <1>1, CountStep, RouterStep DEF GraphInv

\* Before the prefilter is made it is empty.
LEMMA NothingStored ==
    ASSUME FilterInv, variant = NoVariant
    PROVE  /\ Stored = {} /\ \A p \in Sub : duplicates[p] = {}
           /\ \A b \in ListNumbers : lists[b] = <<>>
<1>1. Stored = {}
  BY EmptyList DEF FilterInv, StoredInv, Stored
<1>2. \A p \in Sub : duplicates[p] = {}
  BY <1>1 DEF FilterInv, StoredInv
<1>3. ASSUME NEW b \in ListNumbers
      PROVE  lists[b] = <<>>
  <2>1. lists[b] \in Seq(Sub) /\ ToSet(lists[b]) = {}
    BY <1>1 DEF FilterInv, FilterTypes, ListsExact
  <2> QED
    BY <2>1, EmptyIs
<1> QED
  BY <1>1, <1>2, <1>3

LEMMA FillGraphKeeps ==
    ASSUME FilterInv, FillGraph
    PROVE  FilterInv'
<1>1. GraphInv'
  BY GraphKept DEF FilterInv, FillGraph, RouterNext
<1>2. /\ variant' = variant /\ variant = NoVariant /\ hash' = hash /\ subs' = subs
      /\ id' = id /\ bloom' = bloom /\ lists' = lists /\ duplicates' = duplicates
  BY DEF FillGraph, filterVars
<1>3. Stored = {} /\ Stored' = {} /\ \A p \in Sub : duplicates'[p] = {}
  BY <1>2, NothingStored DEF Stored
<1>4. FilterTypes' /\ ListsExact'
  BY <1>2 DEF FilterInv, FilterTypes, ListsExact, Stored, BelongsTo
<1>5. ContainmentInv'
  BY <1>2, PreFilterAssumption
     DEF ContainmentInv, UsesContainment, AllNoContainment, AllContainmentN, AllContainmentNP
<1>6. StoredInv'
  BY <1>2, <1>3 DEF FilterInv, StoredInv
<1> QED
  BY <1>1, <1>4, <1>5, <1>6 DEF FilterInv

LEMMA MakeKeeps ==
    ASSUME FilterInv, MakePreFilter
    PROVE  FilterInv'
<1>1. GraphInv' /\ HasGraph' = HasGraph
  BY GraphKept DEF FilterInv, MakePreFilter, graphVars, vars, structure, HasGraph
<1>2. /\ variant = NoVariant /\ subs' = subs /\ id' = id /\ bloom' = bloom
      /\ lists' = lists /\ duplicates' = duplicates
      /\ variant' \in AllNoContainment .. AllContainmentNP
      /\ HasGraph \/ variant' \notin {AllContainmentN, AllContainmentNP}
      /\ hash' \in [Value -> SUBSET Bits]
  BY DEF MakePreFilter
<1>3. Stored = {} /\ Stored' = {} /\ \A p \in Sub : duplicates'[p] = {}
  BY <1>2, NothingStored DEF Stored
<1>4. FilterTypes' /\ ListsExact'
  BY <1>2 DEF FilterInv, FilterTypes, ListsExact, Stored, BelongsTo
<1>5. ContainmentInv'
  BY <1>1, <1>2, NothingStored, EmptyList DEF ContainmentInv, UsesContainment
<1>6. StoredInv'
  BY <1>2, <1>3 DEF FilterInv, StoredInv
<1> QED
  BY <1>1, <1>4, <1>5, <1>6 DEF FilterInv

\* The bits drawn for a subscription are bits of the values it wants.
LEMMA BloomsIs ==
    ASSUME hash \in [Value -> SUBSET Bits], NEW s \in Sub, NEW bf \in Blooms(s)
    PROVE  bf \subseteq Bits /\ bf \subseteq UNION {hash[p[2]] : p \in EqualValues[s]}
<1>1. \A p \in EqualValues[s] : p[2] \in Value /\ hash[p[2]] \subseteq Bits
  BY PreFilterAssumption
<1>2. bf \subseteq UNION {hash[p[2]] : p \in EqualValues[s]}
  BY DEF Blooms
<1> QED
  BY <1>1, <1>2

LEMMA AddKeeps ==
    ASSUME FilterInv, NEW s \in Sub, AddToFilter(s)
    PROVE  FilterInv'
<1>1. GraphInv' /\ HasGraph' = HasGraph /\ attr' = attr
  BY GraphKept DEF FilterInv, AddToFilter, graphVars, vars, structure, HasGraph
<1>2. /\ variant' = variant /\ variant # NoVariant /\ hash' = hash
      /\ subs' = Append(subs, s) /\ id' = [id EXCEPT ![s] = Len(subs)]
      /\ s \notin Stored /\ (HasGraph => attr[s] # NoNode)
      /\ duplicates' = [p \in Sub |->
            duplicates[p] \cup {x \in {s} : HasGraph /\ attr[s] = p /\ p # s}]
  BY DEF AddToFilter
<1>3. PICK bf \in Blooms(s) :
        /\ bloom' = [bloom EXCEPT ![s] = bf]
        /\ lists' = [b \in ListNumbers |->
              IF b \in bf \/ (b = Default /\ bf = {}) THEN Listed(lists[b], s) ELSE lists[b]]
  BY DEF AddToFilter, ListNumbers
<1>4. FilterTypes /\ ListsExact /\ ContainmentInv /\ StoredInv
  BY DEF FilterInv
<1>5. bf \subseteq Bits /\ bf \subseteq UNION {hash[p[2]] : p \in EqualValues[s]}
  BY <1>4, BloomsIs DEF FilterTypes
<1>6. Stored' = Stored \cup {s} /\ subs' \in Seq(Sub) /\ IsInjective(subs')
  <2>1. subs \in Seq(Sub) /\ IsInjective(subs) /\ s \notin ToSet(subs) /\ Len(subs) + 1 \in 1 .. Len(subs) + 1
    BY <1>2, <1>4 DEF FilterTypes, Stored
  <2>2. Append(subs, s) \in Seq(Sub) /\ IsInserted(Append(subs, s), subs, Len(subs) + 1, s)
    BY <2>1, AppendIs
  <2>3. ToSet(Append(subs, s)) = ToSet(subs) \cup {s} /\ IsInjective(Append(subs, s))
    BY <2>1, <2>2, InsertedKeeps
  <2> QED
    BY <1>2, <2>2, <2>3 DEF Stored
<1>7. bloom'[s] = bf /\ \A t \in Sub : t # s => bloom'[t] = bloom[t]
  BY <1>3, <1>4 DEF FilterTypes
<1>8. Stored \subseteq Sub
  BY <1>4 DEF FilterTypes, Stored, ToSet
<1>9. ASSUME NEW b \in ListNumbers
      PROVE  /\ lists'[b] \in Seq(Sub) /\ IsInjective(lists'[b])
             /\ ToSet(lists'[b]) = {t \in Stored' : BelongsTo(t, b)'}
             /\ UsesContainment => Ordered(lists'[b])
  <2>1. /\ lists[b] \in Seq(Sub) /\ IsInjective(lists[b])
        /\ ToSet(lists[b]) = {t \in Stored : BelongsTo(t, b)}
        /\ UsesContainment => Ordered(lists[b])
    BY <1>4 DEF FilterTypes, ListsExact, ContainmentInv
  <2>2. \A t \in Stored : BelongsTo(t, b)' <=> BelongsTo(t, b)
    BY <1>2, <1>7, <1>8 DEF BelongsTo
  <2>3. BelongsTo(s, b)' <=> b \in bf \/ (b = Default /\ bf = {})
    BY <1>7 DEF BelongsTo
  <2>4. CASE BelongsTo(s, b)'
    <3>1. lists'[b] = Listed(lists[b], s)
      BY <1>3, <2>3, <2>4
    <3>2. s \notin ToSet(lists[b])
      BY <1>2, <2>1
    <3>3. Listed(lists[b], s) \in Seq(Sub)
      BY <2>1, ListedIs
    <3>4. PICK p \in 1 .. Len(lists[b]) + 1 : IsInserted(Listed(lists[b], s), lists[b], p, s)
      BY <2>1, ListedIs
    <3>5. ToSet(lists'[b]) = ToSet(lists[b]) \cup {s} /\ IsInjective(lists'[b])
      BY <2>1, <3>1, <3>2, <3>3, <3>4, InsertedKeeps
    <3>6. UsesContainment => Ordered(lists'[b])
      BY <2>1, <3>1, ListedOrdered
    <3> QED
      BY <1>6, <2>1, <2>2, <2>4, <3>1, <3>3, <3>5, <3>6
  <2>5. CASE ~BelongsTo(s, b)'
    <3>1. lists'[b] = lists[b]
      BY <1>3, <2>3, <2>5
    <3> QED
      BY <1>6, <2>1, <2>2, <2>5, <3>1
  <2> QED
    BY <2>4, <2>5
<1>10. FilterTypes'
  <2>1. id' \in [Sub -> Nat] /\ bloom' \in [Sub -> SUBSET Bits] /\ duplicates' \in [Sub -> SUBSET Sub]
    BY <1>2, <1>3, <1>4, <1>5 DEF FilterTypes
  <2>2. DOMAIN lists' = ListNumbers
    BY <1>3
  <2> QED
    BY <1>2, <1>4, <1>6, <1>9, <2>1, <2>2 DEF FilterTypes, ListNumbers
<1>11. ListsExact'
  BY <1>9 DEF ListsExact, ListNumbers
<1>12. ContainmentInv'
  BY <1>1, <1>2, <1>4, <1>9 DEF ContainmentInv, UsesContainment, ListNumbers
<1>13. StoredInv'
  <2>1. HasGraph' => Stored' \subseteq Live'
    BY <1>1, <1>2, <1>4, <1>6 DEF StoredInv, Live
  <2>2. \A p \in Sub : duplicates'[p] = {t \in Stored' : HasGraph' /\ attr'[t] = p /\ t # p}
    BY <1>1, <1>2, <1>4, <1>6 DEF StoredInv
  <2>3. \A t \in Stored' : bloom'[t] \subseteq UNION {hash'[p[2]] : p \in EqualValues[t]}
    <3>1. \A t \in Stored : bloom[t] \subseteq UNION {hash[p[2]] : p \in EqualValues[t]}
      BY <1>4 DEF StoredInv
    <3>2. \A t \in Stored' : t = s \/ (t \in Stored /\ t \in Sub /\ t # s)
      BY <1>2, <1>6, <1>8
    <3>3. hash' = hash
      BY <1>2
    <3>4. ASSUME NEW t \in Stored'
          PROVE  bloom'[t] \subseteq UNION {hash[p[2]] : p \in EqualValues[t]}
      <4>1. CASE t = s
        BY <1>5, <1>7, <4>1
      <4>2. CASE t # s
        <5>1. t \in Stored /\ bloom'[t] = bloom[t]
          BY <1>7, <3>2, <4>2
        <5> QED
          BY <3>1, <5>1
      <4> QED
        BY <4>1, <4>2
    <3> QED
      BY <3>3, <3>4
  <2> QED
    BY <1>2, <2>1, <2>2, <2>3 DEF StoredInv
<1> QED
  BY <1>1, <1>10, <1>11, <1>12, <1>13 DEF FilterInv

LEMMA RemoveKeeps ==
    ASSUME FilterInv, NEW s \in Sub, RemoveFromFilter(s)
    PROVE  FilterInv'
<1>1. GraphInv' /\ HasGraph' = HasGraph /\ attr' = attr
  BY GraphKept DEF FilterInv, RemoveFromFilter, graphVars, vars, structure, HasGraph
<1>2. /\ variant' = variant /\ hash' = hash /\ id' = id /\ bloom' = bloom
      /\ duplicates' = duplicates /\ ~HasGraph /\ s \in Stored
      /\ subs' = RemoveFirst(subs, s)
      /\ lists' = [b \in ListNumbers |-> RemoveFirst(lists[b], s)]
  BY DEF RemoveFromFilter, ListNumbers
<1>3. FilterTypes /\ ListsExact /\ ContainmentInv /\ StoredInv
  BY DEF FilterInv
<1>4. Stored' = Stored \ {s} /\ subs' \in Seq(Sub) /\ IsInjective(subs')
  BY <1>2, <1>3, RemoveFirstIs DEF FilterTypes, Stored
<1>5. ASSUME NEW b \in ListNumbers
      PROVE  /\ lists'[b] \in Seq(Sub) /\ IsInjective(lists'[b])
             /\ ToSet(lists'[b]) = {t \in Stored' : BelongsTo(t, b)'}
  <2>1. /\ lists[b] \in Seq(Sub) /\ IsInjective(lists[b])
        /\ ToSet(lists[b]) = {t \in Stored : BelongsTo(t, b)}
    BY <1>3 DEF FilterTypes, ListsExact
  <2>2. \A t : BelongsTo(t, b)' <=> BelongsTo(t, b)
    BY <1>2 DEF BelongsTo
  <2>3. lists'[b] = RemoveFirst(lists[b], s)
    BY <1>2
  <2>4. ToSet(lists'[b]) = ToSet(lists[b]) \ {s}
    BY <2>1, <2>3, RemoveFirstIs
  <2> QED
    BY <1>4, <2>1, <2>2, <2>3, <2>4, RemoveFirstIs
<1>6. FilterTypes'
  BY <1>2, <1>3, <1>4, <1>5 DEF FilterTypes, ListNumbers
<1>7. ListsExact'
  BY <1>5 DEF ListsExact, ListNumbers
<1>8. ContainmentInv'
  BY <1>2, <1>3 DEF ContainmentInv, UsesContainment
<1>9. StoredInv'
  <2>1. variant' # NoVariant
    <3>1. Stored # {}
      BY <1>2
    <3> QED
      BY <1>2, <3>1, NothingStored
  <2> QED
    BY <1>1, <1>2, <1>3, <1>4, <2>1 DEF StoredInv
<1> QED
  BY <1>1, <1>6, <1>7, <1>8, <1>9 DEF FilterInv

LEMMA FilterStep == FilterInv /\ [PreFilterNext]_preVars => FilterInv'
<1> SUFFICES ASSUME FilterInv, [PreFilterNext]_preVars
             PROVE  FilterInv'
  OBVIOUS
<1>1. CASE /\ UNCHANGED graphVars
           /\ UNCHANGED <<variant, hash, subs, id, bloom, lists, duplicates>>
  <2>1. GraphInv' /\ HasGraph' = HasGraph /\ Live' = Live /\ attr' = attr /\ Stored' = Stored
    BY <1>1, GraphKept DEF FilterInv, graphVars, vars, structure, HasGraph, Live, Stored
  <2> QED
    BY <1>1, <2>1
       DEF FilterInv, FilterTypes, ListsExact, ContainmentInv, StoredInv, BelongsTo, UsesContainment
<1> QED
  BY <1>1, FillGraphKeeps, MakeKeeps, AddKeeps, RemoveKeeps
     DEF PreFilterNext, FilterMatch, preVars, filterVars

LEMMA FilterAlways == PreFilterSpec => []FilterInv
BY FilterInitial, FilterStep, PTL DEF PreFilterSpec

\* With containment, every list has the containers before their containees, in
\* whatever order the subscriptions arrive.
THEOREM ContainersAlwaysFirst == PreFilterSpec => []ContainersFirst
<1>1. FilterInv => ContainersFirst
  <2> SUFFICES ASSUME FilterInv, UsesContainment, NEW b \in DOMAIN lists,
                      NEW i \in DOMAIN lists[b], NEW j \in DOMAIN lists[b],
                      StrictlyCovers(lists[b][i], lists[b][j])
               PROVE  i < j
    BY DEF ContainersFirst
  <2>1. lists[b] \in Seq(Sub) /\ Ordered(lists[b])
    BY DEF FilterInv, FilterTypes, ContainmentInv
  <2> QED
    BY <2>1 DEF Ordered
<1> QED
  BY <1>1, FilterAlways, PTL

-----------------------------------------------------------------------------
(* Folding a sequence.  FoldLeft is a recursive function on the sets of    *)
(* positions, which takes the last position away at a time.                *)

LEMMA LastPosition ==
    ASSUME NEW n \in Nat, NEW T \in SUBSET (1 .. n), T # {}
    PROVE  Max(T) \in T /\ \A i \in T : i <= Max(T)
<1> DEFINE J == {n - i : i \in T}
<1>1. J \in SUBSET Nat /\ J # {}
  <2>1. \A i \in T : n - i \in Nat
    OBVIOUS
  <2> QED
    BY <2>1
<1> HIDE DEF J
<1>2. PICK m \in J : \A j \in J : m <= j
  BY <1>1, MinOfNumbers
<1>3. PICK x \in T : m = n - x
  BY DEF J
<1>4. ASSUME NEW y \in T
      PROVE  x >= y
  <2>1. n - y \in J
    BY DEF J
  <2>2. n - x <= n - y /\ x \in Int /\ y \in Int
    BY <1>2, <1>3, <2>1
  <2> QED
    BY <2>2
<1>5. \E z \in T : \A y \in T : z >= y
  BY <1>4
<1> QED
  BY <1>5 DEF Max

LEMMA PositionsFinite ==
    ASSUME NEW n \in Nat, NEW T \in SUBSET (1 .. n)
    PROVE  IsFiniteSet(T) /\ Cardinality(T) \in Nat /\ Cardinality(T) <= n
<1>1. IsFiniteSet(1 .. n) /\ Cardinality(1 .. n) = n
  <2>1. Cardinality(1 .. n) = IF 1 > n THEN 0 ELSE n - 1 + 1
    BY FS_Interval
  <2> QED
    BY <2>1, FS_Interval
<1> QED
  BY <1>1, FS_Subset, FS_CardinalityType

\* f[T] is the scan of the positions T of w, for each T in D.
IsScan(f, e, bits, base, w, D) ==
    f = [T \in D |-> IF T = {} THEN base
                     ELSE Visit(e, bits, f[T \ {Max(T)}], w[Max(T)])]

LEMMA ScanDefined ==
    ASSUME NEW e, NEW bits, NEW base, NEW w, NEW n \in Nat
    PROVE  \E f : IsScan(f, e, bits, base, w, SUBSET (1 .. n))
<1> DEFINE Small(m) == {T \in SUBSET (1 .. n) : Cardinality(T) <= m}
           M == {m \in Nat : \E f : IsScan(f, e, bits, base, w, Small(m))}
<1>1. \A T \in SUBSET (1 .. n) : IsFiniteSet(T) /\ Cardinality(T) \in Nat /\ Cardinality(T) <= n
  BY PositionsFinite
<1>2. 0 \in M
  <2>1. \A T \in Small(0) : T = {}
    BY <1>1, FS_EmptySet
  <2> DEFINE f == [T \in Small(0) |-> base]
  <2> HIDE DEF Small
  <2>2. IsScan(f, e, bits, base, w, Small(0))
    BY <2>1 DEF IsScan
  <2> QED
    BY <2>2
<1>3. ASSUME NEW m \in Nat, m \in M
      PROVE  m + 1 \in M
  <2>1. PICK f : IsScan(f, e, bits, base, w, Small(m))
    BY <1>3
  <2> DEFINE Next1(T, g) == IF T = {} THEN base ELSE Visit(e, bits, g[T \ {Max(T)}], w[Max(T)])
             h == [T \in Small(m + 1) |-> Next1(T, f)]
  <2>2. ASSUME NEW T \in Small(m + 1), T # {}
        PROVE  T \ {Max(T)} \in Small(m)
    <3>1. /\ T \in SUBSET (1 .. n) /\ Cardinality(T) \in Nat /\ Cardinality(T) <= m + 1
          /\ IsFiniteSet(T) /\ Max(T) \in T
      BY <1>1, <2>2, LastPosition
    <3> DEFINE U == T \ {Max(T)}
    <3>2. Cardinality(U) = Cardinality(T) - 1 /\ U \in SUBSET (1 .. n)
      BY <3>1, FS_RemoveElement
    <3> HIDE DEF U
    <3>3. Cardinality(U) <= m
      BY <3>1, <3>2
    <3> QED
      BY <3>2, <3>3 DEF U
  <2>3. \A T \in Small(m) : T \in Small(m + 1)
    BY <1>1
  <2> HIDE DEF Small
  <2>4. \A T \in Small(m) : f[T] = Next1(T, f)
    BY <2>1 DEF IsScan
  <2>5. \A T \in Small(m) : h[T] = f[T]
    BY <2>3, <2>4
  <2>6. \A T \in Small(m + 1) : h[T] = Next1(T, h)
    BY <2>2, <2>5
  <2>7. h = [T \in Small(m + 1) |-> h[T]]
    OBVIOUS
  <2> HIDE DEF h
  <2>8. IsScan(h, e, bits, base, w, Small(m + 1))
    BY <2>6, <2>7 DEF IsScan
  <2> QED
    BY <2>8
<1> HIDE DEF M
<1>4. n \in M
  BY <1>2, <1>3, NatSetInduction
<1>5. Small(n) = SUBSET (1 .. n)
  BY <1>1
<1> QED
  BY <1>4, <1>5 DEF M

ScanOf(e, bits, base, w) ==
    FoldLeft(LAMBDA scan, s : Visit(e, bits, scan, s), base, w)

\* What holds before the first entry of a walk, and after the visit of an entry
\* when it held before, holds after the last one.
LEMMA ScanInduction ==
    ASSUME NEW S, NEW w \in Seq(S), NEW e, NEW bits, NEW base, NEW G, base \in G[0],
           \A k \in 1 .. Len(w) : \A scan \in G[k - 1] : Visit(e, bits, scan, w[k]) \in G[k]
    PROVE  ScanOf(e, bits, base, w) \in G[Len(w)]
<1> DEFINE n == Len(w)
           Is(f) == IsScan(f, e, bits, base, w, SUBSET (1 .. n))
           fold == CHOOSE f : Is(f)
<1>1. n \in Nat /\ DOMAIN w = 1 .. n
  OBVIOUS
<1>2. Is(fold)
  BY <1>1, ScanDefined
<1>3. ScanOf(e, bits, base, w) = fold[1 .. n]
  <2>1. ScanOf(e, bits, base, w) =
          (CHOOSE f : IsScan(f, e, bits, base, w, SUBSET (DOMAIN w)))[DOMAIN w]
    BY Zenon DEF ScanOf, FoldLeft, MapThenFoldSet, IsScan
  <2> QED
    BY <1>1, <2>1
<1> HIDE DEF fold
<1> DEFINE M == {k \in Nat : k <= n => fold[1 .. k] \in G[k]}
<1>4. 0 \in M
  <2>1. 1 .. 0 = {} /\ {} \in SUBSET (1 .. n)
    OBVIOUS
  <2>2. fold[{}] = base
    BY <1>2, <2>1 DEF IsScan
  <2> QED
    BY <2>1, <2>2
<1>5. ASSUME NEW k \in Nat, k \in M, k + 1 <= n
      PROVE  fold[1 .. k + 1] \in G[k + 1]
  <2> DEFINE T == 1 .. k + 1
  <2>1. T \in SUBSET (1 .. n) /\ T # {} /\ k + 1 \in T /\ \A i \in T : i \in Nat /\ i <= k + 1
    <3>1. \A i \in T : i \in Nat /\ i >= 1 /\ i <= k + 1 /\ i <= n
      BY <1>1, <1>5
    <3>2. k + 1 \in T
      BY <1>5
    <3> HIDE DEF T, n
    <3> QED
      BY <1>1, <3>1, <3>2
  <2>2. Max(T) \in T /\ \A i \in T : i <= Max(T)
    BY <1>1, <2>1, LastPosition
  <2>3. Max(T) = k + 1
    BY <2>1, <2>2
  <2>4. T \ {k + 1} = 1 .. k
    BY <1>5
  <2>5. fold[T] = Visit(e, bits, fold[T \ {Max(T)}], w[Max(T)])
    BY <1>2, <2>1 DEF IsScan
  <2>6. fold[T] = Visit(e, bits, fold[1 .. k], w[k + 1])
    BY <2>3, <2>4, <2>5
  <2>7. fold[1 .. k] \in G[k] /\ k + 1 \in 1 .. Len(w) /\ (k + 1) - 1 = k
    BY <1>1, <1>5
  <2> QED
    BY <2>6, <2>7
<1>6. ASSUME NEW k \in Nat, k \in M
      PROVE  k + 1 \in M
  BY <1>5, <1>6
<1> HIDE DEF M
<1>7. n \in M
  BY <1>1, <1>4, <1>6, NatSetInduction
<1> QED
  BY <1>1, <1>3, <1>7 DEF M

-----------------------------------------------------------------------------
(* The walk of a publication.                                              *)

\* t[i] is the first i sequences of seqs in a row.
IsFlat(t, seqs, D) == t = [i \in D |-> IF i = 1 THEN seqs[i] ELSE t[i - 1] \o seqs[i]]

LEMMA FlatDefined ==
    ASSUME NEW seqs, NEW n \in Nat
    PROVE  \E t : IsFlat(t, seqs, 1 .. n)
<1> DEFINE M == {m \in Nat : \E t : IsFlat(t, seqs, 1 .. m)}
<1>1. 0 \in M
  <2>1. 1 .. 0 = {}
    OBVIOUS
  <2>2. IsFlat([i \in {} |-> <<>>], seqs, 1 .. 0)
    BY <2>1 DEF IsFlat
  <2> QED
    BY <2>2
<1>2. ASSUME NEW m \in Nat, m \in M
      PROVE  m + 1 \in M
  <2>1. PICK t : IsFlat(t, seqs, 1 .. m)
    BY <1>2
  <2> DEFINE Row(g, i) == IF i = 1 THEN seqs[i] ELSE g[i - 1] \o seqs[i]
             h == [i \in 1 .. m + 1 |-> Row(t, i)]
  <2>2. \A i \in 1 .. m : t[i] = Row(t, i) /\ i \in 1 .. m + 1
    <3>1. \A i \in 1 .. m : t[i] = Row(t, i)
      BY <2>1 DEF IsFlat
    <3>2. \A i \in 1 .. m : i \in 1 .. m + 1
      OBVIOUS
    <3> QED
      BY <3>1, <3>2
  <2>3. \A i \in 1 .. m : h[i] = t[i]
    BY <2>2
  <2>4. \A i \in 1 .. m + 1 : i # 1 => i - 1 \in 1 .. m
    OBVIOUS
  <2>5. \A i \in 1 .. m + 1 : h[i] = Row(h, i)
    BY <2>3, <2>4
  <2>6. h = [i \in 1 .. m + 1 |-> h[i]]
    OBVIOUS
  <2> HIDE DEF h
  <2>7. IsFlat(h, seqs, 1 .. m + 1)
    BY <2>5, <2>6 DEF IsFlat
  <2> QED
    BY <2>7
<1> HIDE DEF M
<1>3. n \in M
  BY <1>1, <1>2, NatSetInduction
<1> QED
  BY <1>3 DEF M

LEMMA JoinedSet ==
    ASSUME NEW S, NEW a \in Seq(S), NEW b \in Seq(S)
    PROVE  ToSet(a \o b) = ToSet(a) \cup ToSet(b)
<1> DEFINE c == a \o b
<1>1. /\ c \in Seq(S) /\ Len(c) = Len(a) + Len(b)
      /\ \A i \in 1 .. Len(a) : c[i] = a[i]
      /\ \A i \in Len(a) + 1 .. Len(a) + Len(b) : c[i] = b[i - Len(a)]
  BY JoinedIs
<1> HIDE DEF c
<1>2. /\ DOMAIN a = 1 .. Len(a) /\ DOMAIN b = 1 .. Len(b) /\ DOMAIN c = 1 .. Len(c)
      /\ Len(a) \in Nat /\ Len(b) \in Nat
  BY <1>1
<1>3. ASSUME NEW x \in ToSet(c)
      PROVE  x \in ToSet(a) \cup ToSet(b)
  <2>1. PICK i \in 1 .. Len(c) : c[i] = x
    BY <1>2 DEF ToSet
  <2>2. CASE i <= Len(a)
    <3>1. i \in 1 .. Len(a)
      BY <1>2, <2>2
    <3> QED
      BY <1>1, <1>2, <2>1, <3>1 DEF ToSet
  <2>3. CASE i > Len(a)
    <3>1. i \in Len(a) + 1 .. Len(a) + Len(b) /\ i - Len(a) \in 1 .. Len(b)
      BY <1>1, <1>2, <2>3
    <3> QED
      BY <1>1, <1>2, <2>1, <3>1 DEF ToSet
  <2> QED
    BY <1>2, <2>2, <2>3
<1>4. ASSUME NEW x \in ToSet(a)
      PROVE  x \in ToSet(c)
  <2>1. PICK i \in 1 .. Len(a) : a[i] = x
    BY <1>2 DEF ToSet
  <2>2. i \in 1 .. Len(c) /\ c[i] = x
    BY <1>1, <1>2, <2>1
  <2> QED
    BY <1>2, <2>2 DEF ToSet
<1>5. ASSUME NEW x \in ToSet(b)
      PROVE  x \in ToSet(c)
  <2>1. PICK i \in 1 .. Len(b) : b[i] = x
    BY <1>2 DEF ToSet
  <2>2. i + Len(a) \in 1 .. Len(c) /\ i + Len(a) \in Len(a) + 1 .. Len(a) + Len(b) /\ (i + Len(a)) - Len(a) = i
    BY <1>1, <1>2, <2>1
  <2>3. c[i + Len(a)] = x
    BY <1>1, <2>1, <2>2
  <2> QED
    BY <1>2, <2>2, <2>3 DEF ToSet
<1> QED
  BY <1>3, <1>4, <1>5 DEF c

\* A row of sequences, flattened, has the elements of each.
LEMMA FlattenIs ==
    ASSUME NEW S, NEW n \in Nat \ {0}, NEW seqs \in [1 .. n -> Seq(S)]
    PROVE  /\ FlattenSeq(seqs) \in Seq(S)
           /\ ToSet(FlattenSeq(seqs)) = UNION {ToSet(seqs[i]) : i \in 1 .. n}
<1> DEFINE Is(t) == IsFlat(t, seqs, 1 .. n)
           flat == CHOOSE t : Is(t)
<1>1. Is(flat)
  BY FlatDefined
<1>2. Len(seqs) = n
  OBVIOUS
<1>3. FlattenSeq(seqs) = flat[n]
  <2>1. FlattenSeq(seqs) = IF Len(seqs) = 0 THEN seqs
                           ELSE (CHOOSE t : IsFlat(t, seqs, 1 .. Len(seqs)))[Len(seqs)]
    BY Zenon DEF FlattenSeq, IsFlat
  <2> QED
    BY <1>2, <2>1
<1> HIDE DEF flat
<1> DEFINE M == {m \in Nat : m < n =>
                    /\ flat[m + 1] \in Seq(S)
                    /\ ToSet(flat[m + 1]) = UNION {ToSet(seqs[i]) : i \in 1 .. m + 1}}
<1>4. \A i \in 1 .. n : flat[i] = IF i = 1 THEN seqs[i] ELSE flat[i - 1] \o seqs[i]
  BY <1>1 DEF IsFlat
<1>5. 0 \in M
  <2>1. 0 + 1 = 1 /\ 1 \in 1 .. n /\ flat[1] = seqs[1] /\ seqs[1] \in Seq(S)
    BY <1>4
  <2>2. \A i \in 1 .. 1 : i = 1
    OBVIOUS
  <2>3. UNION {ToSet(seqs[i]) : i \in 1 .. 1} = ToSet(seqs[1])
    BY <2>2
  <2> QED
    BY <2>1, <2>3
<1>6. ASSUME NEW m \in Nat, m \in M, m + 1 < n
      PROVE  /\ flat[m + 2] \in Seq(S)
             /\ ToSet(flat[m + 2]) = UNION {ToSet(seqs[i]) : i \in 1 .. m + 2}
  <2>1. flat[m + 1] \in Seq(S) /\ ToSet(flat[m + 1]) = UNION {ToSet(seqs[i]) : i \in 1 .. m + 1}
    BY <1>6
  <2>2. m + 2 \in 1 .. n /\ m + 2 # 1 /\ (m + 2) - 1 = m + 1
    BY <1>6
  <2>3. flat[m + 2] = flat[m + 1] \o seqs[m + 2] /\ seqs[m + 2] \in Seq(S)
    BY <1>4, <2>2
  <2>4. ToSet(flat[m + 2]) = ToSet(flat[m + 1]) \cup ToSet(seqs[m + 2])
    BY <2>1, <2>3, JoinedSet
  <2>5. flat[m + 2] \in Seq(S)
    BY <2>1, <2>3
  <2>6. \A i : i \in 1 .. m + 2 <=> i \in 1 .. m + 1 \/ i = m + 2
    OBVIOUS
  <2> DEFINE A == UNION {ToSet(seqs[i]) : i \in 1 .. m + 1}
             B == UNION {ToSet(seqs[i]) : i \in 1 .. m + 2}
  <2>7. B = A \cup ToSet(seqs[m + 2])
    <3>1. \A x : x \in B <=> \E i \in 1 .. m + 2 : x \in ToSet(seqs[i])
      OBVIOUS
    <3>2. \A x : x \in A <=> \E i \in 1 .. m + 1 : x \in ToSet(seqs[i])
      OBVIOUS
    <3> HIDE DEF A, B
    <3> QED
      BY <2>6, <3>1, <3>2
  <2>8. ToSet(flat[m + 1]) = A
    BY <2>1
  <2> HIDE DEF A, B
  <2>9. ToSet(flat[m + 2]) = B
    BY <2>4, <2>7, <2>8
  <2> QED
    BY <2>5, <2>9 DEF B
<1>7. ASSUME NEW m \in Nat, m \in M
      PROVE  m + 1 \in M
  <2>1. (m + 1) + 1 = m + 2 /\ m + 1 \in Nat
    OBVIOUS
  <2> QED
    BY <1>6, <1>7, <2>1
<1> HIDE DEF M
<1>8. n - 1 \in M /\ n - 1 < n /\ (n - 1) + 1 = n
  <2>1. n - 1 \in Nat /\ n - 1 < n /\ (n - 1) + 1 = n
    OBVIOUS
  <2>2. Nat \subseteq M
    BY <1>5, <1>7, NatSetInduction
  <2> QED
    BY <2>1, <2>2
<1> QED
  BY <1>3, <1>8 DEF M

\* The walk: what has one of the bits, and then the default list.
LEMMA WalkIs ==
    ASSUME FilterInv, NEW bits \in SUBSET Bits
    PROVE  \E front \in Seq(Sub) :
              /\ Walk(bits) = front \o lists[Default]
              /\ ToSet(front) = {s \in Stored : bloom[s] \cap bits # {}}
<1> DEFINE blocks == [i \in 1 .. NbBits |-> IF i - 1 \in bits THEN lists[i - 1] ELSE <<>>]
           front == FlattenSeq(blocks)
<1>1. NbBits \in Nat \ {0} /\ Bits = 0 .. NbBits - 1 /\ Default = NbBits
  BY PreFilterAssumption DEF Bits, Default
<1>2. \A b \in Bits : /\ b \in ListNumbers /\ b # Default
                      /\ lists[b] \in Seq(Sub) /\ ToSet(lists[b]) = {s \in Stored : b \in bloom[s]}
  BY <1>1 DEF FilterInv, FilterTypes, ListsExact, ListNumbers, BelongsTo
<1>3. \A i \in 1 .. NbBits : i - 1 \in Bits
  BY <1>1
<1>4. blocks \in [1 .. NbBits -> Seq(Sub)]
  BY <1>2, <1>3, EmptyList
<1>5. front \in Seq(Sub) /\ ToSet(front) = UNION {ToSet(blocks[i]) : i \in 1 .. NbBits}
  <2> HIDE DEF blocks
  <2> QED
    BY <1>1, <1>4, FlattenIs
<1>6. ASSUME NEW s \in ToSet(front)
      PROVE  s \in Stored /\ bloom[s] \cap bits # {}
  <2>1. PICK i \in 1 .. NbBits : s \in ToSet(blocks[i])
    BY <1>5
  <2>2. i - 1 \in bits /\ s \in ToSet(lists[i - 1])
    BY <2>1, EmptyList
  <2> QED
    BY <1>2, <1>3, <2>2
<1>7. ASSUME NEW s \in Stored, bloom[s] \cap bits # {}
      PROVE  s \in ToSet(front)
  <2>1. PICK b \in bits : b \in bloom[s]
    BY <1>7
  <2>2. b \in Bits /\ b + 1 \in 1 .. NbBits /\ (b + 1) - 1 = b
    BY <1>1
  <2>3. blocks[b + 1] = lists[b] /\ s \in ToSet(lists[b])
    BY <1>2, <2>1, <2>2
  <2> QED
    BY <1>5, <2>2, <2>3
<1>8. Walk(bits) = front \o lists[Default]
  BY DEF Walk
<1> HIDE DEF front
<1>9. ToSet(front) = {s \in Stored : bloom[s] \cap bits # {}}
  BY <1>6, <1>7
<1> QED
  BY <1>5, <1>8, <1>9

-----------------------------------------------------------------------------
(* One visit.                                                              *)

\* What is in the graph is in the prefilter: the condition of a publication.
AllAdded == HasGraph => {s \in Sub : attr[s] # NoNode} \subseteq Stored

\* The subscription that answers for s, and what its answer counts for.
Primary(s) == IF HasGraph THEN attr[s] ELSE s
Weight(p) == IF HasGraph THEN count[attr[p]] ELSE 1

Meets(s, e) == <<s, e>> \in Matching
MarkedIn(scan, s) == id[s] \in scan.marks

Scans == [marks : SUBSET Nat, pushed : [Sub -> Nat]]

LEMMA PrimaryFacts ==
    ASSUME FilterInv, AllAdded
    PROVE  /\ Stored \subseteq Sub
           /\ \A s \in Stored :
                 /\ Primary(s) \in Stored /\ Primary(Primary(s)) = Primary(s)
                 /\ Covers(s, Primary(s)) /\ Covers(Primary(s), s)
                 /\ ClassOf(s) = {t \in Stored : Primary(t) = Primary(s)}
                 /\ Weight(s) = Cardinality(ClassOf(s)) /\ Weight(s) \in Nat
                 /\ IsFiniteSet(ClassOf(s))
                 /\ Primary(s) = s => {s} \cup duplicates[s] = ClassOf(s)
           /\ HasGraph => /\ nodes \subseteq Stored
                          /\ \A n \in nodes : Primary(n) = n
                          /\ \A s \in Stored : attr[s] \in nodes
           /\ ~HasGraph => \A s \in Stored : duplicates[s] = {}
<1>1. /\ TypeOK /\ Shape /\ AttrExact /\ CountsExact /\ EntriesExact
      /\ FilterTypes /\ StoredInv /\ nodes \subseteq Sub
  BY LinksFacts DEF FilterInv, GraphInv, CountInv, RouterInv, ShapeInv, TypeInv
<1>2. Stored \subseteq Sub
  BY <1>1 DEF FilterTypes, Stored, ToSet
<1>3. CASE ~HasGraph
  <2>1. \A s \in Stored : duplicates[s] = {}
    BY <1>1, <1>2, <1>3 DEF StoredInv
  <2>2. \A s \in Stored : Primary(s) = s /\ ClassOf(s) = {s} /\ Weight(s) = 1
    BY <1>3 DEF Primary, ClassOf, Weight
  <2>3. \A s \in Stored : Cardinality({s}) = 1 /\ IsFiniteSet({s})
    BY FS_Singleton
  <2>4. \A s \in Stored : Covers(s, s)
    BY <1>2, CoveringIsPreorder
  <2> QED
    BY <1>2, <1>3, <2>1, <2>2, <2>3, <2>4
<1>4. CASE HasGraph
  <2>1. Stored = Live
    BY <1>1, <1>2, <1>4 DEF StoredInv, AllAdded, Live
  <2>2. \A s \in Stored : attr[s] \in nodes /\ Covers(s, attr[s]) /\ Covers(attr[s], s)
    BY <1>1, <2>1 DEF AttrExact, EquivalentSubs
  <2>3. \A n \in nodes : attr[n] = n /\ n \in Stored
    BY <1>1, <2>1, GraphAssumption DEF EntriesExact, Live
  <2>4. \A s \in Stored : Primary(s) = attr[s] /\ ClassOf(s) = {t \in Stored : attr[t] = attr[s]}
    BY <1>4 DEF Primary, ClassOf
  <2>5. ASSUME NEW s \in Stored
        PROVE  /\ Weight(s) = Cardinality(ClassOf(s)) /\ Weight(s) \in Nat
               /\ IsFiniteSet(ClassOf(s))
    <3>1. ClassOf(s) = {t \in Live : attr[t] = attr[s]} /\ ClassOf(s) = Class(attr[s])
      BY <2>1, <2>4 DEF Class
    <3>2. count[attr[s]] = Cardinality(ClassOf(s))
      BY <1>1, <2>2, <3>1 DEF CountsExact
    <3>3. IsFiniteSet(ClassOf(s))
      BY <3>1, ClassesFinite
    <3> QED
      BY <1>4, <3>2, <3>3, FS_CardinalityType DEF Weight
  <2>6. ASSUME NEW s \in Stored, Primary(s) = s
        PROVE  {s} \cup duplicates[s] = ClassOf(s)
    <3>1. duplicates[s] = {t \in Stored : attr[t] = s /\ t # s}
      BY <1>1, <1>2, <1>4 DEF StoredInv
    <3>2. attr[s] = s
      BY <1>4, <2>6 DEF Primary
    <3> QED
      BY <2>4, <3>1, <3>2
  <2> QED
    BY <1>2, <1>4, <2>2, <2>3, <2>4, <2>5, <2>6
<1> QED
  BY <1>3, <1>4

\* The nodes that acceptance and refusal go to: unmarked ones, above or below.
LEMMA UnmarkedIs ==
    ASSUME FilterInv, AllAdded, NEW s \in Stored, NEW marks
    PROVE  /\ \A a \in Unmarked(s, containers, marks) :
                 HasGraph /\ a \in nodes /\ id[a] \notin marks /\ StrictlyCovers(a, Primary(s))
           /\ \A b \in Unmarked(s, containees, marks) :
                 HasGraph /\ b \in nodes /\ id[b] \notin marks /\ StrictlyCovers(Primary(s), b)
<1>1. /\ TypeOK /\ Shape /\ nodes \subseteq Sub
      /\ \A a, b \in Sub : b \in containees[a] =>
            a \in nodes /\ b \in nodes /\ StrictlyCovers(a, b)
      /\ \A a, b \in Sub : a \in containers[b] =>
            a \in nodes /\ b \in nodes /\ StrictlyCovers(a, b)
      /\ \A a \in Sub : containees[a] \subseteq nodes /\ containers[a] \subseteq nodes
  <2>1. TypeOK /\ Shape
    BY DEF FilterInv, GraphInv, CountInv, ShapeInv, TypeInv
  <2> QED
    BY <2>1, LinksFacts
<1>2. CASE ~HasGraph
  BY <1>2 DEF Unmarked
<1>3. CASE HasGraph
  <2>1. attr[s] \in nodes /\ attr[s] \in Sub /\ Primary(s) = attr[s]
    BY <1>1, <1>3, PrimaryFacts DEF Primary
  <2> DEFINE p == attr[s]
  <2>2. ASSUME NEW a \in Unmarked(s, containers, marks)
        PROVE  a \in nodes /\ id[a] \notin marks /\ StrictlyCovers(a, p)
    <3> DEFINE open == [n \in Sub |-> {m \in containers[n] : id[m] \notin marks}]
               X == {n \in nodes : id[n] \notin marks /\ StrictlyCovers(n, p)}
    <3>1. Unmarked(s, containers, marks) = Reachable(open[p], open)
      BY <1>3 DEF Unmarked
    <3>2. X \in SUBSET Sub /\ \A n \in Sub : open[n] = {m \in containers[n] : id[m] \notin marks}
      BY <1>1
    <3> HIDE DEF open
    <3>3. open[p] \subseteq X
      BY <1>1, <2>1, <3>2
    <3>4. ASSUME NEW x \in X, NEW y \in open[x]
          PROVE  y \in X
      <4>1. y \in nodes /\ y \in Sub /\ x \in Sub /\ id[y] \notin marks /\ StrictlyCovers(y, x)
        BY <1>1, <3>2
      <4> QED
        BY <2>1, <4>1, StrictTransitive DEF StrictlyCovers
    <3> HIDE DEF X
    <3>5. Reachable(open[p], open) \subseteq X
      BY <3>2, <3>3, <3>4, ReachLeast
    <3> QED
      BY <3>1, <3>5 DEF X
  <2>3. ASSUME NEW b \in Unmarked(s, containees, marks)
        PROVE  b \in nodes /\ id[b] \notin marks /\ StrictlyCovers(p, b)
    <3> DEFINE open == [n \in Sub |-> {m \in containees[n] : id[m] \notin marks}]
               X == {n \in nodes : id[n] \notin marks /\ StrictlyCovers(p, n)}
    <3>1. Unmarked(s, containees, marks) = Reachable(open[p], open)
      BY <1>3 DEF Unmarked
    <3>2. X \in SUBSET Sub /\ \A n \in Sub : open[n] = {m \in containees[n] : id[m] \notin marks}
      BY <1>1
    <3> HIDE DEF open
    <3>3. open[p] \subseteq X
      BY <1>1, <2>1, <3>2
    <3>4. ASSUME NEW x \in X, NEW y \in open[x]
          PROVE  y \in X
      <4>1. y \in nodes /\ y \in Sub /\ x \in Sub /\ id[y] \notin marks /\ StrictlyCovers(x, y)
        BY <1>1, <3>2
      <4> QED
        BY <2>1, <4>1, StrictTransitive DEF StrictlyCovers
    <3> HIDE DEF X
    <3>5. Reachable(open[p], open) \subseteq X
      BY <3>2, <3>3, <3>4, ReachLeast
    <3> QED
      BY <3>1, <3>5 DEF X
  <2> QED
    BY <1>3, <2>1, <2>2, <2>3
<1> QED
  BY <1>2, <1>3

\* The parts of a visit of s.
Accepted(e, bits, s) == bloom[s] \subseteq bits /\ Meets(s, e)
Skipped(scan, s) == MarkedIn(scan, s) \/ (bloom[s] # {} /\ Primary(s) # s)
AboveNow(e, bits, scan, s) ==
    IF Accepted(e, bits, s) /\ variant = AllContainmentNP
    THEN Unmarked(s, containers, scan.marks \cup {id[s]}) ELSE {}
BelowNow(e, bits, scan, s) ==
    IF ~Accepted(e, bits, s) /\ UsesContainment
    THEN Unmarked(s, containees, scan.marks \cup {id[s]}) ELSE {}
Whole(e, bits, scan, s) ==
    AboveNow(e, bits, scan, s) \cup {x \in {s} : Accepted(e, bits, s) /\ bloom[s] # {}}
MarkedNow(e, bits, scan, s) ==
    scan.marks \cup {id[s]}
        \cup {id[t] : t \in AboveNow(e, bits, scan, s) \cup BelowNow(e, bits, scan, s)}
        \cup {id[d] : d \in UNION {duplicates[t] : t \in Whole(e, bits, scan, s)}}
Counted(e, bits, scan, s, t) ==
    IF t = s /\ Accepted(e, bits, s) /\ bloom[s] = {} THEN 1
    ELSE IF t \in Whole(e, bits, scan, s) THEN Weight(t) ELSE 0

LEMMA VisitIs ==
    ASSUME NEW e, NEW bits, NEW scan \in Scans, NEW s
    PROVE  Visit(e, bits, scan, s) =
             IF Skipped(scan, s) THEN [scan EXCEPT !.marks = scan.marks \cup {id[s]}]
             ELSE [marks |-> MarkedNow(e, bits, scan, s),
                   pushed |-> [t \in Sub |-> scan.pushed[t] + Counted(e, bits, scan, s, t)]]
<1> DEFINE alone == {x \in {s} : Accepted(e, bits, s) /\ bloom[s] = {}}
           Adds(t) == IF t \in alone THEN 1
                      ELSE IF t \notin Whole(e, bits, scan, s) THEN 0
                      ELSE IF HasGraph THEN count[attr[t]] ELSE 1
<1>1. Skipped(scan, s) <=> id[s] \in scan.marks \/ (bloom[s] # {} /\ HasGraph /\ attr[s] # s)
  BY DEF Skipped, MarkedIn, Primary
<1>2. Visit(e, bits, scan, s) =
        IF id[s] \in scan.marks \/ (bloom[s] # {} /\ HasGraph /\ attr[s] # s)
        THEN [scan EXCEPT !.marks = scan.marks \cup {id[s]}]
        ELSE [marks |-> MarkedNow(e, bits, scan, s),
              pushed |-> [t \in Sub |-> scan.pushed[t] + Adds(t)]]
  BY Zenon DEF Visit, MarkedNow, Whole, AboveNow, BelowNow, Accepted, Meets
<1>3. \A t : Adds(t) = Counted(e, bits, scan, s, t)
  <2>1. \A t : t \in alone <=> t = s /\ Accepted(e, bits, s) /\ bloom[s] = {}
    OBVIOUS
  <2> HIDE DEF alone
  <2> QED
    BY <2>1 DEF Counted, Weight
<1> HIDE DEF Adds
<1> QED
  BY <1>1, <1>2, <1>3

LEMMA PartsStored ==
    ASSUME FilterInv, AllAdded, NEW e, NEW bits, NEW scan \in Scans, NEW s \in Stored
    PROVE  /\ AboveNow(e, bits, scan, s) \subseteq Stored
           /\ BelowNow(e, bits, scan, s) \subseteq Stored
           /\ Whole(e, bits, scan, s) \subseteq Stored
           /\ MarkedNow(e, bits, scan, s) \in SUBSET Nat
           /\ \A t \in Sub : Counted(e, bits, scan, s, t) \in Nat
<1>1. AboveNow(e, bits, scan, s) \subseteq Stored /\ BelowNow(e, bits, scan, s) \subseteq Stored
  BY UnmarkedIs, PrimaryFacts DEF AboveNow, BelowNow
<1>2. Whole(e, bits, scan, s) \subseteq Stored
  BY <1>1 DEF Whole
<1>3. id \in [Sub -> Nat] /\ duplicates \in [Sub -> SUBSET Sub] /\ Stored \subseteq Sub
  BY PrimaryFacts DEF FilterInv, FilterTypes
<1>4. scan.marks \in SUBSET Nat
  BY DEF Scans
<1>5. MarkedNow(e, bits, scan, s) \in SUBSET Nat
  <2> SUFFICES ASSUME NEW m \in MarkedNow(e, bits, scan, s)
               PROVE  m \in Nat
    OBVIOUS
  <2>1. \/ m \in scan.marks \/ m = id[s]
        \/ \E t \in AboveNow(e, bits, scan, s) \cup BelowNow(e, bits, scan, s) : m = id[t]
        \/ \E t \in Whole(e, bits, scan, s) : \E d \in duplicates[t] : m = id[d]
    BY DEF MarkedNow
  <2> QED
    BY <1>1, <1>2, <1>3, <1>4, <2>1
<1>6. \A t \in Sub : Counted(e, bits, scan, s, t) \in Nat
  BY <1>2, PrimaryFacts DEF Counted
<1> QED
  BY <1>1, <1>2, <1>5, <1>6

LEMMA VisitTyped ==
    ASSUME FilterInv, AllAdded, NEW e, NEW bits, NEW scan \in Scans, NEW s \in Stored
    PROVE  Visit(e, bits, scan, s) \in Scans
<1>1. scan.marks \in SUBSET Nat /\ scan.pushed \in [Sub -> Nat] /\ id[s] \in Nat
  BY PrimaryFacts DEF Scans, FilterInv, FilterTypes
<1>2. CASE Skipped(scan, s)
  <2>1. Visit(e, bits, scan, s) = [scan EXCEPT !.marks = scan.marks \cup {id[s]}]
    BY <1>2, VisitIs
  <2> QED
    BY <1>1, <2>1 DEF Scans
<1>3. CASE ~Skipped(scan, s)
  <2> DEFINE p == [t \in Sub |-> scan.pushed[t] + Counted(e, bits, scan, s, t)]
  <2>1. Visit(e, bits, scan, s) = [marks |-> MarkedNow(e, bits, scan, s), pushed |-> p]
    BY <1>3, VisitIs
  <2>2. p \in [Sub -> Nat]
    BY <1>1, PartsStored
  <2> HIDE DEF p
  <2>3. MarkedNow(e, bits, scan, s) \in SUBSET Nat
    BY PartsStored
  <2> QED
    BY <2>1, <2>2, <2>3 DEF Scans
<1> QED
  BY <1>2, <1>3

-----------------------------------------------------------------------------
(* A publication.                                                          *)

EventBits(e) == UNION {hash[v] : v \in EventValues[e]}
FirstScan(garbage) == [marks |-> garbage, pushed |-> NoResult.pushed]

LEMMA EventBitsIs ==
    ASSUME FilterInv, NEW e \in Event
    PROVE  /\ EventBits(e) \in SUBSET Bits
           /\ \A s \in Stored : Meets(s, e) => bloom[s] \subseteq EventBits(e)
<1>1. hash \in [Value -> SUBSET Bits] /\ EventValues[e] \subseteq Value
  BY PreFilterAssumption DEF FilterInv, FilterTypes
<1>2. ASSUME NEW s \in Stored, Meets(s, e)
      PROVE  bloom[s] \subseteq EventBits(e)
  <2>1. s \in Sub
    BY DEF FilterInv, FilterTypes, Stored, ToSet
  <2>2. bloom[s] \subseteq UNION {hash[p[2]] : p \in EqualValues[s]}
    BY DEF FilterInv, StoredInv
  <2>3. \A p \in EqualValues[s] : p[2] \in EventValues[e]
    BY <1>2, <2>1, EqualityMeansSame DEF Meets
  <2> QED
    BY <2>2, <2>3 DEF EventBits
<1> QED
  BY <1>1, <1>2 DEF EventBits

\* A publication scans its walk, from marks that are garbage.
LEMMA MatchIs ==
    ASSUME FilterInv, NEW e \in Event, FilterMatch(e)
    PROVE  /\ AllAdded /\ result'.event = {e}
           /\ UNCHANGED <<graphVars, variant, hash, subs, id, bloom, lists, duplicates>>
           /\ \E garbage \in SUBSET ({id[s] : s \in Stored} \ (0 .. Len(subs) - 1)) :
                 result'.pushed = ScanOf(e, EventBits(e), FirstScan(garbage), Walk(EventBits(e))).pushed
<1>1. /\ HasGraph => {s \in Sub : attr[s] # NoNode} \subseteq Stored
      /\ UNCHANGED <<graphVars, variant, hash, subs, id, bloom, lists, duplicates>>
      /\ \E garbage \in SUBSET ({id[s] : s \in Stored} \ (0 .. Len(subs) - 1)) :
            result' = [event |-> {e},
                       pushed |-> ScanOf(e, EventBits(e), FirstScan(garbage), Walk(EventBits(e))).pushed]
  BY Zenon DEF FilterMatch, EventBits, ScanOf, FirstScan
<1>2. PICK garbage \in SUBSET ({id[s] : s \in Stored} \ (0 .. Len(subs) - 1)) :
            result' = [event |-> {e},
                       pushed |-> ScanOf(e, EventBits(e), FirstScan(garbage), Walk(EventBits(e))).pushed]
  BY <1>1
<1> DEFINE p == ScanOf(e, EventBits(e), FirstScan(garbage), Walk(EventBits(e))).pushed
<1> HIDE DEF p
<1>3. result'.event = {e} /\ result'.pushed = p
  BY <1>2 DEF p
<1> QED
  BY <1>1, <1>3 DEF AllAdded, p

\* The entries of a walk are stored.
LEMMA WalkStored ==
    ASSUME FilterInv, NEW e \in Event
    PROVE  Walk(EventBits(e)) \in Seq(Stored)
<1>1. PICK front \in Seq(Sub) :
         /\ Walk(EventBits(e)) = front \o lists[Default]
         /\ ToSet(front) = {s \in Stored : bloom[s] \cap EventBits(e) # {}}
  BY EventBitsIs, WalkIs
<1>2. lists[Default] \in Seq(Sub) /\ ToSet(lists[Default]) \subseteq Stored
  BY DEF FilterInv, FilterTypes, ListsExact, ListNumbers
<1>3. \A q \in Seq(Sub) : ToSet(q) \subseteq Stored => q \in Seq(Stored)
  <2> SUFFICES ASSUME NEW q \in Seq(Sub), ToSet(q) \subseteq Stored
               PROVE  q \in Seq(Stored)
    OBVIOUS
  <2>1. Len(q) \in Nat /\ DOMAIN q = 1 .. Len(q) /\ q = [i \in 1 .. Len(q) |-> q[i]]
    OBVIOUS
  <2>2. \A i \in 1 .. Len(q) : q[i] \in Stored
    BY <2>1 DEF ToSet
  <2> QED
    BY <2>1, <2>2
<1> QED
  BY <1>1, <1>2, <1>3

LEMMA ResultTyped ==
    ASSUME FilterInv, NEW e \in Event, FilterMatch(e)
    PROVE  result'.pushed \in [Sub -> Nat]
<1>1. PICK garbage \in SUBSET ({id[s] : s \in Stored} \ (0 .. Len(subs) - 1)) :
         result'.pushed = ScanOf(e, EventBits(e), FirstScan(garbage), Walk(EventBits(e))).pushed
  BY MatchIs
<1> DEFINE bits == EventBits(e)
           w == Walk(bits)
           base == FirstScan(garbage)
           G == [k \in 0 .. Len(w) |-> Scans]
<1>2. AllAdded /\ w \in Seq(Stored)
  BY MatchIs, WalkStored
<1>3. base \in Scans
  <2>1. \A s \in Stored : id[s] \in Nat
    BY DEF FilterInv, FilterTypes, Stored, ToSet
  <2>2. garbage \in SUBSET Nat
    BY <2>1
  <2> QED
    BY <2>2 DEF FirstScan, NoResult, Scans
<1> HIDE DEF base, w, bits
<1>4. ASSUME NEW k \in 1 .. Len(w), NEW scan \in G[k - 1]
      PROVE  Visit(e, bits, scan, w[k]) \in G[k]
  <2>1. scan \in Scans /\ w[k] \in Stored /\ k \in 0 .. Len(w)
    BY <1>2
  <2> QED
    BY <1>2, <2>1, VisitTyped
<1>5. base \in G[0] /\ Len(w) \in 0 .. Len(w)
  BY <1>2, <1>3
<1> HIDE DEF G
<1>6. ScanOf(e, bits, base, w) \in G[Len(w)]
  BY <1>2, <1>4, <1>5, ScanInduction
<1>7. ScanOf(e, bits, base, w) \in Scans
  BY <1>5, <1>6 DEF G
<1> QED
  BY <1>1, <1>7 DEF Scans, base, w, bits

\* The state of the prefilter is well typed, and a subscription is listed once
\* under each of its bits, or once in the default list, and nowhere else.
THEOREM FilterTypesCorrect == PreFilterSpec => []FilterTypeOK
<1> DEFINE ResultInv == result.pushed \in [Sub -> Nat]
<1>1. PreFilterInit => ResultInv
  BY DEF PreFilterInit, NoResult
<1>2. FilterInv /\ ResultInv /\ [PreFilterNext]_preVars => ResultInv'
  <2> SUFFICES ASSUME FilterInv, ResultInv, [PreFilterNext]_preVars
               PROVE  ResultInv'
    OBVIOUS
  <2>1. CASE result' = result
    BY <2>1
  <2>2. CASE result' = NoResult
    BY <2>2 DEF NoResult
  <2>3. ASSUME NEW e \in Event, FilterMatch(e)
        PROVE  ResultInv'
    BY <2>3, ResultTyped
  <2> QED
    BY <2>1, <2>2, <2>3
       DEF PreFilterNext, FillGraph, MakePreFilter, AddToFilter, RemoveFromFilter,
           preVars, filterVars
<1>3. FilterInv /\ ResultInv => FilterTypeOK
  <2> SUFFICES ASSUME FilterInv, ResultInv
               PROVE  FilterTypeOK
    OBVIOUS
  <2>1. Stored \subseteq Sub
    BY DEF FilterInv, FilterTypes, Stored, ToSet
  <2> QED
    BY <2>1 DEF FilterInv, FilterTypes, ListsExact, BelongsTo, FilterTypeOK
<1> QED
  BY <1>1, <1>2, <1>3, FilterAlways, PTL DEF PreFilterSpec

-----------------------------------------------------------------------------
(* What is pushed, when the ids are sound.                                 *)

LEMMA MeetsUp ==
    ASSUME NEW s \in Sub, NEW t \in Sub, NEW e \in Event, Covers(s, t), Meets(t, e)
    PROVE  Meets(s, e)
BY CoveringIsSound DEF Meets

\* s is tested, accepted, and counts for itself only.
Alone1(e, scan, s) == Meets(s, e) /\ bloom[s] = {} /\ ~MarkedIn(scan, s)

\* A visit of s makes `whole` answer for their classes and marks them, and
\* marks s and `aside`, which do not match.
Effect(e, scan, s, new, whole, aside) ==
    /\ \A t \in Stored :
          MarkedIn(new, t) <=> MarkedIn(scan, t) \/ t = s \/ t \in aside \/ Primary(t) \in whole
    /\ \A t \in Stored :
          new.pushed[t] = scan.pushed[t] + IF Alone1(e, scan, s) /\ t = s THEN 1
                                           ELSE IF t \in whole THEN Weight(t) ELSE 0
    /\ \A b \in aside : ~Meets(b, e)
    /\ \A a \in whole :
          /\ Primary(a) = a /\ Meets(a, e) /\ ~MarkedIn(scan, a)
          /\ \/ a = s /\ bloom[s] # {}
             \/ UsesContainment /\ StrictlyCovers(a, Primary(s))
    /\ Primary(s) = s /\ bloom[s] # {} /\ Meets(s, e) /\ ~MarkedIn(scan, s) => s \in whole

LEMMA VisitEffect ==
    ASSUME FilterInv, AllAdded, IdsSound, NEW e \in Event, NEW scan \in Scans, NEW s \in Stored
    PROVE  \E whole, aside \in SUBSET Stored :
              Effect(e, scan, s, Visit(e, EventBits(e), scan, s), whole, aside)
<1> DEFINE bits == EventBits(e)
           new == Visit(e, bits, scan, s)
<1>1. Accepted(e, bits, s) <=> Meets(s, e)
  BY EventBitsIs DEF Accepted
<1>2. \A t, u \in Stored : id[t] = id[u] => t = u
  BY DEF IdsSound
<1>3. scan.marks \in SUBSET Nat /\ scan.pushed \in [Sub -> Nat] /\ Stored \subseteq Sub
  BY PrimaryFacts DEF Scans
<1> HIDE DEF bits
<1>4. CASE Skipped(scan, s)
  <2>1. new = [scan EXCEPT !.marks = scan.marks \cup {id[s]}]
    BY <1>4, VisitIs
  <2>2. new.marks = scan.marks \cup {id[s]} /\ new.pushed = scan.pushed
    BY <2>1 DEF Scans
  <2> HIDE DEF new
  <2>3. \A t \in Stored : MarkedIn(new, t) <=> MarkedIn(scan, t) \/ t = s
    BY <1>2, <2>2 DEF MarkedIn
  <2>4. ~Alone1(e, scan, s) /\ ~(Primary(s) = s /\ bloom[s] # {} /\ Meets(s, e) /\ ~MarkedIn(scan, s))
    BY <1>4 DEF Skipped, Alone1
  <2>5. \A t \in Stored : new.pushed[t] = scan.pushed[t] + 0
    BY <1>3, <2>2
  <2>6. Effect(e, scan, s, new, {}, {})
    BY <2>3, <2>4, <2>5 DEF Effect
  <2> QED
    BY <2>6 DEF new, bits
<1>5. CASE ~Skipped(scan, s)
  <2> DEFINE whole == Whole(e, bits, scan, s)
             above == AboveNow(e, bits, scan, s)
             below == BelowNow(e, bits, scan, s)
  <2>1. /\ new.marks = MarkedNow(e, bits, scan, s)
        /\ \A t \in Sub : new.pushed[t] = scan.pushed[t] + Counted(e, bits, scan, s, t)
    <3> DEFINE p == [t \in Sub |-> scan.pushed[t] + Counted(e, bits, scan, s, t)]
    <3>1. new = [marks |-> MarkedNow(e, bits, scan, s), pushed |-> p]
      BY <1>5, VisitIs
    <3>2. \A t \in Sub : p[t] = scan.pushed[t] + Counted(e, bits, scan, s, t)
      OBVIOUS
    <3> HIDE DEF p, new
    <3>3. new.marks = MarkedNow(e, bits, scan, s) /\ new.pushed = p
      BY <3>1
    <3> QED
      BY <3>2, <3>3
  <2>2. above \subseteq Stored /\ below \subseteq Stored /\ whole \subseteq Stored
    BY PartsStored
  <2>3. /\ ~MarkedIn(scan, s) /\ (bloom[s] # {} => Primary(s) = s)
        /\ s \in Sub /\ Primary(s) \in Sub
        /\ Covers(s, Primary(s)) /\ Covers(Primary(s), s)
    BY <1>3, <1>5, PrimaryFacts DEF Skipped
  <2>4. Alone1(e, scan, s) <=> Accepted(e, bits, s) /\ bloom[s] = {}
    BY <1>1, <2>3 DEF Alone1
  <2>5. \A t \in Stored : new.pushed[t] = scan.pushed[t] +
           IF Alone1(e, scan, s) /\ t = s THEN 1 ELSE IF t \in whole THEN Weight(t) ELSE 0
    <3>1. \A t \in Stored : Counted(e, bits, scan, s, t) =
             IF Alone1(e, scan, s) /\ t = s THEN 1 ELSE IF t \in whole THEN Weight(t) ELSE 0
      BY <2>4 DEF Counted
    <3> QED
      BY <1>3, <2>1, <3>1
  <2> HIDE DEF new
  <2>6. \A a \in above :
          /\ HasGraph /\ a \in nodes /\ Primary(a) = a /\ Meets(a, e) /\ ~MarkedIn(scan, a)
          /\ UsesContainment /\ StrictlyCovers(a, Primary(s))
    <3> SUFFICES ASSUME NEW a \in above
                 PROVE  /\ HasGraph /\ a \in nodes /\ Primary(a) = a /\ Meets(a, e) /\ ~MarkedIn(scan, a)
                        /\ UsesContainment /\ StrictlyCovers(a, Primary(s))
      OBVIOUS
    <3>1. /\ Accepted(e, bits, s) /\ variant = AllContainmentNP
          /\ a \in Unmarked(s, containers, scan.marks \cup {id[s]})
      BY DEF AboveNow
    <3>2. /\ HasGraph /\ a \in nodes /\ id[a] \notin scan.marks \cup {id[s]}
          /\ StrictlyCovers(a, Primary(s))
      BY <3>1, UnmarkedIs
    <3>3. a \in Stored /\ Primary(a) = a
      BY <3>2, PrimaryFacts
    <3>4. Meets(Primary(s), e)
      BY <1>1, <2>3, <3>1, MeetsUp
    <3>5. Meets(a, e)
      BY <1>3, <2>3, <3>2, <3>3, <3>4, MeetsUp DEF StrictlyCovers
    <3> QED
      BY <3>1, <3>2, <3>3, <3>5 DEF MarkedIn, UsesContainment
  <2>7. \A b \in below : ~Meets(b, e)
    <3> SUFFICES ASSUME NEW b \in below, Meets(b, e)
                 PROVE  FALSE
      OBVIOUS
    <3>1. ~Accepted(e, bits, s) /\ b \in Unmarked(s, containees, scan.marks \cup {id[s]})
      BY DEF BelowNow
    <3>2. StrictlyCovers(Primary(s), b) /\ b \in Sub
      BY <1>3, <2>2, <3>1, UnmarkedIs
    <3>3. Meets(Primary(s), e)
      BY <2>3, <3>2, MeetsUp DEF StrictlyCovers
    <3>4. Meets(s, e)
      BY <2>3, <3>3, MeetsUp
    <3> QED
      BY <1>1, <3>1, <3>4
  <2>8. \A a \in whole :
          /\ Primary(a) = a /\ Meets(a, e) /\ ~MarkedIn(scan, a)
          /\ \/ a = s /\ bloom[s] # {}
             \/ UsesContainment /\ StrictlyCovers(a, Primary(s))
    <3>1. \A a \in whole : a \in above \/ (a = s /\ Accepted(e, bits, s) /\ bloom[s] # {})
      BY DEF Whole
    <3> HIDE DEF whole, above
    <3>2. ASSUME NEW a \in whole
          PROVE  /\ Primary(a) = a /\ Meets(a, e) /\ ~MarkedIn(scan, a)
                 /\ \/ a = s /\ bloom[s] # {}
                    \/ UsesContainment /\ StrictlyCovers(a, Primary(s))
      <4>1. CASE a \in above
        BY <2>6, <4>1
      <4>2. CASE a = s /\ Accepted(e, bits, s) /\ bloom[s] # {}
        <5>1. Primary(a) = a
          BY <2>3, <4>2
        <5>2. Meets(a, e)
          BY <1>1, <4>2
        <5>3. ~MarkedIn(scan, a)
          BY <2>3, <4>2
        <5> QED
          BY <4>2, <5>1, <5>2, <5>3
      <4> QED
        BY <3>1, <4>1, <4>2
    <3> QED
      BY Zenon, <3>2
  <2>9. \A t \in Stored : Primary(t) \in whole <=> \E a \in whole : t = a \/ t \in duplicates[a]
    <3>1. \A a \in whole : {a} \cup duplicates[a] = ClassOf(a) /\ ClassOf(a) = {t \in Stored : Primary(t) = a}
      BY <2>2, <2>8, PrimaryFacts
    <3> HIDE DEF whole
    <3> QED
      BY <3>1
  <2>10. \A a \in whole : duplicates[a] \subseteq Stored
    BY <1>3, <2>2 DEF FilterInv, StoredInv
  <2>11. \A t \in Stored :
           MarkedIn(new, t) <=> MarkedIn(scan, t) \/ t = s \/ t \in below \/ Primary(t) \in whole
    <3> SUFFICES ASSUME NEW t \in Stored
                 PROVE  MarkedIn(new, t) <=>
                          MarkedIn(scan, t) \/ t = s \/ t \in below \/ Primary(t) \in whole
      OBVIOUS
    <3>1. MarkedIn(new, t) <=>
            \/ MarkedIn(scan, t) \/ id[t] = id[s]
            \/ \E u \in above : id[t] = id[u]
            \/ \E u \in below : id[t] = id[u]
            \/ \E a \in whole : \E d \in duplicates[a] : id[t] = id[d]
      BY <2>1 DEF MarkedIn, MarkedNow
    <3> HIDE DEF above, below, whole
    <3>2. MarkedIn(new, t) <=>
            \/ MarkedIn(scan, t) \/ t = s \/ t \in above \/ t \in below
            \/ \E a \in whole : t \in duplicates[a]
      BY <1>2, <2>2, <2>10, <3>1
    <3>3. above \subseteq whole /\ whole \subseteq above \cup {s}
      BY DEF above, whole, Whole
    <3> QED
      BY <2>9, <3>2, <3>3
  <2>12. Primary(s) = s /\ bloom[s] # {} /\ Meets(s, e) /\ ~MarkedIn(scan, s) => s \in whole
    BY <1>1 DEF Whole
  <2> HIDE DEF whole, below
  <2>13. Effect(e, scan, s, new, whole, below)
    BY <2>5, <2>7, <2>8, <2>11, <2>12 DEF Effect
  <2> QED
    BY <2>2, <2>13 DEF new, bits
<1> QED
  BY <1>4, <1>5

\* What a scan may have done about a class with primary p that matches: all of
\* it counted at once; nothing, as long as only bits have been looked at; or,
\* in the default list, counted and marked those that have no bits.
CountedWhole(scan, p) ==
    /\ scan.pushed[p] = Weight(p)
    /\ \A t \in ClassOf(p) : MarkedIn(scan, t) /\ (t # p => scan.pushed[t] = 0)
Untouched(scan, p) ==
    \A t \in ClassOf(p) :
        scan.pushed[t] = 0 /\ (bloom[t] = {} \/ t = p => ~MarkedIn(scan, t))
CountedSingly(scan, p) ==
    /\ bloom[p] = {} \/ ~MarkedIn(scan, p)
    /\ \A t \in ClassOf(p) :
          scan.pushed[t] = IF bloom[t] = {} /\ MarkedIn(scan, t) THEN 1 ELSE 0

\* The primaries that match.
Answering(e) == {p \in Stored : Primary(p) = p /\ Meets(p, e)}

LEMMA SinglyIfUntouched ==
    ASSUME NEW scan, NEW p \in Stored, p \in ClassOf(p), Untouched(scan, p)
    PROVE  CountedSingly(scan, p)
BY DEF Untouched, CountedSingly

\* The classes of a primary, and what they say of an effect.
LEMMA ClassFacts ==
    ASSUME FilterInv, AllAdded, NEW e \in Event, NEW p \in Answering(e)
    PROVE  /\ p \in Stored /\ p \in ClassOf(p) /\ ClassOf(p) \subseteq Stored
           /\ Weight(p) \in Nat
           /\ \A t \in ClassOf(p) : Primary(t) = p /\ Meets(t, e)
           /\ \A t \in Stored : Primary(t) = p => t \in ClassOf(p)
<1>1. p \in Stored /\ Primary(p) = p /\ Meets(p, e) /\ Stored \subseteq Sub
  BY PrimaryFacts DEF Answering
<1>2. ClassOf(p) = {t \in Stored : Primary(t) = p} /\ Weight(p) \in Nat
  BY <1>1, PrimaryFacts
<1>3. \A t \in ClassOf(p) : Meets(t, e)
  BY <1>1, <1>2, PrimaryFacts, MeetsUp
<1> QED
  BY <1>1, <1>2, <1>3

\* Under a bit, an entry has no effect on a class that is not touched, or it
\* makes the primary count for all of it.
LEMMA FrontStep ==
    ASSUME FilterInv, AllAdded, NEW e \in Event, NEW scan \in Scans, NEW new \in Scans,
           NEW s \in Stored, bloom[s] # {}, NEW whole \in SUBSET Stored, NEW aside \in SUBSET Stored,
           Effect(e, scan, s, new, whole, aside), NEW p \in Answering(e),
           CountedWhole(scan, p) \/ Untouched(scan, p)
    PROVE  CountedWhole(new, p) \/ Untouched(new, p)
<1>1. /\ p \in Stored /\ p \in ClassOf(p) /\ ClassOf(p) \subseteq Stored /\ Weight(p) \in Nat
      /\ \A t \in ClassOf(p) : Primary(t) = p /\ Meets(t, e)
  BY ClassFacts
<1>2. Primary(p) = p /\ Stored \subseteq Sub /\ scan.pushed \in [Sub -> Nat]
  BY PrimaryFacts DEF Answering, Scans
<1>3. \A t \in ClassOf(p) :
        MarkedIn(new, t) <=> MarkedIn(scan, t) \/ t = s \/ p \in whole
  <2> SUFFICES ASSUME NEW t \in ClassOf(p)
               PROVE  MarkedIn(new, t) <=> MarkedIn(scan, t) \/ t = s \/ p \in whole
    OBVIOUS
  <2>1. t \in Stored /\ Primary(t) = p /\ t \notin aside
    BY <1>1 DEF Effect
  <2> QED
    BY <2>1 DEF Effect
<1>4. \A t \in ClassOf(p) :
        new.pushed[t] = scan.pushed[t] + IF t = p /\ p \in whole THEN Weight(p) ELSE 0
  <2> SUFFICES ASSUME NEW t \in ClassOf(p)
               PROVE  new.pushed[t] = scan.pushed[t] + IF t = p /\ p \in whole THEN Weight(p) ELSE 0
    OBVIOUS
  <2>1. t \in whole <=> t = p /\ p \in whole
    BY <1>1 DEF Effect
  <2>2. ~Alone1(e, scan, s)
    BY DEF Alone1
  <2>3. new.pushed[t] = scan.pushed[t] + IF t \in whole THEN Weight(t) ELSE 0
    BY <1>1, <2>2 DEF Effect
  <2> QED
    BY <2>1, <2>3
<1>5. \A t \in ClassOf(p) : scan.pushed[t] \in Nat
  BY <1>1, <1>2
<1>6. CASE p \in whole
  <2>1. ~MarkedIn(scan, p)
    BY <1>6 DEF Effect
  <2>2. Untouched(scan, p)
    BY <1>1, <2>1 DEF CountedWhole
  <2>3. CountedWhole(new, p)
    BY <1>1, <1>3, <1>4, <1>6, <2>2 DEF CountedWhole, Untouched
  <2> QED
    BY <2>3
<1>7. CASE p \notin whole
  <2>1. \A t \in ClassOf(p) : new.pushed[t] = scan.pushed[t]
    BY <1>4, <1>5, <1>7
  <2>2. CASE CountedWhole(scan, p)
    <3>1. CountedWhole(new, p)
      BY <1>1, <1>3, <2>1, <2>2 DEF CountedWhole
    <3> QED
      BY <3>1
  <2>3. CASE Untouched(scan, p)
    <3>1. p # s
      <4>1. SUFFICES ASSUME p = s
                     PROVE  FALSE
        OBVIOUS
      <4>2. ~MarkedIn(scan, s) /\ Primary(s) = s /\ Meets(s, e)
        BY <1>1, <1>2, <2>3, <4>1 DEF Untouched
      <4> QED
        BY <1>7, <4>1, <4>2 DEF Effect
    <3>2. Untouched(new, p)
      BY <1>3, <1>7, <2>1, <2>3, <3>1 DEF Untouched
    <3> QED
      BY <3>2
  <2> QED
    BY <2>2, <2>3
<1> QED
  BY <1>6, <1>7

\* In the default list, whatever covers the entry has been looked at already, so
\* that an entry counts for itself or not at all.
LEMMA DefaultStep ==
    ASSUME FilterInv, AllAdded, NEW e \in Event, NEW scan \in Scans, NEW new \in Scans,
           NEW s \in Stored, bloom[s] = {}, NEW whole \in SUBSET Stored, NEW aside \in SUBSET Stored,
           Effect(e, scan, s, new, whole, aside),
           UsesContainment => \A a \in Answering(e) : StrictlyCovers(a, Primary(s)) => MarkedIn(scan, a),
           NEW p \in Answering(e),
           CountedWhole(scan, p) \/ CountedSingly(scan, p)
    PROVE  CountedWhole(new, p) \/ CountedSingly(new, p)
<1>1. /\ p \in Stored /\ p \in ClassOf(p) /\ ClassOf(p) \subseteq Stored /\ Weight(p) \in Nat
      /\ \A t \in ClassOf(p) : Primary(t) = p /\ Meets(t, e)
  BY ClassFacts
<1>2. Primary(p) = p /\ Stored \subseteq Sub /\ scan.pushed \in [Sub -> Nat]
  BY PrimaryFacts DEF Answering, Scans
<1>3. whole = {}
  <2> SUFFICES ASSUME NEW a \in whole
               PROVE  FALSE
    OBVIOUS
  <2>1. /\ Primary(a) = a /\ Meets(a, e) /\ ~MarkedIn(scan, a)
        /\ UsesContainment /\ StrictlyCovers(a, Primary(s))
    BY DEF Effect
  <2>2. a \in Answering(e)
    BY <2>1 DEF Answering
  <2> QED
    BY <2>1, <2>2
<1>4. \A t \in ClassOf(p) :
        /\ MarkedIn(new, t) <=> MarkedIn(scan, t) \/ t = s
        /\ new.pushed[t] = scan.pushed[t] + IF ~MarkedIn(scan, s) /\ t = s THEN 1 ELSE 0
  <2> SUFFICES ASSUME NEW t \in ClassOf(p)
               PROVE  /\ MarkedIn(new, t) <=> MarkedIn(scan, t) \/ t = s
                      /\ new.pushed[t] = scan.pushed[t] + IF ~MarkedIn(scan, s) /\ t = s THEN 1 ELSE 0
    OBVIOUS
  <2>1. t \in Stored /\ Meets(t, e) /\ t \notin aside /\ t \notin whole /\ Primary(t) \notin whole
    BY <1>1, <1>3 DEF Effect
  <2>2. MarkedIn(new, t) <=> MarkedIn(scan, t) \/ t = s
    BY <2>1 DEF Effect
  <2>3. Alone1(e, scan, s) /\ t = s <=> ~MarkedIn(scan, s) /\ t = s
    BY <2>1 DEF Alone1
  <2>4. new.pushed[t] = scan.pushed[t] + IF Alone1(e, scan, s) /\ t = s THEN 1
                                         ELSE IF t \in whole THEN Weight(t) ELSE 0
    BY <2>1 DEF Effect
  <2>5. new.pushed[t] = scan.pushed[t] + IF ~MarkedIn(scan, s) /\ t = s THEN 1 ELSE 0
    BY <2>1, <2>3, <2>4
  <2> QED
    BY <2>2, <2>5
<1>5. \A t \in ClassOf(p) : scan.pushed[t] \in Nat
  BY <1>1, <1>2
<1>6. CASE CountedWhole(scan, p)
  <2>1. \A t \in ClassOf(p) : MarkedIn(scan, t)
    BY <1>6 DEF CountedWhole
  <2>2. \A t \in ClassOf(p) : MarkedIn(new, t) /\ new.pushed[t] = scan.pushed[t]
    BY <1>4, <1>5, <2>1
  <2>3. CountedWhole(new, p)
    BY <1>1, <1>6, <2>2 DEF CountedWhole
  <2> QED
    BY <2>3
<1>7. CASE CountedSingly(scan, p)
  <2>1. bloom[p] = {} \/ ~MarkedIn(new, p)
    BY <1>1, <1>4, <1>7 DEF CountedSingly
  <2>2. ASSUME NEW t \in ClassOf(p)
        PROVE  new.pushed[t] = IF bloom[t] = {} /\ MarkedIn(new, t) THEN 1 ELSE 0
    <3>1. scan.pushed[t] = IF bloom[t] = {} /\ MarkedIn(scan, t) THEN 1 ELSE 0
      BY <1>7 DEF CountedSingly
    <3>2. CASE t = s
      <4>1. MarkedIn(new, t) /\ bloom[t] = {}
        BY <1>4, <3>2
      <4>2. new.pushed[t] = 1
        BY <1>4, <3>1, <3>2
      <4> QED
        BY <4>1, <4>2
    <3>3. CASE t # s
      BY <1>4, <1>5, <3>1, <3>3
    <3> QED
      BY <3>2, <3>3
  <2>3. CountedSingly(new, p)
    BY <2>1, <2>2 DEF CountedSingly
  <2> QED
    BY <2>3
<1> QED
  BY <1>6, <1>7

\* After its walk, a publication has marked everything that matches, pushed
\* nothing else, and counted each class that matches in one of the two ways.
LEMMA ScanAnswers ==
    ASSUME FilterInv, AllAdded, IdsSound, NEW e \in Event, NEW last,
           last = ScanOf(e, EventBits(e), FirstScan({}), Walk(EventBits(e)))
    PROVE  /\ last \in Scans
           /\ \A s \in Stored : Meets(s, e) => MarkedIn(last, s)
           /\ \A s \in Stored : ~Meets(s, e) => last.pushed[s] = 0
           /\ \A p \in Answering(e) : CountedWhole(last, p) \/ CountedSingly(last, p)
<1> DEFINE bits == EventBits(e)
           w == Walk(bits)
           base == FirstScan({})
           default == lists[Default]
<1>1. PICK front \in Seq(Sub) :
         w = front \o default /\ ToSet(front) = {s \in Stored : bloom[s] \cap bits # {}}
  BY EventBitsIs, WalkIs
<1>2. /\ default \in Seq(Sub) /\ ToSet(default) = {s \in Stored : bloom[s] = {}}
      /\ UsesContainment => Ordered(default)
  <2>1. Default \in ListNumbers /\ Default \notin Bits /\ bloom \in [Sub -> SUBSET Bits] /\ Stored \subseteq Sub
    BY PrimaryFacts, PreFilterAssumption DEF ListNumbers, Bits, Default, FilterInv, FilterTypes
  <2>2. \A s \in Stored : BelongsTo(s, Default) <=> bloom[s] = {}
    BY <2>1 DEF BelongsTo
  <2> QED
    BY <2>1, <2>2 DEF FilterInv, FilterTypes, ListsExact, ContainmentInv
<1>3. w \in Seq(Stored)
  BY WalkStored
<1> DEFINE f == Len(front)
           n == Len(w)
<1>4. /\ n \in Nat /\ f \in Nat /\ Len(default) \in Nat /\ n = f + Len(default)
      /\ \A i \in 1 .. f : w[i] = front[i]
      /\ \A i \in f + 1 .. f + Len(default) : w[i] = default[i - f]
      /\ \A i \in 1 .. n : w[i] \in Stored
  <2>1. /\ Len(w) = Len(front) + Len(default)
        /\ \A i \in 1 .. Len(front) : w[i] = front[i]
        /\ \A i \in Len(front) + 1 .. Len(front) + Len(default) : w[i] = default[i - Len(front)]
    <3> HIDE DEF w, default
    <3> QED
      BY <1>1, <1>2, JoinedIs
  <2> HIDE DEF w, default
  <2> QED
    BY <1>1, <1>2, <1>3, <2>1
<1> HIDE DEF bits, w, base, default, f, n
<1>5. \A s \in Stored : bloom[s] \cap bits # {} => \E i \in 1 .. f : w[i] = s
  <2>1. DOMAIN front = 1 .. f
    BY DEF f
  <2> QED
    BY <1>1, <1>4, <2>1 DEF ToSet
<1>6. \A i \in 1 .. f : bloom[w[i]] # {}
  <2>1. DOMAIN front = 1 .. f
    BY DEF f
  <2> QED
    BY <1>1, <1>4, <2>1 DEF ToSet
<1>7. ASSUME NEW s \in Stored, bloom[s] = {}
      PROVE  \E i \in 1 .. Len(default) : default[i] = s /\ f + i \in 1 .. n /\ w[f + i] = s
  <2>1. DOMAIN default = 1 .. Len(default)
    BY <1>2
  <2>2. PICK i \in 1 .. Len(default) : default[i] = s
    BY <1>2, <1>7, <2>1 DEF ToSet
  <2>3. f + i \in f + 1 .. f + Len(default) /\ f + i \in 1 .. n /\ (f + i) - f = i
    BY <1>4
  <2> QED
    BY <1>4, <2>2, <2>3
<1>8. \A s \in Stored : Meets(s, e) => bloom[s] \subseteq bits
  BY EventBitsIs DEF bits
<1> DEFINE Good(k, scan) ==
             /\ \A i \in 1 .. k : MarkedIn(scan, w[i])
             /\ \A t \in Stored : ~Meets(t, e) => scan.pushed[t] = 0
             /\ \A p \in Answering(e) :
                   CountedWhole(scan, p) \/ (IF k <= f THEN Untouched(scan, p) ELSE CountedSingly(scan, p))
           G == [k \in 0 .. n |-> {scan \in Scans : Good(k, scan)}]
<1>9. base \in G[0]
  <2>1. base \in Scans /\ base.marks = {} /\ \A t \in Sub : base.pushed[t] = 0
    BY DEF base, FirstScan, NoResult, Scans
  <2>2. \A p \in Answering(e) : Untouched(base, p)
    <3> SUFFICES ASSUME NEW p \in Answering(e), NEW t \in ClassOf(p)
                 PROVE  base.pushed[t] = 0 /\ ~MarkedIn(base, t)
      BY DEF Untouched
    <3>1. t \in Sub
      BY ClassFacts, PrimaryFacts
    <3> QED
      BY <2>1, <3>1 DEF MarkedIn
  <2>3. \A t \in Stored : base.pushed[t] = 0
    BY <2>1, PrimaryFacts
  <2>4. Good(0, base)
    BY <1>4, <2>2, <2>3
  <2> HIDE DEF Good
  <2> QED
    BY <1>4, <2>1, <2>4
<1>10. ASSUME NEW k \in 1 .. n, NEW scan \in Scans, Good(k - 1, scan)
       PROVE  Visit(e, bits, scan, w[k]) \in Scans /\ Good(k, Visit(e, bits, scan, w[k]))
  <2> DEFINE s == w[k]
             new == Visit(e, bits, scan, s)
  <2>1. s \in Stored /\ k \in Int /\ k - 1 \in Nat
    BY <1>4
  <2>2. new \in Scans
    BY <2>1, VisitTyped
  <2>3. PICK whole \in SUBSET Stored, aside \in SUBSET Stored : Effect(e, scan, s, new, whole, aside)
    BY <2>1, VisitEffect DEF bits
  <2> HIDE DEF new
  <2>4. \A i \in 1 .. k : MarkedIn(new, w[i])
    <3> SUFFICES ASSUME NEW i \in 1 .. k
                 PROVE  MarkedIn(new, w[i])
      OBVIOUS
    <3>1. w[i] \in Stored
      BY <1>4
    <3>2. i = k \/ i \in 1 .. k - 1
      OBVIOUS
    <3>3. w[i] = s \/ MarkedIn(scan, w[i])
      BY <1>10, <3>2
    <3> HIDE DEF s
    <3> QED
      BY <2>3, <3>1, <3>3 DEF Effect
  <2>5. \A t \in Stored : ~Meets(t, e) => new.pushed[t] = 0
    <3> SUFFICES ASSUME NEW t \in Stored, ~Meets(t, e)
                 PROVE  new.pushed[t] = 0
      OBVIOUS
    <3> HIDE DEF s
    <3>1. t \notin whole
      BY <2>3 DEF Effect
    <3>2. Alone1(e, scan, s) => t # s
      BY DEF Alone1
    <3>3. new.pushed[t] = scan.pushed[t] + IF Alone1(e, scan, s) /\ t = s THEN 1
                                           ELSE IF t \in whole THEN Weight(t) ELSE 0
      BY <2>3 DEF Effect
    <3>4. scan.pushed[t] = 0
      BY <1>10
    <3> QED
      BY <3>1, <3>2, <3>3, <3>4
  <2>6. CASE k <= f
    <3>1. bloom[s] # {} /\ k - 1 <= f
      BY <1>4, <1>6, <2>1, <2>6
    <3>2. \A p \in Answering(e) : CountedWhole(scan, p) \/ Untouched(scan, p)
      BY <1>10, <3>1
    <3> HIDE DEF s
    <3>3. \A p \in Answering(e) : CountedWhole(new, p) \/ Untouched(new, p)
      BY <2>1, <2>2, <2>3, <3>1, <3>2, FrontStep
    <3>4. Good(k, new)
      BY <2>4, <2>5, <2>6, <3>3
    <3> QED
      BY <2>2, <3>4 DEF new, s
  <2>7. CASE k > f
    <3>1. k \in f + 1 .. f + Len(default) /\ k - f \in 1 .. Len(default) /\ s = default[k - f]
      BY <1>4, <2>1, <2>7
    <3>2. bloom[s] = {}
      BY <1>2, <3>1 DEF ToSet
    <3>3. \A p \in Answering(e) : CountedWhole(scan, p) \/ CountedSingly(scan, p)
      <4> SUFFICES ASSUME NEW p \in Answering(e)
                   PROVE  CountedWhole(scan, p) \/ CountedSingly(scan, p)
        OBVIOUS
      <4>1. p \in Stored /\ p \in ClassOf(p)
        BY ClassFacts
      <4>2. CountedWhole(scan, p) \/ Untouched(scan, p) \/ CountedSingly(scan, p)
        BY <1>10
      <4> QED
        BY <4>1, <4>2, SinglyIfUntouched
    <3>4. ASSUME UsesContainment, NEW a \in Answering(e), StrictlyCovers(a, Primary(s))
          PROVE  MarkedIn(scan, a)
      <4>1. a \in Stored /\ Meets(a, e) /\ a \in Sub
        BY PrimaryFacts DEF Answering
      <4>2. CASE bloom[a] # {}
        <5>1. bloom[a] \cap bits # {}
          BY <1>8, <4>1, <4>2
        <5>2. PICK i \in 1 .. f : w[i] = a
          BY <1>5, <4>1, <5>1
        <5>3. i \in 1 .. k - 1
          BY <1>4, <2>1, <2>7
        <5> QED
          BY <1>10, <5>2, <5>3
      <4>3. CASE bloom[a] = {}
        <5>1. PICK i \in 1 .. Len(default) : default[i] = a /\ f + i \in 1 .. n /\ w[f + i] = a
          BY <1>7, <4>1, <4>3
        <5>2. s \in Sub /\ Primary(s) \in Sub /\ Covers(Primary(s), s)
          BY <2>1, PrimaryFacts
        <5>3. StrictlyCovers(a, s)
          BY <3>4, <4>1, <5>2, StrictTransitive
        <5>4. i < k - f
          BY <1>2, <3>1, <3>4, <5>1, <5>3 DEF Ordered
        <5>5. f + i \in 1 .. k - 1
          BY <1>4, <2>1, <5>1, <5>4
        <5> QED
          BY <1>10, <5>1, <5>5
      <4> QED
        BY <4>2, <4>3
    <3> HIDE DEF s
    <3>5. \A p \in Answering(e) : CountedWhole(new, p) \/ CountedSingly(new, p)
      BY <2>1, <2>2, <2>3, <3>2, <3>3, <3>4, DefaultStep
    <3>6. Good(k, new)
      BY <1>4, <2>1, <2>4, <2>5, <2>7, <3>5
    <3> QED
      BY <2>2, <3>6 DEF new, s
  <2> QED
    BY <1>4, <2>1, <2>6, <2>7
<1> HIDE DEF Good
<1>11. \A k \in 1 .. Len(w) : \A scan \in G[k - 1] : Visit(e, bits, scan, w[k]) \in G[k]
  <2> SUFFICES ASSUME NEW k \in 1 .. Len(w), NEW scan \in G[k - 1]
               PROVE  Visit(e, bits, scan, w[k]) \in G[k]
    OBVIOUS
  <2>1. k \in 1 .. n /\ k \in 0 .. n /\ k - 1 \in 0 .. n
    BY <1>4 DEF n
  <2>2. scan \in Scans /\ Good(k - 1, scan)
    BY <2>1
  <2>3. Visit(e, bits, scan, w[k]) \in Scans /\ Good(k, Visit(e, bits, scan, w[k]))
    BY <1>10, <2>1, <2>2
  <2> QED
    BY <2>1, <2>3
<1>12. last \in Scans /\ Good(n, last)
  <2>1. last = ScanOf(e, bits, base, w)
    BY DEF bits, base, w
  <2>2. n \in 0 .. n /\ n = Len(w)
    BY <1>4 DEF n
  <2>3. G[n] = {scan \in Scans : Good(n, scan)}
    BY <2>2
  <2> HIDE DEF G
  <2>4. last \in G[n]
    BY <1>3, <1>9, <1>11, <2>1, <2>2, ScanInduction
  <2> QED
    BY <2>3, <2>4
<1>13. /\ \A i \in 1 .. n : MarkedIn(last, w[i])
       /\ \A t \in Stored : ~Meets(t, e) => last.pushed[t] = 0
       /\ \A p \in Answering(e) :
             CountedWhole(last, p) \/ (IF n <= f THEN Untouched(last, p) ELSE CountedSingly(last, p))
  BY <1>12 DEF Good
<1>14. ASSUME NEW s \in Stored, Meets(s, e)
       PROVE  MarkedIn(last, s)
  <2>1. CASE bloom[s] = {}
    BY <1>7, <1>13, <2>1
  <2>2. CASE bloom[s] # {}
    <3>1. PICK i \in 1 .. f : w[i] = s
      BY <1>5, <1>8, <1>14, <2>2
    <3>2. i \in 1 .. n
      BY <1>4
    <3> QED
      BY <1>13, <3>1, <3>2
  <2> QED
    BY <2>1, <2>2
<1>15. \A p \in Answering(e) : CountedWhole(last, p) \/ CountedSingly(last, p)
  <2> SUFFICES ASSUME NEW p \in Answering(e)
               PROVE  CountedWhole(last, p) \/ CountedSingly(last, p)
    OBVIOUS
  <2>1. p \in Stored /\ p \in ClassOf(p)
    BY ClassFacts
  <2>2. CountedWhole(last, p) \/ Untouched(last, p) \/ CountedSingly(last, p)
    BY <1>13
  <2> QED
    BY <2>1, <2>2, SinglyIfUntouched
<1> QED
  BY <1>12, <1>13, <1>14, <1>15

\* Sums of zeros, of zeros and ones, and of zeros and one number.
LEMMA SumOfZeros ==
    ASSUME NEW S, IsFiniteSet(S), NEW g, \A x \in S : g[x] = 0
    PROVE  SumOf(g, S) = 0
<1> DEFINE G == [T \in SUBSET S |-> {0}]
<1>1. 0 \in G[{}] /\ \A T \in SUBSET S : \A x \in T : \A v \in G[T \ {x}] : g[x] + v \in G[T]
  OBVIOUS
<1>2. G[S] = {0}
  OBVIOUS
<1> HIDE DEF G
<1>3. SumOf(g, S) \in G[S]
  BY <1>1, SumInduction
<1> QED
  BY <1>2, <1>3

LEMMA SumOfOnes ==
    ASSUME NEW S, IsFiniteSet(S), NEW g, \A x \in S : g[x] \in {0, 1}
    PROVE  SumOf(g, S) = Cardinality({x \in S : g[x] = 1})
<1> DEFINE Ones(T) == {x \in T : g[x] = 1}
           G == [T \in SUBSET S |-> {Cardinality(Ones(T))}]
<1>1. \A T \in SUBSET S : IsFiniteSet(Ones(T)) /\ Cardinality(Ones(T)) \in Nat
  BY FS_Subset, FS_CardinalityType
<1>2. Cardinality(Ones({})) = 0
  BY FS_EmptySet
<1>3. ASSUME NEW T \in SUBSET S, NEW x \in T
      PROVE  g[x] + Cardinality(Ones(T \ {x})) = Cardinality(Ones(T))
  <2>1. T \ {x} \in SUBSET S
    OBVIOUS
  <2>2. CASE g[x] = 0
    <3>1. Ones(T \ {x}) = Ones(T)
      BY <2>2
    <3> HIDE DEF Ones
    <3> QED
      BY <1>1, <2>2, <3>1
  <2>3. CASE g[x] = 1
    <3>1. Ones(T \ {x}) = Ones(T) \ {x} /\ x \in Ones(T)
      BY <2>3
    <3>2. IsFiniteSet(Ones(T)) /\ Cardinality(Ones(T)) \in Nat
      BY <1>1
    <3> HIDE DEF Ones
    <3>3. Cardinality(Ones(T) \ {x}) = Cardinality(Ones(T)) - 1
      BY <3>1, <3>2, FS_RemoveElement
    <3>4. Cardinality(Ones(T \ {x})) = Cardinality(Ones(T) \ {x})
      BY <3>1
    <3> DEFINE c == Cardinality(Ones(T))
               d == Cardinality(Ones(T \ {x}))
    <3>5. d = c - 1 /\ c \in Nat
      BY <3>2, <3>3, <3>4
    <3> HIDE DEF c, d
    <3>6. g[x] + d = c
      BY <2>3, <3>5
    <3> QED
      BY <3>6 DEF c, d
  <2> QED
    BY <2>2, <2>3
<1> HIDE DEF Ones
<1>4. 0 \in G[{}]
  BY <1>2
<1>5. \A T \in SUBSET S : \A x \in T : \A v \in G[T \ {x}] : g[x] + v \in G[T]
  BY <1>3
<1>6. G[S] = {Cardinality(Ones(S))}
  OBVIOUS
<1> HIDE DEF G
<1>7. SumOf(g, S) \in G[S]
  BY <1>4, <1>5, SumInduction
<1> QED
  BY <1>6, <1>7 DEF Ones

LEMMA SumOfOne ==
    ASSUME NEW S, IsFiniteSet(S), NEW g, NEW p \in S, g[p] \in Nat,
           \A x \in S : x # p => g[x] = 0
    PROVE  SumOf(g, S) = g[p]
<1> DEFINE G == [T \in SUBSET S |-> {IF p \in T THEN g[p] ELSE 0}]
<1>1. 0 \in G[{}]
  OBVIOUS
<1>2. ASSUME NEW T \in SUBSET S, NEW x \in T
      PROVE  g[x] + (IF p \in T \ {x} THEN g[p] ELSE 0) = IF p \in T THEN g[p] ELSE 0
  BY <1>2
<1>3. \A T \in SUBSET S : \A x \in T : \A v \in G[T \ {x}] : g[x] + v \in G[T]
  BY <1>2
<1>4. G[S] = {g[p]}
  OBVIOUS
<1> HIDE DEF G
<1>5. SumOf(g, S) \in G[S]
  BY <1>1, <1>3, SumInduction
<1> QED
  BY <1>4, <1>5

\* FilterExact of one event, about what was pushed.
ExactFor(e, pushed) ==
    \A s \in Stored :
        LET class == ClassOf(s)
        IN IF <<s, e>> \notin Matching THEN SumOf(pushed, class) = 0
           ELSE IF Mixed(s) THEN SumOf(pushed, class) \in 1 .. Cardinality(class)
           ELSE SumOf(pushed, class) = Cardinality(class)

LEMMA ScanExact ==
    ASSUME FilterInv, AllAdded, IdsSound, NEW e \in Event
    PROVE  ExactFor(e, ScanOf(e, EventBits(e), FirstScan({}), Walk(EventBits(e))).pushed)
<1> DEFINE last == ScanOf(e, EventBits(e), FirstScan({}), Walk(EventBits(e)))
           g == last.pushed
<1>1. /\ last \in Scans
      /\ \A s \in Stored : Meets(s, e) => MarkedIn(last, s)
      /\ \A s \in Stored : ~Meets(s, e) => last.pushed[s] = 0
      /\ \A p \in Answering(e) : CountedWhole(last, p) \/ CountedSingly(last, p)
  BY ScanAnswers
<1> HIDE DEF last
<1> SUFFICES ASSUME NEW s \in Stored
             PROVE  IF ~Meets(s, e) THEN SumOf(g, ClassOf(s)) = 0
                    ELSE IF Mixed(s) THEN SumOf(g, ClassOf(s)) \in 1 .. Cardinality(ClassOf(s))
                    ELSE SumOf(g, ClassOf(s)) = Cardinality(ClassOf(s))
  BY DEF ExactFor, Meets, last
<1> DEFINE p == Primary(s)
           C == ClassOf(s)
<1>2. /\ Stored \subseteq Sub /\ p \in Stored /\ Primary(p) = p
      /\ C = {t \in Stored : Primary(t) = p} /\ C = ClassOf(p)
      /\ IsFiniteSet(C) /\ Cardinality(C) \in Nat /\ Weight(p) = Cardinality(C)
      /\ s \in C /\ p \in C
  <2>1. /\ Stored \subseteq Sub /\ p \in Stored /\ Primary(p) = p
        /\ C = {t \in Stored : Primary(t) = Primary(s)}
        /\ ClassOf(p) = {t \in Stored : Primary(t) = Primary(p)}
        /\ IsFiniteSet(C) /\ Weight(p) = Cardinality(ClassOf(p))
    BY PrimaryFacts
  <2> QED
    BY <2>1, FS_CardinalityType
<1>3. \A t \in C : Meets(t, e) <=> Meets(s, e)
  <2>1. \A t \in Stored : Covers(t, Primary(t)) /\ Covers(Primary(t), t) /\ t \in Sub /\ Primary(t) \in Sub
    BY PrimaryFacts
  <2> QED
    BY <1>2, <2>1, MeetsUp
<1>4. CASE ~Meets(s, e)
  <2>1. \A t \in C : g[t] = 0
    BY <1>1, <1>2, <1>3, <1>4
  <2> QED
    BY <1>2, <1>4, <2>1, SumOfZeros
<1>5. CASE Meets(s, e)
  <2>1. p \in Answering(e) /\ \A t \in C : MarkedIn(last, t)
    BY <1>1, <1>2, <1>3, <1>5 DEF Answering
  <2>2. Cardinality(C) >= 1
    BY <1>2, FS_EmptySet
  <2>3. Mixed(s) => bloom[p] = {} /\ \E t \in C : bloom[t] # {}
    BY DEF Mixed, Primary
  <2>4. CASE CountedWhole(last, p)
    <3>1. g[p] = Cardinality(C) /\ \A t \in C : t # p => g[t] = 0
      BY <1>2, <2>4 DEF CountedWhole
    <3>2. SumOf(g, C) = Cardinality(C)
      BY <1>2, <3>1, SumOfOne
    <3> QED
      BY <1>2, <1>5, <2>2, <3>2
  <2>5. CASE CountedSingly(last, p)
    <3>1. bloom[p] = {}
      BY <1>2, <2>1, <2>5 DEF CountedSingly
    <3>2. \A t \in C : g[t] = IF bloom[t] = {} THEN 1 ELSE 0
      BY <1>2, <2>1, <2>5 DEF CountedSingly
    <3> DEFINE O == {t \in C : g[t] = 1}
    <3>3. SumOf(g, C) = Cardinality(O)
      BY <1>2, <3>2, SumOfOnes
    <3>4. O \subseteq C /\ p \in O
      BY <1>2, <3>1, <3>2
    <3>5. Cardinality(O) \in 1 .. Cardinality(C)
      <4>1. IsFiniteSet(O) /\ Cardinality(O) \in Nat /\ Cardinality(O) <= Cardinality(C)
        BY <1>2, <3>4, FS_Subset, FS_CardinalityType
      <4>2. Cardinality(O) # 0
        BY <3>4, <4>1, FS_EmptySet
      <4> QED
        BY <1>2, <4>1, <4>2
    <3>6. ~Mixed(s) => O = C
      <4>1. SUFFICES ASSUME ~Mixed(s), NEW t \in C
                     PROVE  bloom[t] = {}
        BY <3>2
      <4>2. CASE HasGraph
        BY <3>1, <4>1, <4>2 DEF Mixed, Primary
      <4>3. CASE ~HasGraph
        BY <1>2, <3>1, <4>3 DEF Primary
      <4> QED
        BY <4>2, <4>3
    <3> HIDE DEF O
    <3> QED
      BY <1>5, <3>3, <3>5, <3>6
  <2> QED
    BY <1>1, <2>1, <2>4, <2>5
<1> QED
  BY <1>4, <1>5

\* With sound ids there is no garbage: nothing is read beyond `matched`.
LEMMA ResultExact ==
    ASSUME FilterInv, IdsSound, NEW e \in Event, FilterMatch(e)
    PROVE  result'.event = {e} /\ ExactFor(e, result'.pushed)
<1>1. AllAdded /\ result'.event = {e}
  BY MatchIs
<1>2. PICK garbage \in SUBSET ({id[s] : s \in Stored} \ (0 .. Len(subs) - 1)) :
         result'.pushed = ScanOf(e, EventBits(e), FirstScan(garbage), Walk(EventBits(e))).pushed
  BY MatchIs
<1>3. garbage = {}
  <2>1. \A s \in Stored : id[s] \in Nat /\ id[s] < Len(subs) /\ Len(subs) \in Nat
    BY DEF FilterInv, FilterTypes, Stored, ToSet, IdsSound
  <2>2. \A s \in Stored : id[s] \in 0 .. Len(subs) - 1
    BY <2>1
  <2> QED
    BY <2>2
<1> QED
  BY <1>1, <1>2, <1>3, ScanExact

LEMMA ExactIs ==
    FilterExact <=> (IdsSound => \A e \in result.event : ExactFor(e, result.pushed))
BY Zenon DEF FilterExact, ExactFor, Pushed, SumOf

LEMMA ExactNext ==
    ASSUME UNCHANGED <<graphVars, variant, hash, subs, id, bloom, lists, duplicates>>
    PROVE  FilterExact' <=> (IdsSound => \A e \in result'.event : ExactFor(e, result'.pushed))
<1>1. /\ Stored' = Stored /\ (IdsSound' <=> IdsSound)
      /\ \A s : ClassOf(s)' = ClassOf(s) /\ (Mixed(s)' <=> Mixed(s))
  BY DEF Stored, IdsSound, ClassOf, Mixed, HasGraph, graphVars, vars, structure
<1>2. FilterExact' <=> (IdsSound' => \A e \in result'.event : \A s \in Stored' :
        IF <<s, e>> \notin Matching THEN SumOf(result'.pushed, ClassOf(s)') = 0
        ELSE IF Mixed(s)' THEN SumOf(result'.pushed, ClassOf(s)') \in 1 .. Cardinality(ClassOf(s)')
        ELSE SumOf(result'.pushed, ClassOf(s)') = Cardinality(ClassOf(s)'))
  <2>1. \A C : Pushed(C)' = SumOf(result'.pushed, C)
    BY Zenon DEF Pushed, SumOf, MapThenSumSet, MapThenFoldSet
  <2> QED
    BY <2>1 DEF FilterExact
<1> QED
  BY <1>1, <1>2 DEF ExactFor

\* Whatever the hash function, whichever lists a subscription is in and however
\* it is reached, a publication pushes each stored subscription that matches
\* exactly once, a primary standing for its duplicates, and nothing else (as
\* long as removals have left the ids sound; of a mixed class, at least one).
THEOREM FilterAlwaysExact == PreFilterSpec => []FilterExact
<1> DEFINE FreshInv == variant = NoVariant => result = NoResult
           ExactInv == FreshInv /\ FilterExact
<1>1. ASSUME result.event = {}
      PROVE  FilterExact
  BY <1>1 DEF FilterExact
<1>2. PreFilterInit => ExactInv
  <2>1. PreFilterInit => result = NoResult /\ result.event = {}
    BY DEF PreFilterInit, NoResult
  <2> QED
    BY <1>1, <2>1
<1>3. FilterInv /\ ExactInv /\ [PreFilterNext]_preVars => ExactInv'
  <2> SUFFICES ASSUME FilterInv, ExactInv, [PreFilterNext]_preVars
               PROVE  ExactInv'
    OBVIOUS
  <2>1. CASE result' = NoResult
    <3>1. result'.event = {}
      BY <2>1 DEF NoResult
    <3>2. FilterExact'
      BY <3>1 DEF FilterExact
    <3>3. FreshInv'
      BY <2>1 DEF NoResult
    <3> QED
      BY <3>2, <3>3
  <2>2. ASSUME NEW e \in Event, FilterMatch(e)
        PROVE  ExactInv'
    <3>1. UNCHANGED <<graphVars, variant, hash, subs, id, bloom, lists, duplicates>>
      BY <2>2, MatchIs
    <3>2. FilterExact'
      BY <2>2, <3>1, ResultExact, ExactNext
    <3>3. variant # NoVariant
      BY Zenon, <2>2 DEF FilterMatch
    <3> QED
      BY <3>1, <3>2, <3>3
  <2>3. CASE UNCHANGED preVars
    <3>1. UNCHANGED <<graphVars, variant, hash, subs, id, bloom, lists, duplicates>> /\ result' = result
      BY <2>3 DEF preVars, filterVars
    <3>2. FilterExact'
      BY <3>1, ExactIs, ExactNext
    <3> QED
      BY <3>1, <3>2 DEF NoResult
  <2>4. FillGraph \/ MakePreFilter => result' = NoResult
    BY DEF FillGraph, MakePreFilter, filterVars
  <2> QED
    BY Zenon, <2>1, <2>2, <2>3, <2>4 DEF PreFilterNext, AddToFilter, RemoveFromFilter
<1> QED
  BY <1>2, <1>3, FilterAlways, PTL DEF PreFilterSpec
=============================================================================
