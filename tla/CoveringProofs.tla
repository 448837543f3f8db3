---------------------------- MODULE CoveringProofs ----------------------------
(***************************************************************************)
(* What operator>= is worth, for subscriptions of any number of predicates *)
(* over any keys and values: sound and transitive but for the pair rule,   *)
(* and, between subscriptions with one predicate per key, exact but for a  *)
(* strict bound that lets the same ints through as one that is not.        *)
(***************************************************************************)
EXTENDS Covering, TLAPS

Predicates == Predicate(Ops, Value)
Subscriptions == [Key -> Seq(Predicates)]

\* operator>= between two predicates, without the pair rule.
PlainCovers(p, q) ==
    \/ p.op = "EXISTS"
    \/ p.op = "EQ" /\ q.op = "EQ" /\ q.val = p.val
    \/ p.op = "NE" /\ NotEqualCovers(p, q)
    \/ p.op \in {"LT", "LE"} /\ UpperBoundCovers(p, q)
    \/ p.op \in {"GT", "GE"} /\ LowerBoundCovers(p, q)

-----------------------------------------------------------------------------
(* Predicates.                                                             *)

LEMMA PredicateType ==
    ASSUME NEW p \in Predicates
    PROVE  p.op \in Operators /\ p.val \in Int /\ p.val \in EventValue
<1>1. p.op \in Ops /\ p.val \in Value
  BY DEF Predicates, Predicate
<1>2. Value \subseteq EventValue /\ EventValue \subseteq Int
  BY CoveringAssumption DEF EventValue
<1> QED
  BY <1>1, <1>2, CoveringAssumption

LEMMA PlainReflexive ==
    ASSUME NEW p \in Predicates
    PROVE  PlainCovers(p, p)
BY PredicateType
   DEF PlainCovers, Operators, NotEqualCovers, UpperBoundCovers, LowerBoundCovers

LEMMA PlainTransitive ==
    ASSUME NEW p \in Predicates, NEW q \in Predicates, NEW r \in Predicates,
           PlainCovers(p, q), PlainCovers(q, r)
    PROVE  PlainCovers(p, r)
BY PredicateType
   DEF PlainCovers, Operators, NotEqualCovers, UpperBoundCovers, LowerBoundCovers

LEMMA PlainSound ==
    ASSUME NEW p \in Predicates, NEW q \in Predicates, NEW v \in Int,
           PlainCovers(p, q), Holds(q, v)
    PROVE  Holds(p, v)
BY PredicateType
   DEF PlainCovers, Holds, Operators, NotEqualCovers, UpperBoundCovers, LowerBoundCovers

\* The value of the predicate is none of the ends of the type.
InnerValue(p) == MinValue < p.val /\ p.val < MaxValue

\* A predicate that neither covers another one nor is its bound fails for a
\* value that the other one lets through: its own value, or one next to it.
LEMMA PlainComplete ==
    ASSUME NEW p \in Predicates, NEW q \in Predicates, InnerValue(p), InnerValue(q),
           ~PlainCovers(p, q), ~SameBound(p, q)
    PROVE  \E v \in EventValue : Holds(q, v) /\ ~Holds(p, v)
<1>1. \A v \in {p.val - 1, p.val, p.val + 1, q.val - 1, q.val, q.val + 1} : v \in EventValue
  BY PredicateType, CoveringAssumption DEF InnerValue, EventValue
<1>2. \E v \in {p.val - 1, p.val, p.val + 1, q.val - 1, q.val, q.val + 1} :
        Holds(q, v) /\ ~Holds(p, v)
  BY PredicateType, SMTT(60) DEF PlainCovers, SameBound, Holds, Operators,
     NotEqualCovers, UpperBoundCovers, LowerBoundCovers
<1> QED
  BY <1>1, <1>2

-----------------------------------------------------------------------------
(* Subscriptions.                                                          *)

LEMMA RangeType ==
    ASSUME NEW s \in Subscriptions, NEW k \in Key
    PROVE  /\ DOMAIN s[k] \subseteq Nat
           /\ \A i \in DOMAIN s[k] : s[k][i] \in Predicates
BY DEF Subscriptions

\* Where the pair rule cannot apply, each predicate of s covers one of t plainly.
LEMMA PlainOfCovers ==
    ASSUME NEW s \in Subscriptions, NEW t \in Subscriptions,
           Covers(s, t), ~MaybePinned(s, t),
           NEW k \in Key, NEW i \in DOMAIN s[k]
    PROVE  \E j \in DOMAIN t[k] : PlainCovers(s[k][i], t[k][j])
<1>1. PICK j \in DOMAIN t[k] : PredicateCovers(s[k][i], t[k], j)
  BY DEF Covers
<1>2. ASSUME s[k][i].op = "EQ", PinnedFrom(s[k][i], t[k], j)
      PROVE  FALSE
  <2>1. PICK l \in (j + 1) .. Len(t[k]) :
          t[k][l].op = IF t[k][j].op = "GE" THEN "LE" ELSE "GE"
    BY <1>2 DEF PinnedFrom
  <2>2. t[k] \in Seq(Predicates) /\ j \in 1 .. Len(t[k])
    BY DEF Subscriptions
  <2>3. l \in DOMAIN t[k]
    BY <2>1, <2>2
  <2>4. t[k][j].op \in {"GE", "LE"}
    BY <1>2 DEF PinnedFrom
  <2> QED
    BY <1>2, <2>1, <2>3, <2>4 DEF MaybePinned
<1> QED
  BY <1>1, <1>2 DEF PredicateCovers, PlainCovers

LEMMA CoversOfPlain ==
    ASSUME NEW s \in Subscriptions, NEW t \in Subscriptions,
           \A k \in Key : \A i \in DOMAIN s[k] :
               \E j \in DOMAIN t[k] : PlainCovers(s[k][i], t[k][j])
    PROVE  Covers(s, t)
BY DEF Covers, PredicateCovers, PlainCovers

LEMMA CoversReflexive ==
    ASSUME NEW s \in Subscriptions
    PROVE  Covers(s, s)
<1>1. ASSUME NEW k \in Key, NEW i \in DOMAIN s[k]
      PROVE  \E j \in DOMAIN s[k] : PlainCovers(s[k][i], s[k][j])
  BY RangeType, PlainReflexive
<1> QED
  BY <1>1, CoversOfPlain

LEMMA CoversTransitive ==
    ASSUME NEW s \in Subscriptions, NEW t \in Subscriptions, NEW u \in Subscriptions,
           Covers(s, t), Covers(t, u), ~MaybePinned(s, t), ~MaybePinned(t, u)
    PROVE  Covers(s, u)
<1>1. ASSUME NEW k \in Key, NEW i \in DOMAIN s[k]
      PROVE  \E l \in DOMAIN u[k] : PlainCovers(s[k][i], u[k][l])
  <2>1. PICK j \in DOMAIN t[k] : PlainCovers(s[k][i], t[k][j])
    BY PlainOfCovers
  <2>2. PICK l \in DOMAIN u[k] : PlainCovers(t[k][j], u[k][l])
    BY PlainOfCovers
  <2> QED
    BY <2>1, <2>2, RangeType, PlainTransitive
<1> QED
  BY <1>1, CoversOfPlain

LEMMA CoversSound ==
    ASSUME NEW s \in Subscriptions, NEW t \in Subscriptions, ~MaybePinned(s, t)
    PROVE  SoundFor(s, t)
<1> SUFFICES ASSUME Covers(s, t), NEW e \in Events, Matches(t, e),
                    NEW k \in Key, NEW i \in DOMAIN s[k]
             PROVE  k \in DOMAIN e /\ Holds(s[k][i], e[k])
  BY DEF SoundFor, Matches
<1>1. PICK j \in DOMAIN t[k] : PlainCovers(s[k][i], t[k][j])
  BY PlainOfCovers
<1>2. k \in DOMAIN e /\ Holds(t[k][j], e[k])
  BY DEF Matches
<1>3. e[k] \in Int
  BY <1>2, CoveringAssumption DEF Events, EventValue
<1> QED
  BY <1>1, <1>2, <1>3, RangeType, PlainSound

-----------------------------------------------------------------------------
(* One predicate per key.                                                  *)

OnePerKey(s) == \A k \in Key : Len(s[k]) <= 1
InnerValues(s) == \A k \in Key : \A i \in DOMAIN s[k] : InnerValue(s[k][i])

LEMMA OneOrNone ==
    ASSUME NEW s \in Subscriptions, OnePerKey(s), NEW k \in Key
    PROVE  s[k] \in Seq(Predicates) /\ Len(s[k]) \in {0, 1}
<1> DEFINE size == Len(s[k])
<1>1. s[k] \in Seq(Predicates)
  BY DEF Subscriptions
<1>2. size \in Nat /\ size <= 1
  BY <1>1 DEF OnePerKey
<1>3. size \in {0, 1}
  <2> HIDE DEF size
  <2> QED
    BY <1>2
<1> QED
  BY <1>1, <1>3

\* A range of one predicate has no second one to pair with it.
LEMMA OneIsUnpinned ==
    ASSUME NEW s \in Subscriptions, NEW t \in Subscriptions, OnePerKey(t)
    PROVE  ~MaybePinned(s, t)
<1> SUFFICES ASSUME NEW k \in Key, NEW j \in DOMAIN t[k], NEW l \in DOMAIN t[k],
                    t[k][j].op = "GE", t[k][l].op = "LE"
             PROVE  FALSE
  BY DEF MaybePinned
<1>1. t[k] \in Seq(Predicates) /\ Len(t[k]) <= 1
  BY DEF Subscriptions, OnePerKey
<1>2. j = l
  BY <1>1
<1> QED
  BY <1>2

\* Some event satisfies a subscription with one predicate per key and has, on
\* a key of our choice, a value of our choice that its predicate lets through.
LEMMA EventWith ==
    ASSUME NEW t \in Subscriptions, OnePerKey(t), InnerValues(t), NEW D \in SUBSET Key,
           \A k \in Key \ D : t[k] = <<>>,
           NEW k0 \in Key, NEW v \in EventValue,
           \A j \in DOMAIN t[k0] : Holds(t[k0][j], v)
    PROVE  \E e \in [D -> EventValue] : Matches(t, e) /\ (k0 \in D => e[k0] = v)
<1> DEFINE fits(k, x) == \A j \in DOMAIN t[k] : Holds(t[k][j], x)
           e == [k \in D |-> IF k = k0 THEN v ELSE CHOOSE x \in EventValue : fits(k, x)]
<1>1. ASSUME NEW k \in Key
      PROVE  \E x \in EventValue : fits(k, x)
  <2>1. t[k] \in Seq(Predicates) /\ Len(t[k]) \in {0, 1}
    BY OneOrNone
  <2>2. CASE Len(t[k]) = 0
    <3>1. DOMAIN t[k] = {} /\ v \in EventValue
      BY <2>1, <2>2
    <3> QED
      BY <3>1
  <2>3. CASE Len(t[k]) = 1
    <3> DEFINE q == t[k][1]
    <3>1. q \in Predicates /\ DOMAIN t[k] = {1}
      BY <2>1, <2>3
    <3>2. InnerValue(q) /\ q.val \in Int
      BY <3>1, PredicateType DEF InnerValues
    <3>3. {q.val - 1, q.val, q.val + 1} \subseteq EventValue
      BY <3>2, CoveringAssumption DEF InnerValue, EventValue
    <3>4. \E x \in {q.val - 1, q.val, q.val + 1} : Holds(q, x)
      BY <3>1, PredicateType DEF Holds, Operators
    <3> QED
      BY <3>1, <3>3, <3>4
  <2> QED
    BY <2>1, <2>2, <2>3
<1>2. e \in [D -> EventValue] /\ \A k \in D : fits(k, e[k])
  BY <1>1
<1>3. Matches(t, e)
  <2> SUFFICES ASSUME NEW k \in Key, NEW i \in DOMAIN t[k]
               PROVE  k \in DOMAIN e /\ Holds(t[k][i], e[k])
    BY DEF Matches
  <2>1. DOMAIN <<>> = {}
    OBVIOUS
  <2>2. k \in D
    BY <2>1
  <2> QED
    BY <1>2, <2>2
<1> QED
  BY <1>2, <1>3

LEMMA CoversComplete ==
    ASSUME NEW s \in Subscriptions, NEW t \in Subscriptions, OnePerKey(s), OnePerKey(t),
           InnerValues(s), InnerValues(t), \A e \in Events : Matches(t, e) => Matches(s, e),
           NEW k \in Key, NEW i \in DOMAIN s[k]
    PROVE  \E j \in DOMAIN t[k] : PlainCovers(s[k][i], t[k][j]) \/ SameBound(s[k][i], t[k][j])
<1>1. t[k] \in Seq(Predicates) /\ Len(t[k]) \in {0, 1} /\ s[k][i] \in Predicates
  BY RangeType, OneOrNone
<1>2. CASE Len(t[k]) = 0
  <2>1. s[k][i].val \in EventValue
    BY <1>1, PredicateType
  <2>2. t[k] = <<>>
    BY <1>1, <1>2
  <2>3. \A j \in DOMAIN t[k] : Holds(t[k][j], s[k][i].val)
    BY <2>2
  <2>4. \A l \in Key \ (Key \ {k}) : t[l] = <<>>
    BY <2>2
  <2>5. PICK e \in [Key \ {k} -> EventValue] : Matches(t, e)
    BY <2>1, <2>3, <2>4, EventWith
  <2>6. e \in Events
    BY DEF Events
  <2> QED
    BY <2>5, <2>6 DEF Matches
<1>3. CASE Len(t[k]) = 1
  <2>1. t[k][1] \in Predicates /\ DOMAIN t[k] = {1}
    BY <1>1, <1>3
  <2> SUFFICES ASSUME ~PlainCovers(s[k][i], t[k][1]), ~SameBound(s[k][i], t[k][1])
               PROVE  FALSE
    BY <2>1
  <2>2. PICK v \in EventValue : Holds(t[k][1], v) /\ ~Holds(s[k][i], v)
    BY <1>1, <2>1, PlainComplete DEF InnerValues
  <2>3. PICK e \in [Key -> EventValue] : Matches(t, e) /\ e[k] = v
    BY <2>1, <2>2, EventWith
  <2>4. e \in Events
    BY DEF Events
  <2> QED
    BY <2>2, <2>3, <2>4 DEF Matches
<1> QED
  BY <1>1, <1>2, <1>3

-----------------------------------------------------------------------------
(* Subscriptions as they are built.                                        *)

\* Every predicate that is added finds its place in the multimap.
LEMMA CoveringTyped == Spec => []TypeOK
<1>1. Init => TypeOK
  BY DEF Init, TypeOK, EmptySubscription
<1>2. TypeOK /\ [Next]_subs => TypeOK'
  <2> SUFFICES ASSUME TypeOK, [Next]_subs
               PROVE  TypeOK'
    OBVIOUS
  <2>1. CASE UNCHANGED subs
    BY <2>1 DEF TypeOK
  <2>2. ASSUME NEW n \in Name, NEW k \in Key, NEW p \in Predicates, AddPredicate(n, k, p)
        PROVE  TypeOK'
    <3>1. Add(subs[n], k, p) \in [Key -> Seq(Predicates)]
      BY DEF TypeOK, Add, Predicates
    <3>2. subs' = [subs EXCEPT ![n] = Add(subs[n], k, p)]
      BY <2>2 DEF AddPredicate
    <3> QED
      BY <3>1, <3>2 DEF TypeOK, Predicates
  <2> QED
    BY <2>1, <2>2 DEF Next, Predicates
<1> QED
  BY <1>1, <1>2, PTL DEF Spec

LEMMA NamesType ==
    ASSUME TypeOK, NEW n \in Name
    PROVE  subs[n] \in Subscriptions
BY DEF TypeOK, Subscriptions, Predicates

\* Whatever predicates two subscriptions were built from, an event that
\* matches the covered one matches the covering one, or the pair rule may apply.
THEOREM CoveringAlwaysSound == Spec => []CoveringSoundUnpinned
<1>1. TypeOK => CoveringSoundUnpinned
  BY NamesType, CoversSound DEF CoveringSoundUnpinned
<1> QED
  BY <1>1, CoveringTyped, PTL

\* Covering is reflexive, and transitive but for the pair rule.
THEOREM CoveringAlwaysPreorder == Spec => []CoveringPreorder
<1>1. TypeOK => CoveringPreorder
  BY NamesType, CoversReflexive, CoversTransitive DEF CoveringPreorder
<1> QED
  BY <1>1, CoveringTyped, PTL

\* Between subscriptions with one predicate per key, as the library builds
\* them, no containment is missed but that of a strict bound in the same bound
\* written without; the ends of int set aside, whatever its width.
THEOREM CoveringAlwaysComplete == Spec => []CoveringComplete
<1>1. TypeOK => CoveringComplete
  <2> SUFFICES ASSUME TypeOK, NEW n \in Name, NEW m \in Name,
                      Simple(n), Simple(m), Inner(n), Inner(m),
                      \A e \in Events : Matches(subs[m], e) => Matches(subs[n], e),
                      NEW k \in Key, NEW i \in DOMAIN subs[n][k]
               PROVE  \E j \in DOMAIN subs[m][k] :
                         \/ PredicateCovers(subs[n][k][i], subs[m][k], j)
                         \/ SameBound(subs[n][k][i], subs[m][k][j])
    BY DEF CoveringComplete
  <2>1. /\ subs[n] \in Subscriptions /\ subs[m] \in Subscriptions
        /\ OnePerKey(subs[n]) /\ OnePerKey(subs[m])
        /\ InnerValues(subs[n]) /\ InnerValues(subs[m])
    BY NamesType DEF Simple, OnePerKey, Inner, InnerValues, InnerValue
  <2>2. PICK j \in DOMAIN subs[m][k] : \/ PlainCovers(subs[n][k][i], subs[m][k][j])
                                       \/ SameBound(subs[n][k][i], subs[m][k][j])
    BY <2>1, CoversComplete
  <2> QED
    BY <2>2 DEF PlainCovers, PredicateCovers
<1> QED
  BY <1>1, CoveringTyped, PTL

\* Between those subscriptions the pair rule never applies: the graph gets the
\* sound preorder it assumes.
THEOREM SimpleNeverPinned ==
    Spec => [](\A n, m \in Name : Simple(m) => ~MaybePinned(subs[n], subs[m]))
<1>1. TypeOK => \A n, m \in Name : Simple(m) => ~MaybePinned(subs[n], subs[m])
  BY NamesType, OneIsUnpinned DEF Simple, OnePerKey
<1> QED
  BY <1>1, CoveringTyped, PTL
=============================================================================
