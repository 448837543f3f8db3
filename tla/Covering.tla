------------------------------ MODULE Covering ------------------------------
(***************************************************************************)
(* Subscriptions built predicate by predicate, as parse_sub builds them,   *)
(* and what the covering relation must be for the containment graph to be  *)
(* correct: sound with respect to matching, a preorder, and exact, but for *)
(* strict bounds, when each key carries one predicate.                     *)
(***************************************************************************)
EXTENDS Subscription, FiniteSets, FiniteSetsExt

CONSTANTS
    Name,      \* the subscriptions under construction
    Ops,       \* the operators they use, a subset of Operators
    Value,     \* the values of their predicates
    MinValue, MaxValue, \* the ends of `value`, which is int
    MaxPreds,  \* bound: predicates per key
    MaxTotal   \* bound: predicates of all the subscriptions together

ASSUME CoveringAssumption ==
    /\ Ops \subseteq Operators
    /\ MinValue \in Int /\ MaxValue \in Int
    /\ Value \subseteq MinValue .. MaxValue
    /\ MaxPreds \in Nat \ {0} /\ MaxTotal \in Nat \ {0}

VARIABLE subs   \* the subscription each name stands for

\* The values that the attributes of an event take.
EventValue == MinValue .. MaxValue

Events == UNION {[D -> EventValue] : D \in SUBSET Key}

\* Every key of every subscription holds a sequence of predicates.
TypeOK == subs \in [Name -> [Key -> Seq(Predicate(Ops, Value))]]

Init == subs = [n \in Name |-> EmptySubscription]

Total == MapThenSumSet(LAMBDA nk : Len(subs[nk[1]][nk[2]]), Name \X Key)

\* Subscription::add, called by parse_sub once per "i key op value" group.
AddPredicate(n, k, p) ==
    /\ Len(subs[n][k]) < MaxPreds /\ Total < MaxTotal
    /\ subs' = [subs EXCEPT ![n] = Add(@, k, p)]

Next == \E n \in Name, k \in Key, p \in Predicate(Ops, Value) : AddPredicate(n, k, p)

Spec == Init /\ [][Next]_subs

-----------------------------------------------------------------------------
\* Covering is sound: an event that matches the covered subscription also
\* matches the covering one.  Graph::match relies on it when it skips the
\* containees of a node that does not match.
SoundFor(s, t) == Covers(s, t) => \A e \in Events : Matches(t, e) => Matches(s, e)
CoveringSound == \A n, m \in Name : SoundFor(subs[n], subs[m])

\* t bounds a key on both sides that s wants equal to something: the rule
\* "x <= a <= x" may apply, with a value that it does not look at.
MaybePinned(s, t) ==
    \E k \in Key : \E i \in DOMAIN s[k], j, l \in DOMAIN t[k] :
        s[k][i].op = "EQ" /\ t[k][j].op = "GE" /\ t[k][l].op = "LE"

\* That rule apart, covering is sound for ranges as well, whatever mixture of
\* predicates a key carries and in whatever order they came.
CoveringSoundUnpinned ==
    \A n, m \in Name : MaybePinned(subs[n], subs[m]) \/ SoundFor(subs[n], subs[m])

\* Each key carries one predicate, as in the subscriptions of the library.
Simple(n) == \A k \in Key : Len(subs[n][k]) <= 1

\* No predicate names an end of the type: {a >= MinValue} says nothing.
Inner(n) ==
    \A k \in Key : \A i \in DOMAIN subs[n][k] :
        MinValue < subs[n][k][i].val /\ subs[n][k][i].val < MaxValue

\* A bound and the strict bound next to it, which let the same ints through.
SameBound(p, q) ==
    \/ p.op = "LE" /\ q.op = "LT" /\ q.val = p.val + 1
    \/ p.op = "GE" /\ q.op = "GT" /\ q.val = p.val - 1

\* Covering misses no containment that the graph could exploit but one: that
\* {a >= 3} and {a > 2} accept the same ints it does not see.  Wherever one
\* subscription accepts all that another one accepts, each of its predicates
\* covers the other one's, or is that bound.
CoveringComplete ==
    \A n, m \in Name :
        Simple(n) /\ Simple(m) /\ Inner(n) /\ Inner(m)
        /\ (\A e \in Events : Matches(subs[m], e) => Matches(subs[n], e)) =>
            \A k \in Key : \A i \in DOMAIN subs[n][k] : \E j \in DOMAIN subs[m][k] :
                \/ PredicateCovers(subs[n][k][i], subs[m][k], j)
                \/ SameBound(subs[n][k][i], subs[m][k][j])

\* Covering is a preorder: search, find_containers and find_containees of the
\* graph walk along it and assume that a container of a container is one.
\* Where the pair rule may apply it is not: a = 2 covers a >= 2, a <= 4, which
\* covers a = 4, which a = 2 does not.
CoveringPreorder ==
    /\ \A n \in Name : Covers(subs[n], subs[n])
    /\ \A n, m, l \in Name :
          Covers(subs[n], subs[m]) /\ Covers(subs[m], subs[l]) =>
              \/ Covers(subs[n], subs[l])
              \/ MaybePinned(subs[n], subs[m]) \/ MaybePinned(subs[m], subs[l])
=============================================================================
