---------------------------- MODULE Subscription ----------------------------
(***************************************************************************)
(* Subscriptions and events of the matching engine, and the two questions  *)
(* it asks of them: does a subscription match an event                     *)
(* (Subscription::matches) and does a subscription cover another one       *)
(* (Subscription::operator>=).                                             *)
(*                                                                         *)
(* A subscription is a multimap from keys to predicates.  Only the order   *)
(* of the predicates of ONE key is observable (equal_range walks them in   *)
(* insertion order), hence a sequence of predicates per key.  An event is  *)
(* a map: a function whose domain is the set of keys it carries.           *)
(***************************************************************************)
EXTENDS Integers, Sequences

CONSTANT Key     \* the attribute names

\* The comparison operators that matches and operator>= understand; a
\* subscription built by parse_sub or by the client library uses some of them.
Operators == {"EXISTS", "EQ", "NE", "LT", "GT", "LE", "GE"}

Predicate(ops, values) == [op : ops, val : values]

EmptySubscription == [k \in Key |-> <<>>]

\* Subscription::add appends to the equal range of the key.
Add(sub, k, p) == [sub EXCEPT ![k] = Append(@, p)]

-----------------------------------------------------------------------------
\* The switch of matches: predicate p holds of the value v.
Holds(p, v) ==
    \/ p.op = "EXISTS"
    \/ p.op = "EQ" /\ v = p.val
    \/ p.op = "NE" /\ v # p.val
    \/ p.op = "LT" /\ v < p.val
    \/ p.op = "GT" /\ v > p.val
    \/ p.op = "LE" /\ v <= p.val
    \/ p.op = "GE" /\ v >= p.val

\* Every predicate must find its key in the event and hold of the value.
Matches(sub, e) ==
    \A k \in Key : \A i \in DOMAIN sub[k] :
        k \in DOMAIN e /\ Holds(sub[k][i], e[k])

-----------------------------------------------------------------------------
\* The pair rule of the EQ case: the j-th predicate of the range bounds the
\* value by that of p on one side, and a LATER one bounds it on the other
\* side.  As in the code, the value of the later one is not looked at.
PinnedFrom(p, range, j) ==
    /\ range[j].op \in {"GE", "LE"}
    /\ range[j].val = p.val
    /\ \E k \in (j + 1) .. Len(range) :
          range[k].op = IF range[j].op = "GE" THEN "LE" ELSE "GE"

\* (Slip: a strict bound is taken to cover the non-strict one of the same value.)
UpperBoundCoversSlip(p, q) == q.op \in {"LT", "LE", "EQ"} /\ q.val <= p.val

\* The LT and LE cases: every value that q lets through is below p's bound.
UpperBoundCovers(p, q) ==
    \/ p.op = "LT" /\ q.op = "LT" /\ q.val <= p.val
    \/ p.op = "LT" /\ q.op \in {"LE", "EQ"} /\ q.val < p.val
    \/ p.op = "LE" /\ q.op \in {"LT", "LE", "EQ"} /\ q.val <= p.val

\* (Slip: the equality sub-case is forgotten.)
LowerBoundCoversRanges(p, q) ==
    \/ p.op = "GT" /\ q.op = "GT" /\ q.val >= p.val
    \/ p.op = "GT" /\ q.op = "GE" /\ q.val > p.val
    \/ p.op = "GE" /\ q.op \in {"GT", "GE"} /\ q.val >= p.val

\* The GT and GE cases.
LowerBoundCovers(p, q) ==
    \/ p.op = "GT" /\ q.op = "GT" /\ q.val >= p.val
    \/ p.op = "GT" /\ q.op \in {"GE", "EQ"} /\ q.val > p.val
    \/ p.op = "GE" /\ q.op \in {"GT", "GE", "EQ"} /\ q.val >= p.val

\* (Slip: the value of another NE is not compared.)
NotEqualCoversAnyValue(p, q) ==
    \/ q.op = "NE"
    \/ q.op = "EQ" /\ q.val # p.val

\* The NE case: q excludes p's value.
NotEqualCovers(p, q) ==
    \/ q.op = "NE" /\ q.val = p.val
    \/ q.op = "EQ" /\ q.val # p.val
    \/ q.op = "LT" /\ q.val <= p.val
    \/ q.op = "LE" /\ q.val < p.val
    \/ q.op = "GT" /\ q.val >= p.val
    \/ q.op = "GE" /\ q.val > p.val

\* The switch of operator>=: predicate p covers the j-th predicate of the
\* covered subscription's range for the same key.
PredicateCovers(p, range, j) ==
    \/ p.op = "EXISTS"
    \/ p.op = "EQ" /\ \/ range[j].op = "EQ" /\ range[j].val = p.val
                      \/ PinnedFrom(p, range, j)
    \/ p.op = "NE" /\ NotEqualCovers(p, range[j])
    \/ p.op \in {"LT", "LE"} /\ UpperBoundCovers(p, range[j])
    \/ p.op \in {"GT", "GE"} /\ LowerBoundCovers(p, range[j])

\* operator>=: every predicate of s covers some predicate that t has on the
\* same key.  A key that t does not constrain is not covered.
Covers(s, t) ==
    \A k \in Key : \A i \in DOMAIN s[k] :
        \E j \in DOMAIN t[k] : PredicateCovers(s[k][i], t[k], j)

\* operator==
Equivalent(s, t) == Covers(s, t) /\ Covers(t, s)
=============================================================================
