----------------------------- MODULE MCPreFilter -----------------------------
(***************************************************************************)
(* The prefilter on subscriptions of the program's own test (cbr.cc), with *)
(* every hash function, every order of insertion and every variant.        *)
(***************************************************************************)
EXTENDS PreFilter, MCGraph

\* The EQ predicates of each subscription: key and value.
MCEqualValues ==
    [s \in Sub |-> UNION {{<<k, p.val>> : p \in {q \in ToSet(Text[s][k]) : q.op = "EQ"}} :
                              k \in DOMAIN Text[s]}]

\* The values of the attributes of each event.
MCEventValues ==
    [e \in Event |-> {Attributes[e][k] : k \in DOMAIN Attributes[e]}]

\* The order of test().
Order == <<"s1", "s3", "s6", "s9", "t1", "t5">>
Rank(s) == CHOOSE i \in DOMAIN Order : Order[i] = s

\* Bounds: a prefilter has no graph or a full one; without one it is filled in
\* the order of test(), and one subscription is removed from it, when it is
\* full, as test() does; it may come back.
MCNext ==
    \/ FillGraph
    \/ MakePreFilter /\ (HasGraph => \A s \in Sub : attr[s] # NoNode)
    \/ \E s \in Sub :
          /\ HasGraph \/ \A t \in Sub \ Stored : Rank(s) <= Rank(t)
          /\ AddToFilter(s)
    \/ \E s \in Sub : Stored = Sub /\ IdsSound /\ RemoveFromFilter(s)
    \/ \E e \in Event : FilterMatch(e)
MCSpec == PreFilterInit /\ [][MCNext]_preVars
=============================================================================
