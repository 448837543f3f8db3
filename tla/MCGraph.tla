------------------------------ MODULE MCGraph ------------------------------
(***************************************************************************)
(* The graph on the subscriptions and events of the program's own test     *)
(* (cbr.cc, test()): their covering and matching relations are computed    *)
(* from their predicates by module Subscription.                           *)
(***************************************************************************)
EXTENDS GraphProperties, TestData

S == INSTANCE Subscription WITH Key <- {"a", "b", "c", "d"}

MCCovering == {<<s, t>> \in Sub \X Sub : S!Covers(Text[s], Text[t])}
MCMatching == {<<s, e>> \in Sub \X Event : S!Matches(Text[s], Attributes[e])}

\* remove never shortens overriden_, so that adding and removing equivalent
\* subscriptions makes it grow for ever.  Bound: entries per node.
MaxOverriden == 2
BoundedNext ==
    \/ \E s \in Sub : AddDuplicate(s) /\ \A n \in Sub : Len(overriden'[n]) <= MaxOverriden
    \/ \E s \in Sub : AddNode(s) \/ RemoveDuplicate(s) \/ RemoveNode(s)
    \/ \E e \in Event : Match(e)
BoundedSpec == Init /\ [][BoundedNext]_vars
=============================================================================
