---------------------------- MODULE MCSubscription ----------------------------
(***************************************************************************)
(* Subscriptions under construction.  Their names are interchangeable:     *)
(* nothing tells one from another but the predicates they hold.            *)
(***************************************************************************)
EXTENDS Covering, TLC

NameSymmetry == Permutations(Name)
=============================================================================
