-------------------------- MODULE SubscriptionStore --------------------------
(***************************************************************************)
(* What the containment graph promises, without the graph: a set of live   *)
(* subscriptions, and publications answered with exactly the live          *)
(* subscriptions that match them.  No program that routes with the graph   *)
(* takes a subscription back.                                              *)
(***************************************************************************)
CONSTANTS
    Sub,        \* subscriptions
    Event,      \* events
    Matching    \* set of pairs <<s, e>>: subscription s matches event e

VARIABLES
    live,       \* the subscriptions stored
    answer      \* the subscriptions returned for the last publication

vars == <<live, answer>>

\* The answer of an operation that returns no matches.
NoAnswer == [event |-> {}, subs |-> {}]

Init == live = {} /\ answer = NoAnswer

Subscribe(s) ==
    /\ s \notin live
    /\ live' = live \cup {s}
    /\ answer' = NoAnswer

Publish(e) ==
    /\ answer' = [event |-> {e}, subs |-> {s \in live : <<s, e>> \in Matching}]
    /\ UNCHANGED live

Spec == Init /\ [][(\E s \in Sub : Subscribe(s)) \/ (\E e \in Event : Publish(e))]_vars
=============================================================================
