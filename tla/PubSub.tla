-------------------------------- MODULE PubSub --------------------------------
(***************************************************************************)
(* What clients may rely on, without sockets, threads and tables: once the *)
(* router has accepted a subscription, each publication it handles later   *)
(* and that matches is owed to the subscriber; what is owed is handed to   *)
(* the subscriber's callback once, or lost.                                *)
(***************************************************************************)
EXTENDS Sequences

CONSTANTS
    Client,     \* subscribers
    Sub, Pub,   \* subscriptions and publications
    Owner,      \* the client of each subscription
    Matches(_, _)  \* does a subscription match a publication?

VARIABLES
    accepted,   \* the subscriptions accepted
    routed,     \* the publications handled
    owed,       \* pairs <<subscription, publication>> still to be handed over
    got         \* per client, the pairs handed over, in order

vars == <<accepted, routed, owed, got>>

Init ==
    /\ accepted = {}
    /\ routed = {}
    /\ owed = {}
    /\ got = [c \in Client |-> <<>>]

Accept(s) ==
    /\ accepted' = accepted \cup {s}
    /\ UNCHANGED <<routed, owed, got>>

\* The router may drop some of what it owes at once, when a queue is full or
\* the subscriber is gone.
Route(p) ==
    /\ p \notin routed
    /\ routed' = routed \cup {p}
    /\ \E kept \in SUBSET {<<s, p>> : s \in {t \in accepted : Matches(t, p)}} :
          owed' = owed \cup kept
    /\ UNCHANGED <<accepted, got>>

HandOver(s, p) ==
    /\ <<s, p>> \in owed
    /\ owed' = owed \ {<<s, p>>}
    /\ got' = [got EXCEPT ![Owner[s]] = Append(@, <<s, p>>)]
    /\ UNCHANGED <<accepted, routed>>

Lose ==
    /\ owed' \in SUBSET owed
    /\ UNCHANGED <<accepted, routed, got>>

Next ==
    \/ \E s \in Sub : Accept(s)
    \/ \E p \in Pub : Route(p)
    \/ \E s \in Sub, p \in Pub : HandOver(s, p)
    \/ Lose

Spec == Init /\ [][Next]_vars
=============================================================================
