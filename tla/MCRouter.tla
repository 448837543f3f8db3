------------------------------- MODULE MCRouter -------------------------------
(***************************************************************************)
(* The router among clients that may do anything: connect, send any        *)
(* message of either kind (a producer relays subscriptions of others),     *)
(* read, and go away with messages in flight.                              *)
(***************************************************************************)
EXTENDS Router

VARIABLE arrived    \* the messages sent so far; bound: each is sent once

vars == <<network, openSubs, sealedSubs, dataTable, arrived>>

MCSub == {"open1", "seal1", "seal2"}
MCPub == {"clear", "old", "new"}
MCSealed == {"seal1", "seal2", "old", "new", "garbage"}
MCOwner == [s \in MCSub |-> IF s = "seal2" THEN "c2" ELSE "c1"]
\* The two sealed publications carry the same header, as they may in a build
\* that matches plaintext.
MCHeader == [m \in MCSub \cup MCPub \cup {"garbage"} |->
                IF m \in {"old", "new"} THEN "quote" ELSE m]
MCMatching == {"open1", "seal1", "seal2"} \X {"quote", "clear"}

Init == NetworkInit /\ RouterInit /\ arrived = {}

Arrive(c, m) ==
    /\ m \notin arrived /\ Writable(c)
    /\ arrived' = arrived \cup {m}
    /\ toRouter' = [toRouter EXCEPT ![c] = Append(@, <<Delimiter, m>>)]
    /\ UNCHANGED <<connected, toClient>>

Read(c) ==
    /\ toClient[c] # <<>>
    /\ toClient' = [toClient EXCEPT ![c] = Tail(Tail(@))]
    /\ UNCHANGED <<connected, toRouter, arrived>>

ClientNext ==
    /\ \E c \in Client :
          \/ \E m \in Message : Arrive(c, m)
          \/ Read(c)
          \/ ConnectionUp(c) /\ UNCHANGED arrived
          \/ c \in connected /\ ConnectionClosed(c) /\ UNCHANGED arrived
    /\ UNCHANGED <<openSubs, sealedSubs, dataTable>>

Next == ClientNext \/ \E c \in Client : Receive(c) /\ UNCHANGED arrived

Spec == Init /\ [][Next]_vars

-----------------------------------------------------------------------------
Bodies(queues, c) == {queues[c][i] : i \in 1 .. Len(queues[c])} \ {Delimiter}

\* What is on its way to a client is its business: a sealed notification pairs
\* the hash of one of its own sealed subscriptions with a sealed payload that
\* matches it (forward cuts two lists in step), and only an open message is
\* ever passed on as it came, to the owner of an open subscription.
RightNotification ==
    \A c \in Client : \A b \in Bodies(toClient, c) :
        IF "whole" \in DOMAIN b
        THEN /\ b.whole \in Pub \ Sealed
             /\ \E s \in openSubs : Owner[s] = c /\ <<s, Header[b.whole]>> \in Matching
        ELSE /\ b.hash \in sealedSubs /\ Owner[b.hash] = c
             /\ b.payload \in Pub \cap Sealed
             /\ <<b.hash, Header[b.payload]>> \in Matching

\* The router handles the body m in this step.
Handles(m) ==
    \E c \in Client :
        /\ toRouter[c] # <<>> /\ Head(toRouter[c])[2] = m
        /\ toRouter' = [toRouter EXCEPT ![c] = Tail(@)]
        /\ connected' = connected

\* A publication is answered with its own payload, though data_table_ is keyed
\* by the header, which an earlier publication may have had as well.
FreshPayload ==
    [][\A p \in Pub \cap Sealed : Handles(p) =>
          \A c \in Client : \A b \in Bodies(toClient', c) \ Bodies(toClient, c) :
              b.payload = p]_vars

\* Every stored subscription that matches gets its notification, as long as its
\* owner is connected and has room for all of them.
AllNotified ==
    [][\A p \in Pub \cap Sealed : Handles(p) =>
          \A s \in MatchesIn(sealedSubs, p) :
              LET c == Owner[s]
                  mine == {t \in MatchesIn(sealedSubs, p) : Owner[t] = c}
              IN  c \in connected /\ Len(toClient[c]) + 2 * Cardinality(mine) <= 2 * Hwm
                  => [hash |-> s, payload |-> p] \in Bodies(toClient', c)]_vars
=============================================================================
