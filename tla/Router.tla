-------------------------------- MODULE Router --------------------------------
(***************************************************************************)
(* The router: the single thread of legacymain (scbr.cpp), PubSubCo        *)
(* (pubsubco.cpp) and the matching engine behind ecall_add_evt.            *)
(*                                                                         *)
(* A message is open or sealed (its header is encrypted).  Open messages   *)
(* are matched by PubSubCo itself, sealed ones inside the enclave, each    *)
(* with its own containment graph; a graph is a set of subscriptions here, *)
(* which module GraphProofs proves it to implement.                        *)
(*                                                                         *)
(* Encryption, hashing and text are abstracted: a message stands for its   *)
(* decrypted contents, a subscription for the hash of its header (fresh IV *)
(* per message), a publication for its payload; its header is Header[p].   *)
(***************************************************************************)
EXTENDS Network, FiniteSets, SequencesExt

CONSTANTS
    Sub,        \* subscription messages
    Pub,        \* publication messages
    Junk,       \* messages with a header that is neither, or that does not decrypt
    Empty,      \* the empty message, which Message::parse refuses
    Sealed,     \* the messages with the encrypted bit
    Owner,      \* the identity a subscription names in its second field
    Header,     \* the header of each message, the key of data_table_
    Matching,   \* set of pairs <<s, h>>: subscription s matches header h
    NoPayload   \* the value of data_table_ at a key that is not there

Message == Sub \cup Pub \cup Junk \cup {Empty}
Headers == {Header[m] : m \in Message \ {Empty}}

ASSUME RouterAssumption ==
    /\ Sub \cap Pub = {} /\ Junk \cap (Sub \cup Pub) = {}
    /\ Empty \notin Sub \cup Pub \cup Junk
    /\ Sealed \subseteq Message \ {Empty}
    /\ Owner \in [Sub -> Client]
    /\ DOMAIN Header = Message \ {Empty}
    /\ Matching \subseteq Sub \X Headers

\* The delimiter is empty, and a notification of forward has a hash at least.
ASSUME DelimiterNoBody == \A s \in Sub, p \in Pub : [hash |-> s, payload |-> p] # Delimiter

VARIABLES
    openSubs,   \* the subscriptions in mgraph_
    sealedSubs, \* the subscriptions in the enclave's graph g
    dataTable   \* data_table_: the message whose payload is kept for a header

RouterInit ==
    /\ openSubs = {}
    /\ sealedSubs = {}
    /\ dataTable = [h \in Headers |-> NoPayload]

MatchesIn(subs, p) == {s \in subs : <<s, Header[p]>> \in Matching}

-----------------------------------------------------------------------------
\* The send loop of forward and of open_matching: entry i of the list of
\* bodies goes to entry i of the list of identities.
SendAll(ids, bodies) == toClient' = AfterSendingAll(toClient, ids, bodies)

\* PubSubCo::open_matching: the subscribers get the whole message.
OpenSubscribe(m) ==
    /\ m \in Sub
    /\ openSubs' = openSubs \cup {m}
    /\ UNCHANGED toClient

OpenPublish(m) ==
    /\ m \in Pub
    /\ \E order \in SetToSeqs(MatchesIn(openSubs, m)) :
          SendAll([i \in 1 .. Len(order) |-> Owner[order[i]]],
                  [i \in 1 .. Len(order) |-> [whole |-> m]])
    /\ UNCHANGED openSubs

OpenMatching(m) ==
    /\ \/ OpenSubscribe(m)
       \/ OpenPublish(m)
       \/ m \in Junk /\ UNCHANGED <<openSubs, toClient>>
    /\ UNCHANGED <<sealedSubs, dataTable>>

-----------------------------------------------------------------------------
\* (Slip: the cut of the hash list does not advance with the destination.)
ForwardFirstHash(ids, hashes, h) ==
    SendAll(ids, [i \in 1 .. Len(ids) |-> [hash |-> hashes[1], payload |-> dataTable'[h]]])

\* (Slip: the loop ends at the first destination that is not connected.)
ForwardUntilDrop(ids, hashes, h) ==
    LET n == CHOOSE k \in 0 .. Len(ids) :
                /\ \A i \in 1 .. k : ids[i] \in connected
                /\ k = Len(ids) \/ ids[k + 1] \notin connected
    IN  SendAll(SubSeq(ids, 1, n),
                [i \in 1 .. n |-> [hash |-> hashes[i], payload |-> dataTable'[h]]])

\* PubSubCo::forward, called back from the enclave with the list of matching
\* identities, the header, and the list of their hashes: destination i gets
\* the i-th hash and the payload that data_table_ holds for the header.
Forward(ids, hashes, h) ==
    SendAll(ids, [i \in 1 .. Len(ids) |-> [hash |-> hashes[i], payload |-> dataTable'[h]]])

\* ecall_add_evt
SealedSubscribe(m) ==
    /\ m \in Sub
    /\ sealedSubs' = sealedSubs \cup {m}
    /\ UNCHANGED toClient

SealedPublish(m) ==
    /\ m \in Pub
    /\ \E order \in SetToSeqs(MatchesIn(sealedSubs, m)) :
          Forward([i \in 1 .. Len(order) |-> Owner[order[i]]], order, Header[m])
    /\ UNCHANGED sealedSubs

\* (Slip: the payload of a header that is already in the table is kept.)
RememberFirst(m) ==
    dataTable' = [dataTable EXCEPT ![Header[m]] = IF @ = NoPayload THEN m ELSE @]

\* PubSubCo::enclave_matching first puts the payload in data_table_, where
\* nothing removes it.
Remember(m) == dataTable' = [dataTable EXCEPT ![Header[m]] = m]

EnclaveMatching(m) ==
    /\ Remember(m)
    /\ \/ SealedSubscribe(m)
       \/ SealedPublish(m)
       \/ m \in Junk /\ UNCHANGED <<sealedSubs, toClient>>
    /\ UNCHANGED openSubs

\* PubSubCo::pubsub_message
PubsubMessage(m) ==
    \/ m = Empty /\ UNCHANGED <<openSubs, sealedSubs, dataTable, toClient>>
    \/ m \in Sealed /\ EnclaveMatching(m)
    \/ m \in Message \ (Sealed \cup {Empty}) /\ OpenMatching(m)

\* One turn of legacymain: the identity, the delimiter and the body of a
\* message are read as three frames, and the body is handled to the end
\* before the next message is read.
Receive(c) ==
    /\ toRouter[c] # <<>>
    /\ PubsubMessage(Head(toRouter[c])[2])
    /\ toRouter' = [toRouter EXCEPT ![c] = Tail(@)]
    /\ UNCHANGED connected
=============================================================================
