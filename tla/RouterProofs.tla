---------------------------- MODULE RouterProofs ----------------------------
(***************************************************************************)
(* The router among any number of clients that may do anything: whatever   *)
(* is on its way to a client is its business, and the lists that forward   *)
(* cuts in step pair the right hash with the right payload.                *)
(***************************************************************************)
EXTENDS MCRouter, NetworkProofs

-----------------------------------------------------------------------------
(* The inductive invariant.                                                *)

\* A message as a client sends it, and a frame as the router sends it.
Wire == {Delimiter} \X Message
Frame == {Delimiter} \cup [whole : Pub] \cup [hash : Sub, payload : Pub]

\* The bodies that are the business of client c.
OpenDue(c) ==
    {b \in [whole : Pub \ Sealed] :
        \E s \in openSubs : Owner[s] = c /\ <<s, Header[b.whole]>> \in Matching}

SealedDue(c) ==
    {b \in [hash : sealedSubs, payload : Pub \cap Sealed] :
        Owner[b.hash] = c /\ <<b.hash, Header[b.payload]>> \in Matching}

May == [c \in Client |-> {Delimiter} \cup OpenDue(c) \cup SealedDue(c)]

Stored ==
    /\ openSubs \subseteq Sub /\ IsFiniteSet(openSubs)
    /\ sealedSubs \subseteq Sub /\ IsFiniteSet(sealedSubs)
    /\ DOMAIN dataTable = Headers

OnTheWay ==
    /\ toRouter \in [Client -> Seq(Wire)]
    /\ toClient \in Queues(Frame) /\ Paired(toClient)
    /\ \A c \in Client : \A k \in 1 .. Len(toClient[c]) : toClient[c][k] \in May[c]

RouterInv == Stored /\ OnTheWay

-----------------------------------------------------------------------------
(* What the router sends for a publication.                                *)

\* A sealed publication goes to the owner of each subscription that matches,
\* with the hash of that subscription and its own payload.
LEMMA SealedSends ==
    ASSUME Stored, NEW m \in Sealed, Remember(m), SealedPublish(m)
    PROVE  \E order \in SetToSeqs(MatchesIn(sealedSubs, m)) : \E ids, bodies :
              /\ Len(ids) = Len(order)
              /\ \A i \in 1 .. Len(order) :
                    ids[i] = Owner[order[i]] /\ bodies[i] = [hash |-> order[i], payload |-> m]
              /\ toClient' = AfterSendingAll(toClient, ids, bodies)
<1>1. dataTable'[Header[m]] = m
  BY RouterAssumption DEF Stored, Remember, Headers
<1>2. PICK order \in SetToSeqs(MatchesIn(sealedSubs, m)) :
         Forward([i \in 1 .. Len(order) |-> Owner[order[i]]], order, Header[m])
  BY DEF SealedPublish
<1>3. IsFiniteSet(MatchesIn(sealedSubs, m))
  BY FS_Subset DEF MatchesIn, Stored
<1>4. Len(order) \in Nat
  BY <1>3, Enumerated
<1> DEFINE ids == [i \in 1 .. Len(order) |-> Owner[order[i]]]
           bodies == [i \in 1 .. Len(ids) |-> [hash |-> order[i], payload |-> m]]
<1>5. Len(ids) = Len(order)
  BY <1>4
<1>6. toClient' = AfterSendingAll(toClient, ids, bodies)
  BY <1>1, <1>2 DEF Forward, SendAll
<1>7. \A i \in 1 .. Len(order) :
         ids[i] = Owner[order[i]] /\ bodies[i] = [hash |-> order[i], payload |-> m]
  BY <1>5
<1> HIDE DEF ids, bodies
<1> QED
  BY <1>5, <1>6, <1>7

\* An open publication goes whole to the owners of the subscriptions that match.
LEMMA OpenSends ==
    ASSUME Stored, NEW m, OpenPublish(m)
    PROVE  \E order \in SetToSeqs(MatchesIn(openSubs, m)) : \E ids, bodies :
              /\ Len(ids) = Len(order)
              /\ \A i \in 1 .. Len(order) :
                    ids[i] = Owner[order[i]] /\ bodies[i] = [whole |-> m]
              /\ toClient' = AfterSendingAll(toClient, ids, bodies)
<1>1. PICK order \in SetToSeqs(MatchesIn(openSubs, m)) :
         SendAll([i \in 1 .. Len(order) |-> Owner[order[i]]],
                 [i \in 1 .. Len(order) |-> [whole |-> m]])
  BY DEF OpenPublish
<1>2. IsFiniteSet(MatchesIn(openSubs, m))
  BY FS_Subset DEF MatchesIn, Stored
<1>3. Len(order) \in Nat
  BY <1>2, Enumerated
<1> DEFINE ids == [i \in 1 .. Len(order) |-> Owner[order[i]]]
           bodies == [i \in 1 .. Len(order) |-> [whole |-> m]]
<1>4. Len(ids) = Len(order)
  BY <1>3
<1>5. toClient' = AfterSendingAll(toClient, ids, bodies)
  BY <1>1 DEF SendAll
<1>6. \A i \in 1 .. Len(order) : ids[i] = Owner[order[i]] /\ bodies[i] = [whole |-> m]
  OBVIOUS
<1> HIDE DEF ids, bodies
<1> QED
  BY <1>4, <1>5, <1>6

-----------------------------------------------------------------------------
(* Every step keeps the invariant.                                         *)

LEMMA MayBeFrames ==
    ASSUME Stored
    PROVE  /\ May \in [Client -> SUBSET Frame] /\ Delimiter \in Frame
           /\ \A c \in Client : Delimiter \in May[c]
BY DEF May, OpenDue, SealedDue, Frame, Stored

LEMMA InitInv == Init => RouterInv
<1> SUFFICES ASSUME Init
             PROVE  RouterInv
  OBVIOUS
<1> USE DEF Init, NetworkInit, RouterInit
<1>1. Stored
  BY FS_EmptySet DEF Stored
<1>2. toRouter \in [Client -> Seq(Wire)] /\ toClient \in [Client -> Seq(Frame)]
  BY EmptySeq
<1>3. \A c \in Client : toClient[c] = <<>> /\ Len(toClient[c]) = 2 * 0
  <2>1. Len(<<>>) = 2 * 0
    OBVIOUS
  <2> QED
    BY <2>1
<1>4. toClient \in Queues(Frame) /\ Paired(toClient)
  BY <1>2, <1>3 DEF Queues, Paired
<1> QED
  BY <1>1, <1>2, <1>3, <1>4 DEF RouterInv, OnTheWay

\* The clients read and send, come and go: no stored subscription changes.
LEMMA ClientsKeepInv ==
    ASSUME RouterInv, ClientNext
    PROVE  RouterInv'
<1> USE DEF RouterInv, OnTheWay
<1>1. Stored' /\ May' = May
  BY DEF ClientNext, Stored, May, OpenDue, SealedDue
<1>2. /\ toClient \in [Client -> Seq(Frame)]
      /\ \A d \in Client : \E k \in Nat : Len(toClient[d]) = 2 * k
  BY DEF Queues, Paired
<1>3. PICK c \in Client :
         \/ \E m \in Message : Arrive(c, m)
         \/ Read(c)
         \/ ConnectionUp(c)
         \/ ConnectionClosed(c)
  BY DEF ClientNext
<1>4. ASSUME NEW m \in Message, Arrive(c, m)
      PROVE  OnTheWay'
  <2>1. <<Delimiter, m>> \in Wire
    BY DEF Wire
  <2>2. toRouter' \in [Client -> Seq(Wire)]
    BY <1>4, <2>1 DEF Arrive
  <2> QED
    BY <1>1, <1>4, <2>2 DEF Arrive
<1>5. CASE Read(c)
  <2> DEFINE q == toClient[c]
             r == Tail(Tail(q))
  <2>1. PICK k \in Nat : Len(q) = 2 * k
    BY <1>2
  <2>2. q \in Seq(Frame) /\ q # <<>>
    BY <1>2, <1>5 DEF Read
  <2>3. /\ r \in Seq(Frame) /\ k - 1 \in Nat /\ Len(r) = 2 * (k - 1)
        /\ \A i \in 1 .. Len(r) : i + 2 \in 1 .. Len(q) /\ r[i] = q[i + 2]
    BY <2>1, <2>2, MessageRead
  <2>4. toClient' = [toClient EXCEPT ![c] = r]
    BY <1>5 DEF Read
  <2> HIDE DEF r
  <2>5. toClient' \in [Client -> Seq(Frame)] /\ toClient'[c] = r
        /\ \A d \in Client : d # c => toClient'[d] = toClient[d]
    BY <1>2, <2>3, <2>4
  <2>6. toClient' \in Queues(Frame) /\ Paired(toClient')
    BY <1>2, <2>3, <2>5 DEF Queues, Paired
  <2>7. \A d \in Client : \A i \in 1 .. Len(toClient'[d]) : toClient'[d][i] \in May[d]
    BY <2>3, <2>5
  <2> QED
    BY <1>1, <1>5, <2>6, <2>7 DEF Read
<1>6. CASE ConnectionUp(c)
  BY <1>1, <1>6 DEF ConnectionUp
<1>7. CASE ConnectionClosed(c)
  <2>1. PICK k \in 0 .. Len(toRouter[c]) :
           toRouter' = [toRouter EXCEPT ![c] = SubSeq(@, 1, k)]
    BY <1>7 DEF ConnectionClosed
  <2>2. toRouter[c] \in Seq(Wire) /\ Len(toRouter[c]) \in Nat
    OBVIOUS
  <2>3. SubSeq(toRouter[c], 1, k) \in Seq(Wire)
    BY <2>2, SubSeqProperties
  <2>4. toRouter' \in [Client -> Seq(Wire)]
    BY <2>1, <2>3
  <2>5. toClient' = [toClient EXCEPT ![c] = <<>>]
    BY <1>7 DEF ConnectionClosed
  <2>6. /\ toClient' \in [Client -> Seq(Frame)] /\ toClient'[c] = <<>> /\ Len(<<>>) = 2 * 0
        /\ \A d \in Client : d # c => toClient'[d] = toClient[d]
    BY <1>2, <2>5, EmptySeq
  <2>7. toClient' \in Queues(Frame) /\ Paired(toClient')
    BY <1>2, <2>6 DEF Queues, Paired
  <2>8. \A d \in Client : \A i \in 1 .. Len(toClient'[d]) : toClient'[d][i] \in May[d]
    <3>1. 1 .. Len(toClient'[c]) = {}
      BY <2>6
    <3> QED
      BY <2>6, <3>1
  <2> QED
    BY <1>1, <2>4, <2>7, <2>8
<1> QED
  BY <1>1, <1>3, <1>4, <1>5, <1>6, <1>7

\* A subscription is stored: what was some client's business still is.
LEMMA StoringKeeps ==
    ASSUME Stored, OnTheWay, Stored', openSubs \subseteq openSubs', sealedSubs \subseteq sealedSubs',
           UNCHANGED toClient, toRouter' \in [Client -> Seq(Wire)]
    PROVE  OnTheWay'
<1>1. \A c \in Client : May[c] \subseteq May'[c]
  <2> SUFFICES ASSUME NEW c \in Client
               PROVE  OpenDue(c) \subseteq OpenDue(c)' /\ SealedDue(c) \subseteq SealedDue(c)'
    BY DEF May
  <2>1. OpenDue(c) \subseteq OpenDue(c)'
    BY DEF OpenDue
  <2>2. SealedDue(c) \subseteq SealedDue(c)'
    BY DEF SealedDue
  <2> QED
    BY <2>1, <2>2
<1> QED
  BY <1>1 DEF OnTheWay

\* A publication is sent: each body is its receiver's business.
LEMMA SendingKeeps ==
    ASSUME Stored, OnTheWay, NEW ids, NEW bodies, Len(ids) \in Nat,
           \A i \in 1 .. Len(ids) : ids[i] \in Client /\ bodies[i] \in May[ids[i]],
           toClient' = AfterSendingAll(toClient, ids, bodies),
           UNCHANGED <<openSubs, sealedSubs>>, toRouter' \in [Client -> Seq(Wire)]
    PROVE  OnTheWay'
<1>1. /\ May \in [Client -> SUBSET Frame] /\ Delimiter \in Frame
      /\ \A c \in Client : Delimiter \in May[c]
  BY MayBeFrames
<1>2. /\ toClient \in Queues(Frame) /\ Paired(toClient)
      /\ \A c \in Client : \A k \in 1 .. Len(toClient[c]) : toClient[c][k] \in May[c]
  BY DEF OnTheWay
<1>3. May' = May
  BY DEF May, OpenDue, SealedDue
<1> HIDE DEF May
<1>4. /\ toClient' \in Queues(Frame)
      /\ \A c \in Client : \A k \in 1 .. Len(toClient'[c]) : toClient'[c][k] \in May[c]
  BY <1>1, <1>2, SendLoop
<1>5. \A i \in 1 .. Len(ids) : ids[i] \in Client /\ bodies[i] \in Frame
  BY <1>1
<1>6. Paired(toClient')
  BY <1>1, <1>2, <1>5, SendLoopPaired
<1> QED
  BY <1>3, <1>4, <1>6 DEF OnTheWay

LEMMA ReceiveKeepsInv ==
    ASSUME RouterInv, NEW c \in Client, Receive(c)
    PROVE  RouterInv'
<1> DEFINE m == Head(toRouter[c])[2]
<1>1. Stored /\ OnTheWay /\ toRouter \in [Client -> Seq(Wire)]
  BY DEF RouterInv, OnTheWay
<1>2. toRouter' \in [Client -> Seq(Wire)]
  <2>1. toRouter[c] \in Seq(Wire) /\ toRouter[c] # <<>>
    BY <1>1 DEF Receive
  <2>2. Tail(toRouter[c]) \in Seq(Wire)
    BY <2>1, HeadTailProperties
  <2>3. toRouter' = [toRouter EXCEPT ![c] = Tail(toRouter[c])]
    BY DEF Receive
  <2> QED
    BY <1>1, <2>2, <2>3
<1>3. PubsubMessage(m)
  BY DEF Receive
<1> HIDE DEF m
<1>4. CASE m = Empty /\ UNCHANGED <<openSubs, sealedSubs, dataTable, toClient>>
  <2>1. Stored'
    BY <1>1, <1>4 DEF Stored
  <2> QED
    BY <1>1, <1>2, <1>4, <2>1, StoringKeeps DEF RouterInv
<1>5. CASE m \in Sealed /\ EnclaveMatching(m)
  <2>1. Remember(m) /\ UNCHANGED openSubs
    BY <1>5 DEF EnclaveMatching
  <2>2. DOMAIN dataTable' = Headers
    BY <1>1, <2>1 DEF Stored, Remember
  <2>3. CASE SealedSubscribe(m)
    <3>1. Stored'
      BY <1>1, <2>1, <2>2, <2>3, FS_AddElement DEF Stored, SealedSubscribe
    <3> QED
      BY <1>1, <1>2, <2>1, <2>3, <3>1, StoringKeeps DEF RouterInv, SealedSubscribe
  <2>4. CASE SealedPublish(m)
    <3>1. UNCHANGED sealedSubs /\ m \in Pub \cap Sealed
      BY <1>5, <2>4 DEF SealedPublish
    <3>2. Stored'
      BY <1>1, <2>1, <2>2, <3>1 DEF Stored
    <3>3. PICK order \in SetToSeqs(MatchesIn(sealedSubs, m)) : \E ids, bodies :
              /\ Len(ids) = Len(order)
              /\ \A i \in 1 .. Len(order) :
                    ids[i] = Owner[order[i]] /\ bodies[i] = [hash |-> order[i], payload |-> m]
              /\ toClient' = AfterSendingAll(toClient, ids, bodies)
      BY <1>1, <1>5, <2>1, <2>4, SealedSends
    <3>4. PICK ids, bodies :
              /\ Len(ids) = Len(order)
              /\ \A i \in 1 .. Len(order) :
                    ids[i] = Owner[order[i]] /\ bodies[i] = [hash |-> order[i], payload |-> m]
              /\ toClient' = AfterSendingAll(toClient, ids, bodies)
      BY <3>3
    <3>5. IsFiniteSet(MatchesIn(sealedSubs, m))
      BY <1>1, FS_Subset DEF MatchesIn, Stored
    <3>6. Len(order) \in Nat /\ order \in [1 .. Len(order) -> MatchesIn(sealedSubs, m)]
      BY <3>5, Enumerated
    <3>7. ASSUME NEW i \in 1 .. Len(ids)
          PROVE  ids[i] \in Client /\ bodies[i] \in May[ids[i]]
      <4>1. /\ order[i] \in sealedSubs /\ <<order[i], Header[m]>> \in Matching
            /\ ids[i] = Owner[order[i]] /\ bodies[i] = [hash |-> order[i], payload |-> m]
        BY <3>4, <3>6 DEF MatchesIn
      <4>2. ids[i] \in Client
        BY <1>1, <4>1, RouterAssumption DEF Stored
      <4>3. bodies[i] \in SealedDue(ids[i])
        BY <3>1, <4>1 DEF SealedDue
      <4> QED
        BY <4>2, <4>3 DEF May
    <3>8. OnTheWay'
      BY <1>1, <1>2, <2>1, <3>1, <3>4, <3>6, <3>7, SendingKeeps
    <3> QED
      BY <3>2, <3>8 DEF RouterInv
  <2>5. CASE m \in Junk /\ UNCHANGED <<sealedSubs, toClient>>
    <3>1. Stored'
      BY <1>1, <2>1, <2>2, <2>5 DEF Stored
    <3> QED
      BY <1>1, <1>2, <2>1, <2>5, <3>1, StoringKeeps DEF RouterInv
  <2> QED
    BY <1>5, <2>3, <2>4, <2>5 DEF EnclaveMatching
<1>6. CASE m \in Message \ (Sealed \cup {Empty}) /\ OpenMatching(m)
  <2>1. UNCHANGED <<sealedSubs, dataTable>>
    BY <1>6 DEF OpenMatching
  <2>2. CASE OpenSubscribe(m)
    <3>1. Stored'
      BY <1>1, <2>1, <2>2, FS_AddElement DEF Stored, OpenSubscribe
    <3> QED
      BY <1>1, <1>2, <2>1, <2>2, <3>1, StoringKeeps DEF RouterInv, OpenSubscribe
  <2>3. CASE OpenPublish(m)
    <3>1. UNCHANGED openSubs /\ m \in Pub \ Sealed
      BY <1>6, <2>3 DEF OpenPublish
    <3>2. Stored'
      BY <1>1, <2>1, <3>1 DEF Stored
    <3>3. PICK order \in SetToSeqs(MatchesIn(openSubs, m)) : \E ids, bodies :
              /\ Len(ids) = Len(order)
              /\ \A i \in 1 .. Len(order) :
                    ids[i] = Owner[order[i]] /\ bodies[i] = [whole |-> m]
              /\ toClient' = AfterSendingAll(toClient, ids, bodies)
      BY <1>1, <2>3, OpenSends
    <3>4. PICK ids, bodies :
              /\ Len(ids) = Len(order)
              /\ \A i \in 1 .. Len(order) :
                    ids[i] = Owner[order[i]] /\ bodies[i] = [whole |-> m]
              /\ toClient' = AfterSendingAll(toClient, ids, bodies)
      BY <3>3
    <3>5. IsFiniteSet(MatchesIn(openSubs, m))
      BY <1>1, FS_Subset DEF MatchesIn, Stored
    <3>6. Len(order) \in Nat /\ order \in [1 .. Len(order) -> MatchesIn(openSubs, m)]
      BY <3>5, Enumerated
    <3>7. ASSUME NEW i \in 1 .. Len(ids)
          PROVE  ids[i] \in Client /\ bodies[i] \in May[ids[i]]
      <4>1. /\ order[i] \in openSubs /\ <<order[i], Header[m]>> \in Matching
            /\ ids[i] = Owner[order[i]] /\ bodies[i] = [whole |-> m]
        BY <3>4, <3>6 DEF MatchesIn
      <4>2. ids[i] \in Client
        BY <1>1, <4>1, RouterAssumption DEF Stored
      <4>3. bodies[i] \in OpenDue(ids[i])
        BY <3>1, <4>1 DEF OpenDue
      <4> QED
        BY <4>2, <4>3 DEF May
    <3>8. OnTheWay'
      BY <1>1, <1>2, <2>1, <3>1, <3>4, <3>6, <3>7, SendingKeeps
    <3> QED
      BY <3>2, <3>8 DEF RouterInv
  <2>4. CASE m \in Junk /\ UNCHANGED <<openSubs, toClient>>
    <3>1. Stored'
      BY <1>1, <2>1, <2>4 DEF Stored
    <3> QED
      BY <1>1, <1>2, <2>1, <2>4, <3>1, StoringKeeps DEF RouterInv
  <2> QED
    BY <1>6, <2>2, <2>3, <2>4 DEF OpenMatching
<1> QED
  BY <1>3, <1>4, <1>5, <1>6 DEF PubsubMessage

\* RouterInv holds in every reachable state.
THEOREM RouterInvariant == Spec => []RouterInv
<1>1. ASSUME RouterInv, [Next]_vars
      PROVE  RouterInv'
  <2>1. CASE UNCHANGED vars
    BY <1>1, <2>1 DEF vars, network, RouterInv, Stored, OnTheWay, May, OpenDue, SealedDue
  <2> QED
    BY <1>1, <2>1, ClientsKeepInv, ReceiveKeepsInv DEF Next
<1> QED
  BY <1>1, InitInv, PTL DEF Spec

\* Whatever is on its way to a client is its business: the hash of one of its
\* own subscriptions with a payload that matches it, or an open message that
\* matches one of its open subscriptions.
THEOREM NotificationsRight == Spec => []RightNotification
<1>1. RouterInv => RightNotification
  <2> SUFFICES ASSUME RouterInv, NEW c \in Client, NEW b \in Bodies(toClient, c)
               PROVE  IF "whole" \in DOMAIN b
                      THEN /\ b.whole \in Pub \ Sealed
                           /\ \E s \in openSubs : Owner[s] = c /\ <<s, Header[b.whole]>> \in Matching
                      ELSE /\ b.hash \in sealedSubs /\ Owner[b.hash] = c
                           /\ b.payload \in Pub \cap Sealed
                           /\ <<b.hash, Header[b.payload]>> \in Matching
    BY DEF RightNotification
  <2>1. b \in OpenDue(c) \/ b \in SealedDue(c)
    BY DEF RouterInv, OnTheWay, May, Bodies
  <2>2. CASE b \in OpenDue(c)
    <3>1. "whole" \in DOMAIN b
      BY <2>2 DEF OpenDue
    <3> QED
      BY <2>2, <3>1 DEF OpenDue
  <2>3. CASE b \in SealedDue(c)
    <3>1. "whole" \notin DOMAIN b
      BY <2>3 DEF SealedDue
    <3> QED
      BY <2>3, <3>1 DEF SealedDue
  <2> QED
    BY <2>1, <2>2, <2>3
<1> QED
  BY <1>1, RouterInvariant, PTL

-----------------------------------------------------------------------------
(* The router answers a publication.                                       *)

\* Only the router takes a message from a client's queue, and what it does
\* with a sealed publication is to remember it and to send it on.
LEMMA RouterHandles ==
    ASSUME RouterInv, [Next]_vars, NEW p \in Pub \cap Sealed, Handles(p)
    PROVE  Remember(p) /\ SealedPublish(p)
<1>1. PICK c \in Client :
         /\ toRouter[c] # <<>> /\ Head(toRouter[c])[2] = p
         /\ toRouter' = [toRouter EXCEPT ![c] = Tail(@)]
         /\ connected' = connected
  BY DEF Handles
<1>2. toRouter \in [Client -> Seq(Wire)]
  BY DEF RouterInv, OnTheWay
<1>3. toRouter[c] \in Seq(Wire) /\ Len(Tail(toRouter[c])) = Len(toRouter[c]) - 1 /\ Len(toRouter[c]) \in Nat
  BY <1>1, <1>2, HeadTailProperties
<1>4. toRouter'[c] = Tail(toRouter[c]) /\ toRouter'[c] # toRouter[c]
  <2>1. toRouter'[c] = Tail(toRouter[c])
    BY <1>1, <1>2
  <2> DEFINE t == Tail(toRouter[c])
             q == toRouter[c]
  <2>2. Len(t) = Len(q) - 1 /\ Len(q) \in Nat
    BY <1>3
  <2> HIDE DEF t, q
  <2>3. t # q
    BY <2>2
  <2> QED
    BY <2>1, <2>3 DEF t, q
<1>5. ASSUME NEW d \in Client, NEW m \in Message
      PROVE  ~Arrive(d, m)
  <2>1. SUFFICES ASSUME Arrive(d, m)
                 PROVE  FALSE
    OBVIOUS
  <2>2. <<Delimiter, m>> \in Wire
    BY DEF Wire
  <2>3. toRouter' = [toRouter EXCEPT ![d] = Append(toRouter[d], <<Delimiter, m>>)]
    BY <2>1 DEF Arrive
  <2>4. d = c
    BY <1>2, <1>4, <2>3
  <2>5. toRouter'[c] = Append(toRouter[c], <<Delimiter, m>>)
    BY <1>2, <2>3, <2>4
  <2>6. Len(toRouter'[c]) = Len(toRouter[c]) + 1
    BY <1>3, <2>2, <2>5
  <2> QED
    BY <1>3, <1>4, <2>6
<1>6. ASSUME NEW d \in Client
      PROVE  /\ ~Read(d) /\ ~ConnectionUp(d)
             /\ ~(d \in connected /\ ConnectionClosed(d))
  BY <1>1, <1>4 DEF Read, ConnectionUp, ConnectionClosed
<1>7. PICK d \in Client : Receive(d)
  BY <1>4, <1>5, <1>6 DEF Next, ClientNext, vars, network
<1>8. d = c
  BY <1>2, <1>4, <1>7 DEF Receive
<1>9. PubsubMessage(p)
  BY <1>1, <1>7, <1>8 DEF Receive
<1> QED
  BY <1>9, RouterAssumption DEF PubsubMessage, EnclaveMatching, SealedSubscribe

\* A publication is answered with its own payload, whatever an earlier
\* publication with the same header left in data_table_.
THEOREM PayloadFresh == Spec => FreshPayload
<1>1. ASSUME RouterInv, [Next]_vars, NEW p \in Pub \cap Sealed, Handles(p),
             NEW c \in Client, NEW b \in Bodies(toClient', c) \ Bodies(toClient, c)
      PROVE  b.payload = p
  <2> DEFINE subs == MatchesIn(sealedSubs, p)
             Was(d) == {toClient[d][k] : k \in 1 .. Len(toClient[d])}
             Now == [d \in Client |-> {Delimiter} \cup Was(d) \cup [hash : Sub, payload : {p}]]
  <2>1. Stored /\ OnTheWay
    BY <1>1 DEF RouterInv
  <2>2. Remember(p) /\ SealedPublish(p)
    BY <1>1, RouterHandles
  <2>3. PICK order \in SetToSeqs(subs) : \E ids, bodies :
           /\ Len(ids) = Len(order)
           /\ \A i \in 1 .. Len(order) :
                 ids[i] = Owner[order[i]] /\ bodies[i] = [hash |-> order[i], payload |-> p]
           /\ toClient' = AfterSendingAll(toClient, ids, bodies)
    BY <2>1, <2>2, SealedSends
  <2>4. PICK ids, bodies :
           /\ Len(ids) = Len(order)
           /\ \A i \in 1 .. Len(order) :
                 ids[i] = Owner[order[i]] /\ bodies[i] = [hash |-> order[i], payload |-> p]
           /\ toClient' = AfterSendingAll(toClient, ids, bodies)
    BY <2>3
  <2>5. subs \subseteq Sub /\ IsFiniteSet(subs)
    BY <2>1, FS_Subset DEF Stored, MatchesIn
  <2> HIDE DEF subs
  <2>6. Len(order) \in Nat /\ order \in [1 .. Len(order) -> subs]
    BY <2>5, Enumerated
  <2>7. toClient \in Queues(Frame) /\ Delimiter \in Frame
    BY <2>1 DEF OnTheWay, Frame
  <2>8. \A d \in Client : Was(d) \subseteq Frame
    BY <2>7 DEF Queues
  <2>9. Now \in [Client -> SUBSET Frame] /\ \A d \in Client : Delimiter \in Now[d]
    <3>1. [hash : Sub, payload : {p}] \subseteq Frame
      BY DEF Frame
    <3> HIDE DEF Was
    <3> QED
      BY <2>7, <2>8, <3>1
  <2>10. \A d \in Client : \A k \in 1 .. Len(toClient[d]) : toClient[d][k] \in Now[d]
    OBVIOUS
  <2>11. \A i \in 1 .. Len(ids) : ids[i] \in Client /\ bodies[i] \in Now[ids[i]]
    <3>1. SUFFICES ASSUME NEW i \in 1 .. Len(ids)
                   PROVE  ids[i] \in Client /\ bodies[i] \in Now[ids[i]]
      OBVIOUS
    <3>2. order[i] \in Sub /\ ids[i] = Owner[order[i]] /\ bodies[i] = [hash |-> order[i], payload |-> p]
      BY <2>4, <2>5, <2>6
    <3>3. ids[i] \in Client /\ bodies[i] \in [hash : Sub, payload : {p}]
      BY <3>2, RouterAssumption
    <3> QED
      BY <3>3
  <2> HIDE DEF Now
  <2>12. \A d \in Client : \A k \in 1 .. Len(toClient'[d]) : toClient'[d][k] \in Now[d]
    BY <2>4, <2>6, <2>7, <2>9, <2>10, <2>11, SendLoop
  <2>13. b \in Now[c] /\ b # Delimiter /\ b \notin Was(c)
    BY <1>1, <2>12 DEF Bodies
  <2> QED
    BY <2>13 DEF Now
<1>2. RouterInv /\ [Next]_vars =>
         (\A p \in Pub \cap Sealed : Handles(p) =>
             \A c \in Client : \A b \in Bodies(toClient', c) \ Bodies(toClient, c) : b.payload = p)
  BY <1>1
<1> QED
  BY <1>2, RouterInvariant, PTL DEF Spec, FreshPayload

\* Every stored subscription that matches a publication gets its notification,
\* as long as its owner is connected and has room for all that are its own:
\* what the loop sends to others, in whatever order, takes none of that room.
THEOREM Notified == Spec => AllNotified
<1>1. ASSUME RouterInv, [Next]_vars, NEW p \in Pub \cap Sealed, Handles(p),
             NEW s \in MatchesIn(sealedSubs, p), Owner[s] \in connected,
             Len(toClient[Owner[s]])
                + 2 * Cardinality({t \in MatchesIn(sealedSubs, p) : Owner[t] = Owner[s]}) <= 2 * Hwm
      PROVE  [hash |-> s, payload |-> p] \in Bodies(toClient', Owner[s])
  <2> DEFINE subs == MatchesIn(sealedSubs, p)
             c == Owner[s]
             mine == {t \in subs : Owner[t] = c}
  <2>1. Stored /\ OnTheWay
    BY <1>1 DEF RouterInv
  <2>2. Remember(p) /\ SealedPublish(p)
    BY <1>1, RouterHandles
  <2>3. PICK order \in SetToSeqs(subs) : \E ids, bodies :
           /\ Len(ids) = Len(order)
           /\ \A i \in 1 .. Len(order) :
                 ids[i] = Owner[order[i]] /\ bodies[i] = [hash |-> order[i], payload |-> p]
           /\ toClient' = AfterSendingAll(toClient, ids, bodies)
    BY <2>1, <2>2, SealedSends
  <2>4. PICK ids, bodies :
           /\ Len(ids) = Len(order)
           /\ \A i \in 1 .. Len(order) :
                 ids[i] = Owner[order[i]] /\ bodies[i] = [hash |-> order[i], payload |-> p]
           /\ toClient' = AfterSendingAll(toClient, ids, bodies)
    BY <2>3
  <2>5. subs \subseteq Sub /\ IsFiniteSet(subs)
    BY <2>1, FS_Subset DEF Stored, MatchesIn
  <2>6. c \in Client /\ s \in subs
    BY <2>5, RouterAssumption
  <2>7. Len(toClient[c]) + 2 * Cardinality(mine) <= 2 * Hwm /\ c \in connected
    BY <1>1
  <2> HIDE DEF subs, c
  <2>8. /\ Len(order) \in Nat /\ order \in [1 .. Len(order) -> subs]
        /\ \A i, j \in 1 .. Len(order) : i # j => order[i] # order[j]
        /\ \A t \in subs : \E i \in 1 .. Len(order) : order[i] = t
    BY <2>5, Enumerated
  <2> DEFINE n == Len(order)
             turns == {j \in 1 .. n : ids[j] = c}
  <2>9. Cardinality(turns) \in Nat /\ Cardinality(mine) \in Nat /\ Cardinality(turns) <= Cardinality(mine)
    <3> DEFINE f == [j \in turns |-> order[j]]
    <3>1. f \in Injection(turns, mine)
      BY <2>4, <2>8 DEF Injection, IsInjective
    <3>2. IsFiniteSet(mine)
      BY <2>5, FS_Subset
    <3> HIDE DEF f, turns, mine
    <3> QED
      BY <3>1, <3>2, FS_Injection, FS_CardinalityType
  <2>10. toClient \in Queues(Frame) /\ Delimiter \in Frame /\ Len(toClient[c]) \in Nat
    BY <2>1, <2>6 DEF OnTheWay, Frame, Queues
  <2>11. \A i \in 1 .. Len(ids) : ids[i] \in Client /\ bodies[i] \in Frame
    <3>1. SUFFICES ASSUME NEW i \in 1 .. Len(ids)
                   PROVE  ids[i] \in Client /\ bodies[i] \in Frame
      OBVIOUS
    <3>2. order[i] \in Sub /\ ids[i] = Owner[order[i]] /\ bodies[i] = [hash |-> order[i], payload |-> p]
      BY <2>4, <2>5, <2>8
    <3> QED
      BY <3>2, RouterAssumption DEF Frame
  <2>12. Len(toClient[c]) + 2 * Cardinality(turns) <= 2 * Hwm
    <3>1. \A l, x, y, h \in Nat : l + 2 * y <= h /\ x <= y => l + 2 * x <= h
      OBVIOUS
    <3>2. 2 * Hwm \in Nat
      BY NetworkAssumption
    <3> HIDE DEF turns, mine
    <3> QED
      BY <2>7, <2>9, <2>10, <3>1, <3>2
  <2>13. /\ Len(toClient[c]) + 2 * Cardinality(Turns(ids, c)) <= 2 * Hwm
         /\ Len(ids) \in Nat
    BY <2>4, <2>8, <2>12 DEF Turns
  <2> HIDE DEF turns, n, mine
  <2> DEFINE sent == AfterSendingAll(toClient, ids, bodies)
  <2>14. \A j \in 1 .. Len(ids) : ids[j] = c =>
            \E k \in 1 .. Len(toClient'[c]) : toClient'[c][k] = bodies[j]
    <3>1. \A j \in 1 .. Len(ids) : ids[j] = c =>
             \E k \in 1 .. Len(sent[c]) : sent[c][k] = bodies[j]
      BY <2>6, <2>7, <2>10, <2>11, <2>13, SendLoopDelivers
    <3> QED
      BY <2>4, <3>1
  <2>15. PICK j \in 1 .. Len(order) : order[j] = s
    BY <2>6, <2>8
  <2>16. PICK k \in 1 .. Len(toClient'[c]) : toClient'[c][k] = [hash |-> s, payload |-> p]
    BY <2>4, <2>14, <2>15 DEF c
  <2>17. [hash |-> s, payload |-> p] # Delimiter
    BY <2>5, <2>6, DelimiterNoBody
  <2> QED
    BY <2>16, <2>17 DEF Bodies, c
<1>2. RouterInv /\ [Next]_vars =>
         (\A p \in Pub \cap Sealed : Handles(p) =>
             \A s \in MatchesIn(sealedSubs, p) :
                LET c == Owner[s]
                    mine == {t \in MatchesIn(sealedSubs, p) : Owner[t] = c}
                IN  c \in connected /\ Len(toClient[c]) + 2 * Cardinality(mine) <= 2 * Hwm
                    => [hash |-> s, payload |-> p] \in Bodies(toClient', c))
  BY <1>1
<1> QED
  BY <1>2, RouterInvariant, PTL DEF Spec, AllNotified
=============================================================================
