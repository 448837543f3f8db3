----------------------------- MODULE RelayProofs -----------------------------
(***************************************************************************)
(* The samples around the router, for any number of consumers, any lines   *)
(* and any file: which subscriptions are in force when a publication is    *)
(* handled, and what a consumer prints.                                    *)
(*                                                                         *)
(* The order of all that happens is the order in which the producer sends: *)
(* what the router has not handled yet is the tail of `sent`, so that the  *)
(* stored subscriptions are those of its head, and every notification that *)
(* was printed or is on its way has its place in it.                       *)
(***************************************************************************)
EXTENDS Relay, NetworkProofs

-----------------------------------------------------------------------------
(* The inductive invariant.                                                *)

\* A message as a client sends it, and the frames that the router sends.
Wire == {Delimiter} \X Message
Frame == {Delimiter} \cup [whole : Pub] \cup [hash : Sub, payload : Pub]

\* A notification of a sealed publication of the file, without its delimiter.
Note == [hash : Sub, payload : Range(File)]

Typed ==
    /\ toRouter \in [Client -> Seq(Wire)]
    /\ toClient \in Queues(Frame)
    /\ openSubs \subseteq {OwnSub}
    /\ sealedSubs \subseteq Range(Relayed) /\ IsFiniteSet(sealedSubs)
    /\ DOMAIN dataTable = Headers
    /\ relaying \in Announcements
    /\ fileAt \in 0 .. Len(File)
    /\ lineAt \in [Consumer -> Nat]
    /\ printed \in [Consumer -> Seq(Note)]
    /\ sent \in Seq(Message)

\* The lines of the file that were sent, and nothing of the file is sent twice.
Published == {File[k] : k \in 1 .. fileAt}

SentOnce ==
    /\ \A i \in 1 .. Len(sent) : sent[i] \in {OwnSub} \cup Range(Relayed) \cup Published
    /\ \A i, j \in 1 .. Len(sent) : sent[i] = sent[j] /\ sent[i] \in Range(File) => i = j

\* How many messages of the producer the router has handled.
Handled == Len(sent) - Len(toRouter[Producer])

\* What waits for the router is the tail of what was sent, and the sealed
\* subscriptions it stores are those that were passed on before it.
Upward ==
    /\ Handled \in Nat
    /\ \A k \in 1 .. Len(toRouter[Producer]) : toRouter[Producer][k][2] = sent[Handled + k]
    /\ \A s \in Range(Relayed) : s \in sealedSubs <=> \E k \in 1 .. Handled : sent[k] = s

\* Consumers send announcements, and only they reach the producer.
Announced ==
    /\ \A c \in Consumer : \A k \in 1 .. Len(toRouter[c]) : toRouter[c][k][2] \in Announcements
    /\ Whole(toClient[Producer], [whole : Announcements])

\* After the history s, of which h messages are handled, the notification b is
\* right for consumer c; b has its turn before d.
Right(s, h, c, b) ==
    /\ b \in Note /\ Owner[b.hash] = c
    /\ <<b.hash, Header[b.payload]>> \in Matching
    /\ \E i, j \in 1 .. h : i < j /\ s[i] = b.hash /\ s[j] = b.payload

InTurn(s, b, d) ==
    b # d /\ \E i, j \in 1 .. Len(s) : i <= j /\ s[i] = b.payload /\ s[j] = d.payload

\* What a consumer has printed (p) and what is on its way to it (q).
Ordered(s, h, c, p, q) ==
    /\ \A i \in 1 .. Len(p) : Right(s, h, c, p[i])
    /\ \A k \in 1 .. Len(q) : q[k] # Delimiter => Right(s, h, c, q[k])
    /\ \A i, j \in 1 .. Len(p) : i < j => InTurn(s, p[i], p[j])
    /\ \A i \in 1 .. Len(p) : \A k \in 1 .. Len(q) : q[k] # Delimiter => InTurn(s, p[i], q[k])
    /\ \A k, l \in 1 .. Len(q) :
          k < l /\ q[k] # Delimiter /\ q[l] # Delimiter => InTurn(s, q[k], q[l])

Downward(c) == Ordered(sent, Handled, c, printed[c], toClient[c])

Inv == Typed /\ SentOnce /\ Upward /\ Announced /\ \A c \in Consumer : Downward(c)

-----------------------------------------------------------------------------
(* The messages.                                                           *)

LEMMA Kinds ==
    /\ OwnSub \in Sub \ Sealed
    /\ Range(Relayed) \subseteq Sub \cap Sealed
    /\ Range(File) \subseteq Pub \cap Sealed
    /\ Announcements \subseteq Pub \ Sealed
    /\ Sub \cap Pub = {}
    /\ Producer \in Client /\ Producer \notin Consumer /\ Client = Consumer \cup {Producer}
    /\ \A k \in 1 .. Len(File) : File[k] \in Range(File)
    /\ \A a \in Announcements : Relayed[a] \in Range(Relayed)
    /\ \A s \in Range(Relayed) : Owner[s] \in Consumer
    /\ Len(File) \in Nat
<1>1. \A c \in Consumer : Lines[c] \in Seq(Pub \ Sealed)
  BY RelayAssumption
<1>2. \A c \in Consumer : Range(Lines[c]) \subseteq Pub \ Sealed
  BY <1>1 DEF Range
<1>3. Announcements \subseteq Pub \ Sealed
  BY <1>2 DEF Announcements
<1>4. DOMAIN File = 1 .. Len(File) /\ Len(File) \in Nat /\ \A k \in 1 .. Len(File) : File[k] \in Pub \cap Sealed
  BY RelayAssumption
<1>5. Range(File) = {File[k] : k \in 1 .. Len(File)}
  BY <1>4 DEF Range
<1>6. Range(Relayed) = {Relayed[a] : a \in Announcements}
  BY RelayAssumption DEF Range
<1> QED
  BY <1>3, <1>4, <1>5, <1>6, RelayAssumption, RouterAssumption DEF Consumer

LEMMA InitInv == Init => Inv
<1> SUFFICES ASSUME Init
             PROVE  Inv
  OBVIOUS
<1> USE DEF Init, NetworkInit, RouterInit
<1>1. /\ toRouter \in [Client -> Seq(Wire)] /\ toClient \in [Client -> Seq(Frame)]
      /\ printed \in [Consumer -> Seq(Note)] /\ sent \in Seq(Message)
  BY EmptySeq
<1>2. Typed
  BY <1>1, Kinds, FS_EmptySet DEF Typed, Queues
<1>3. Len(<<>>) = 0 /\ 1 .. 0 = {} /\ 0 = 2 * 0 /\ 0 \in Nat
  OBVIOUS
<1>4. /\ \A c \in Client : Len(toRouter[c]) = 0 /\ Len(toClient[c]) = 0
      /\ \A c \in Consumer : Len(printed[c]) = 0
      /\ Len(sent) = 0 /\ sealedSubs = {}
  BY <1>3
<1>5. Producer \in Client /\ Consumer \subseteq Client
  BY Kinds
<1>6. SentOnce /\ Upward
  BY <1>3, <1>4, <1>5 DEF SentOnce, Upward, Handled
<1>7. Announced
  <2>1. \A k \in Nat : ~(2 * k + 2 <= 0)
    OBVIOUS
  <2> QED
    BY <1>3, <1>4, <1>5, <2>1 DEF Announced, Whole
<1>8. \A c \in Consumer : Downward(c)
  BY <1>3, <1>4, <1>5 DEF Downward, Ordered
<1> QED
  BY <1>2, <1>6, <1>7, <1>8 DEF Inv

-----------------------------------------------------------------------------
(* What stays.                                                             *)

\* The history only grows.
Grows ==
    /\ Len(sent) \in Nat /\ Len(sent') \in Nat /\ Len(sent) <= Len(sent')
    /\ \A i \in 1 .. Len(sent) : sent'[i] = sent[i]
    /\ Handled \in Nat /\ Handled' \in Nat /\ Handled <= Len(sent) /\ Handled <= Handled'

LEMMA RightStays ==
    ASSUME Grows
    PROVE  /\ \A c, b : Right(sent, Handled, c, b) => Right(sent', Handled', c, b)
           /\ \A b, d : InTurn(sent, b, d) => InTurn(sent', b, d)
<1>1. 1 .. Len(sent) \subseteq 1 .. Len(sent') /\ 1 .. Handled \subseteq 1 .. Handled'
      /\ 1 .. Handled \subseteq 1 .. Len(sent)
  BY DEF Grows
<1>2. ASSUME NEW c, NEW b, Right(sent, Handled, c, b)
      PROVE  Right(sent', Handled', c, b)
  <2>1. PICK i, j \in 1 .. Handled : i < j /\ sent[i] = b.hash /\ sent[j] = b.payload
    BY <1>2 DEF Right
  <2>2. i \in 1 .. Handled' /\ j \in 1 .. Handled' /\ sent'[i] = b.hash /\ sent'[j] = b.payload
    BY <1>1, <2>1 DEF Grows
  <2> QED
    BY <1>2, <2>1, <2>2 DEF Right
<1>3. ASSUME NEW b, NEW d, InTurn(sent, b, d)
      PROVE  InTurn(sent', b, d)
  <2>1. PICK i, j \in 1 .. Len(sent) : i <= j /\ sent[i] = b.payload /\ sent[j] = d.payload
    BY <1>3 DEF InTurn
  <2>2. i \in 1 .. Len(sent') /\ j \in 1 .. Len(sent') /\ sent'[i] = b.payload /\ sent'[j] = d.payload
    BY <1>1, <2>1 DEF Grows
  <2> QED
    BY <1>3, <2>1, <2>2 DEF InTurn
<1> QED
  BY <1>2, <1>3

LEMMA DownwardStays ==
    ASSUME Grows, NEW c, Downward(c), printed'[c] = printed[c], toClient'[c] = toClient[c]
    PROVE  Downward(c)'
<1>1. /\ \A b : Right(sent, Handled, c, b) => Right(sent', Handled', c, b)
      /\ \A b, d : InTurn(sent, b, d) => InTurn(sent', b, d)
  BY RightStays
<1>2. Ordered(sent', Handled', c, printed[c], toClient[c])
  BY <1>1 DEF Downward, Ordered
<1> QED
  BY <1>2 DEF Downward

\* No step but the router's takes anything from the producer's queue.
LEMMA GrowsSame ==
    ASSUME Inv, sent' = sent, toRouter'[Producer] = toRouter[Producer]
    PROVE  Grows /\ Handled' = Handled
<1>1. Len(sent) \in Nat /\ Handled \in Nat
  BY DEF Inv, Typed, Upward
<1>2. Len(toRouter[Producer]) \in Nat
  BY Kinds DEF Inv, Typed
<1>3. Handled' = Handled
  BY DEF Handled
<1>4. Handled <= Len(sent)
  BY <1>1, <1>2 DEF Handled
<1> HIDE DEF Handled
<1> QED
  BY <1>1, <1>3, <1>4 DEF Grows

-----------------------------------------------------------------------------
(* The steps of the clients.                                               *)

\* The producer sends a message that it may send.
LEMMA ProducerSendsInv ==
    ASSUME Inv, NEW m, ProducerSends(m), UNCHANGED router,
           relaying' = relaying, fileAt' \in fileAt .. Len(File),
           m \in {OwnSub} \cup Range(Relayed) \cup Published', m \notin Published
    PROVE  Inv'
<1> USE DEF Inv
<1> DEFINE q == toRouter[Producer]
           qq == toRouter'[Producer]
           x == <<Delimiter, m>>
<1>1. /\ toRouter \in [Client -> Seq(Wire)] /\ sent \in Seq(Message)
      /\ fileAt \in 0 .. Len(File) /\ Len(File) \in Nat
  BY Kinds DEF Typed
<1>2. Published \subseteq Published' /\ Published' \subseteq Range(File)
  <2>1. 1 .. fileAt \subseteq 1 .. fileAt' /\ 1 .. fileAt' \subseteq 1 .. Len(File)
    BY <1>1
  <2> QED
    BY <2>1, Kinds DEF Published
<1>3. m \in Message /\ x \in Wire
  <2>1. m \in Sub \cup Pub
    BY <1>2, Kinds
  <2> QED
    BY <2>1 DEF Message, Wire
<1>4. sent' = Append(sent, m) /\ toRouter' = [toRouter EXCEPT ![Producer] = Append(q, x)]
      /\ UNCHANGED <<connected, toClient, lineAt, printed, gone>>
  BY DEF ProducerSends, Send
<1>5. /\ sent' \in Seq(Message) /\ Len(sent) \in Nat /\ Len(sent') = Len(sent) + 1
      /\ \A i \in 1 .. Len(sent) : sent'[i] = sent[i]
      /\ sent'[Len(sent) + 1] = m
  BY <1>1, <1>3, <1>4
<1>6. q \in Seq(Wire)
  BY <1>1, Kinds
<1>7. /\ qq = Append(q, x) /\ \A c \in Client : c # Producer => toRouter'[c] = toRouter[c]
      /\ toRouter' \in [Client -> Seq(Wire)]
  BY <1>1, <1>3, <1>4, <1>6, Kinds
<1>8. /\ Len(q) \in Nat /\ Len(qq) = Len(q) + 1
      /\ \A k \in 1 .. Len(q) : qq[k] = q[k]
      /\ qq[Len(q) + 1] = x
  BY <1>3, <1>6, <1>7
<1>9. Handled' = Handled /\ Handled \in Nat /\ Handled = Len(sent) - Len(q)
  <2>1. Handled' = Len(sent') - Len(qq) /\ Handled = Len(sent) - Len(q) /\ Handled \in Nat
    BY DEF Handled, Upward
  <2> QED
    BY <1>5, <1>8, <2>1
<1>10. x[2] = m
  OBVIOUS
<1> HIDE DEF q, qq, x
<1>11. Grows
  <2>1. Handled <= Len(sent)
    BY <1>5, <1>8, <1>9
  <2> QED
    BY <1>5, <1>9, <2>1 DEF Grows
<1>12. Typed'
  <2>1. fileAt' \in 0 .. Len(File)
    BY <1>1
  <2> QED
    BY <1>4, <1>5, <1>7, <2>1 DEF Typed, router
<1>13. SentOnce'
  <2>1. \A i \in 1 .. Len(sent') : i \in 1 .. Len(sent) \/ i = Len(sent) + 1
    BY <1>5
  <2>2. \A i \in 1 .. Len(sent') : sent'[i] \in {OwnSub} \cup Range(Relayed) \cup Published'
    BY <1>2, <1>5, <2>1 DEF SentOnce
  <2>3. \A i \in 1 .. Len(sent) : sent[i] \in Range(File) => sent[i] # m
    BY <1>2, Kinds DEF SentOnce
  <2>4. \A i, j \in 1 .. Len(sent') : sent'[i] = sent'[j] /\ sent'[i] \in Range(File) => i = j
    BY <1>5, <2>1, <2>3 DEF SentOnce
  <2> QED
    BY <2>2, <2>4 DEF SentOnce
<1>14. Upward'
  <2>1. ASSUME NEW k \in 1 .. Len(qq)
        PROVE  qq[k][2] = sent'[Handled + k]
    <3>1. CASE k \in 1 .. Len(q)
      <4>1. Handled + k \in 1 .. Len(sent)
        BY <1>5, <1>8, <1>9, <3>1
      <4>2. q[k][2] = sent[Handled + k]
        BY <3>1 DEF Upward, q
      <4> QED
        BY <1>5, <1>8, <3>1, <4>1, <4>2
    <3>2. CASE k = Len(q) + 1
      <4>1. Handled + k = Len(sent) + 1
        BY <1>5, <1>8, <1>9, <3>2
      <4> QED
        BY <1>5, <1>8, <1>10, <3>2, <4>1
    <3> QED
      BY <1>8, <3>1, <3>2
  <2>2. ASSUME NEW k \in 1 .. Handled
        PROVE  sent'[k] = sent[k]
    <3>1. k \in 1 .. Len(sent)
      BY <1>5, <1>8, <1>9
    <3> QED
      BY <1>5, <3>1
  <2>3. sealedSubs' = sealedSubs
    BY DEF router
  <2>4. \A s \in Range(Relayed) : s \in sealedSubs' <=> \E k \in 1 .. Handled' : sent'[k] = s
    BY <1>9, <2>2, <2>3 DEF Upward
  <2> QED
    BY <1>9, <2>1, <2>4 DEF Upward, qq
<1>15. Announced'
  BY <1>4, <1>7, Kinds DEF Announced
<1>16. \A c \in Consumer : Downward(c)'
  BY <1>4, <1>11, DownwardStays
<1> QED
  BY <1>12, <1>13, <1>14, <1>15, <1>16

\* A step that sends nothing for the producer, and that only a consumer sees.
LEMMA ConsumerKeeps ==
    ASSUME Inv, UNCHANGED router, UNCHANGED <<relaying, fileAt, sent>>,
           NEW c \in Consumer,
           toRouter' \in [Client -> Seq(Wire)], toClient' \in Queues(Frame),
           \A d \in Client : d # c => toRouter'[d] = toRouter[d] /\ toClient'[d] = toClient[d],
           lineAt' \in [Consumer -> Nat], printed' \in [Consumer -> Seq(Note)],
           \A d \in Consumer : d # c => printed'[d] = printed[d],
           \A k \in 1 .. Len(toRouter'[c]) : toRouter'[c][k][2] \in Announcements,
           Grows => Downward(c)'
    PROVE  Inv'
<1> USE DEF Inv
<1>1. toRouter'[Producer] = toRouter[Producer] /\ toClient'[Producer] = toClient[Producer]
  BY Kinds
<1>2. Grows /\ Handled' = Handled
  BY <1>1, GrowsSame
<1>3. Typed'
  BY DEF Typed, router
<1>4. SentOnce'
  BY DEF SentOnce, Published
<1>5. Upward'
  BY <1>1, <1>2 DEF Upward, router
<1>6. Announced'
  BY <1>1, Kinds DEF Announced
<1>7. \A d \in Consumer : Downward(d)'
  BY <1>2, DownwardStays, Kinds
<1> QED
  BY <1>3, <1>4, <1>5, <1>6, <1>7

LEMMA AnnounceInv ==
    ASSUME Inv, UNCHANGED router, NEW c \in Consumer, Announce(c)
    PROVE  Inv'
<1> DEFINE a == Lines[c][lineAt[c] + 1]
           q == toRouter[c]
           qq == toRouter'[c]
           x == <<Delimiter, a>>
<1>1. toRouter \in [Client -> Seq(Wire)] /\ lineAt \in [Consumer -> Nat] /\ Lines[c] \in Seq(Pub \ Sealed)
  BY RelayAssumption DEF Inv, Typed
<1>2. lineAt[c] + 1 \in DOMAIN Lines[c]
  BY <1>1 DEF Announce
<1>3. a \in Announcements
  BY <1>2 DEF Announcements, Range
<1>4. x \in Wire /\ x[2] = a
  BY <1>3, Kinds DEF Wire, Message
<1>5. /\ toRouter' = [toRouter EXCEPT ![c] = Append(q, x)]
      /\ lineAt' = [lineAt EXCEPT ![c] = @ + 1]
      /\ UNCHANGED <<toClient, printed, relaying, fileAt, sent>>
  BY DEF Announce, Send, ProducerUnchanged
<1>6. q \in Seq(Wire) /\ c \in Client
  BY <1>1, Kinds
<1> HIDE DEF x
<1>7. toRouter' \in [Client -> Seq(Wire)] /\ qq = Append(q, x)
      /\ \A d \in Client : d # c => toRouter'[d] = toRouter[d]
  BY <1>1, <1>4, <1>5, <1>6
<1>8. lineAt' \in [Consumer -> Nat]
  BY <1>1, <1>5
<1>9. Len(q) \in Nat /\ Len(qq) = Len(q) + 1 /\ (\A k \in 1 .. Len(q) : qq[k] = q[k]) /\ qq[Len(q) + 1] = x
  BY <1>4, <1>6, <1>7
<1>10. \A k \in 1 .. Len(q) : q[k][2] \in Announcements
  BY DEF Inv, Announced
<1> HIDE DEF q, qq, a
<1>11. \A k \in 1 .. Len(qq) : qq[k][2] \in Announcements
  <2>1. \A k \in 1 .. Len(qq) : k \in 1 .. Len(q) \/ k = Len(q) + 1
    BY <1>9
  <2> QED
    BY <1>3, <1>4, <1>9, <1>10, <2>1
<1>12. Grows => Downward(c)'
  BY <1>5, DownwardStays DEF Inv
<1>13. toClient' \in Queues(Frame) /\ printed' \in [Consumer -> Seq(Note)]
  BY <1>5 DEF Inv, Typed
<1> QED
  BY <1>5, <1>7, <1>8, <1>11, <1>12, <1>13, ConsumerKeeps DEF qq

\* A consumer takes a frame: a delimiter is dropped, a notification printed.
LEMMA IncomeInv ==
    ASSUME Inv, UNCHANGED router, NEW c \in Consumer, Income(c)
    PROVE  Inv'
<1> DEFINE q == toClient[c]
           qq == toClient'[c]
           p == printed[c]
           pp == printed'[c]
           b == Head(q)
<1>1. /\ toClient \in [Client -> Seq(Frame)] /\ printed \in [Consumer -> Seq(Note)]
      /\ toRouter \in [Client -> Seq(Wire)] /\ lineAt \in [Consumer -> Nat] /\ c \in Client
  BY Kinds DEF Inv, Typed, Queues
<1>2. q \in Seq(Frame) /\ q # <<>> /\ p \in Seq(Note)
  BY <1>1 DEF Income
<1>3. Tail(q) \in Seq(Frame)
  BY <1>2
<1>4. /\ toClient' = [toClient EXCEPT ![c] = Tail(q)]
      /\ UNCHANGED <<connected, toRouter, lineAt, gone, relaying, fileAt, sent>>
      /\ printed' = IF b = Delimiter THEN printed ELSE [printed EXCEPT ![c] = Append(p, b)]
  BY DEF Income, ProducerUnchanged
<1>5. toClient' \in [Client -> Seq(Frame)] /\ qq = Tail(q) /\ \A d \in Client : d # c => toClient'[d] = toClient[d]
  BY <1>1, <1>3, <1>4
<1>6. /\ Len(q) \in Nat /\ Len(q) # 0 /\ Len(qq) = Len(q) - 1 /\ b = q[1]
      /\ \A k \in 1 .. Len(qq) : qq[k] = q[k + 1]
  BY <1>2, <1>3, <1>5, HeadTailProperties, EmptySeq
<1>7. Downward(c)
  BY DEF Inv
<1>8. \A k \in 1 .. Len(qq) : k + 1 \in 1 .. Len(q) /\ 1 < k + 1
  BY <1>6
<1>9. 1 \in 1 .. Len(q) /\ Len(p) \in Nat
  BY <1>2, <1>6
<1>10. printed' \in [Consumer -> Seq(Note)] /\ \A d \in Consumer : d # c => printed'[d] = printed[d]
  <2>1. CASE b = Delimiter
    BY <1>1, <1>4, <2>1
  <2>2. CASE b # Delimiter
    <3>1. b \in Note
      BY <1>6, <1>7, <1>9, <2>2 DEF Downward, Ordered, Right
    <3>2. Append(p, b) \in Seq(Note)
      BY <1>2, <3>1
    <3> QED
      BY <1>1, <1>4, <2>2, <3>2
  <2> QED
    BY <2>1, <2>2
<1>11. \/ b = Delimiter /\ pp = p
       \/ /\ b # Delimiter /\ Right(sent, Handled, c, b)
          /\ Len(pp) = Len(p) + 1 /\ (\A i \in 1 .. Len(p) : pp[i] = p[i]) /\ pp[Len(p) + 1] = b
  <2>1. CASE b = Delimiter
    BY <1>4, <2>1
  <2>2. CASE b # Delimiter
    <3>1. Right(sent, Handled, c, b)
      BY <1>6, <1>7, <1>9, <2>2 DEF Downward, Ordered
    <3>2. b \in Note
      BY <3>1 DEF Right
    <3>3. pp = Append(p, b)
      BY <1>1, <1>4, <2>2
    <3> QED
      BY <1>2, <2>2, <3>1, <3>2, <3>3
  <2> QED
    BY <2>1, <2>2
<1>12. ASSUME Grows
       PROVE  Downward(c)'
  <2> DEFINE Now(x) == Right(sent', Handled', c, x)
             Turn(x, y) == InTurn(sent', x, y)
  <2>1. /\ \A x : Right(sent, Handled, c, x) => Now(x)
        /\ \A x, y : InTurn(sent, x, y) => Turn(x, y)
    BY <1>12, RightStays
  <2>2. /\ \A i \in 1 .. Len(p) : Now(p[i])
        /\ \A k \in 1 .. Len(q) : q[k] # Delimiter => Now(q[k])
        /\ \A i, j \in 1 .. Len(p) : i < j => Turn(p[i], p[j])
        /\ \A i \in 1 .. Len(p) : \A k \in 1 .. Len(q) : q[k] # Delimiter => Turn(p[i], q[k])
        /\ \A k, l \in 1 .. Len(q) :
              k < l /\ q[k] # Delimiter /\ q[l] # Delimiter => Turn(q[k], q[l])
    BY <1>7, <2>1 DEF Downward, Ordered
  <2> HIDE DEF q, qq, p, pp, b, Now, Turn
  <2>3. \A i \in 1 .. Len(pp) :
           (i \in 1 .. Len(p) /\ pp[i] = p[i]) \/ (b # Delimiter /\ i = Len(p) + 1 /\ pp[i] = b)
    BY <1>9, <1>11
  <2>4. \A i \in 1 .. Len(pp) : Now(pp[i])
    BY <1>6, <1>9, <2>2, <2>3
  <2>5. \A k \in 1 .. Len(qq) : qq[k] # Delimiter => Now(qq[k])
    BY <1>6, <1>8, <2>2
  <2>6. \A i, j \in 1 .. Len(pp) : i < j => Turn(pp[i], pp[j])
    <3>1. SUFFICES ASSUME NEW i \in 1 .. Len(pp), NEW j \in 1 .. Len(pp), i < j
                   PROVE  Turn(pp[i], pp[j])
      OBVIOUS
    <3>2. i \in 1 .. Len(p) /\ pp[i] = p[i]
      <4>1. j <= Len(p) + 1
        BY <1>9, <2>3
      <4> QED
        BY <1>9, <2>3, <3>1, <4>1
    <3>3. CASE j \in 1 .. Len(p) /\ pp[j] = p[j]
      BY <2>2, <3>1, <3>2, <3>3
    <3>4. CASE b # Delimiter /\ pp[j] = b
      BY <1>6, <1>9, <2>2, <3>2, <3>4
    <3> QED
      BY <2>3, <3>3, <3>4
  <2>7. \A i \in 1 .. Len(pp) : \A k \in 1 .. Len(qq) : qq[k] # Delimiter => Turn(pp[i], qq[k])
    <3>1. SUFFICES ASSUME NEW i \in 1 .. Len(pp), NEW k \in 1 .. Len(qq), qq[k] # Delimiter
                   PROVE  Turn(pp[i], qq[k])
      OBVIOUS
    <3>2. CASE i \in 1 .. Len(p) /\ pp[i] = p[i]
      BY <1>6, <1>8, <2>2, <3>1, <3>2
    <3>3. CASE b # Delimiter /\ pp[i] = b
      BY <1>6, <1>8, <1>9, <2>2, <3>1, <3>3
    <3> QED
      BY <2>3, <3>2, <3>3
  <2>8. \A k, l \in 1 .. Len(qq) :
           k < l /\ qq[k] # Delimiter /\ qq[l] # Delimiter => Turn(qq[k], qq[l])
    BY <1>6, <1>8, <2>2
  <2> QED
    BY <2>4, <2>5, <2>6, <2>7, <2>8 DEF Downward, Ordered, qq, pp, Now, Turn
<1>13. \A k \in 1 .. Len(toRouter'[c]) : toRouter'[c][k][2] \in Announcements
  BY <1>4 DEF Inv, Announced
<1> QED
  BY <1>1, <1>4, <1>5, <1>10, <1>12, <1>13, ConsumerKeeps DEF Queues

LEMMA InterruptInv ==
    ASSUME Inv, UNCHANGED router, NEW c \in Consumer, Interrupt(c)
    PROVE  Inv'
<1> DEFINE q == toRouter[c]
<1>1. /\ toClient \in [Client -> Seq(Frame)] /\ printed \in [Consumer -> Seq(Note)]
      /\ toRouter \in [Client -> Seq(Wire)] /\ lineAt \in [Consumer -> Nat] /\ c \in Client
  BY Kinds DEF Inv, Typed, Queues
<1>2. PICK k \in 0 .. Len(q) : toRouter' = [toRouter EXCEPT ![c] = SubSeq(q, 1, k)]
  BY DEF Interrupt, ConnectionClosed
<1>3. /\ toClient' = [toClient EXCEPT ![c] = <<>>]
      /\ UNCHANGED <<lineAt, printed, relaying, fileAt, sent>>
  BY DEF Interrupt, ConnectionClosed, ProducerUnchanged
<1>4. q \in Seq(Wire) /\ Len(q) \in Nat
  BY <1>1
<1>5. /\ SubSeq(q, 1, k) \in Seq(Wire) /\ Len(SubSeq(q, 1, k)) = k
      /\ \A i \in 1 .. k : SubSeq(q, 1, k)[i] = q[i]
  BY <1>4, SubSeqProperties
<1>6. /\ toRouter' \in [Client -> Seq(Wire)] /\ toRouter'[c] = SubSeq(q, 1, k)
      /\ \A d \in Client : d # c => toRouter'[d] = toRouter[d]
  BY <1>1, <1>2, <1>5
<1>7. /\ toClient' \in [Client -> Seq(Frame)] /\ toClient'[c] = <<>> /\ Len(<<>>) = 0
      /\ \A d \in Client : d # c => toClient'[d] = toClient[d]
  BY <1>1, <1>3, EmptySeq
<1>8. \A i \in 1 .. Len(toRouter'[c]) : toRouter'[c][i][2] \in Announcements
  <2>1. \A i \in 1 .. k : i \in 1 .. Len(q) /\ q[i][2] \in Announcements
    BY <1>4 DEF Inv, Announced
  <2> QED
    BY <1>5, <1>6, <2>1
<1>9. ASSUME Grows
      PROVE  Downward(c)'
  <2>1. /\ \A x : Right(sent, Handled, c, x) => Right(sent', Handled', c, x)
        /\ \A x, y : InTurn(sent, x, y) => InTurn(sent', x, y)
    BY <1>9, RightStays
  <2>2. 1 .. Len(toClient'[c]) = {} /\ printed' = printed
    BY <1>3, <1>7
  <2> QED
    BY <2>1, <2>2 DEF Downward, Ordered, Inv
<1>10. toClient' \in Queues(Frame)
  BY <1>7 DEF Queues
<1> QED
  BY <1>1, <1>3, <1>6, <1>7, <1>8, <1>9, <1>10, ConsumerKeeps

\* The producer takes an announcement.
LEMMA PollAnnouncementInv ==
    ASSUME Inv, UNCHANGED router, PollAnnouncement
    PROVE  Inv'
<1> USE DEF Inv
<1> DEFINE q == toClient[Producer]
<1>1. toClient \in [Client -> Seq(Frame)] /\ q \in Seq(Frame) /\ q # <<>> /\ Whole(q, [whole : Announcements])
  BY Kinds DEF Typed, Queues, Announced, PollAnnouncement
<1>2. /\ q[2] \in [whole : Announcements] /\ Tail(Tail(q)) \in Seq(Frame)
      /\ Whole(Tail(Tail(q)), [whole : Announcements])
  BY <1>1, WholeRead
<1>3. /\ relaying' = q[2].whole /\ toClient' = [toClient EXCEPT ![Producer] = Tail(Tail(q))]
      /\ UNCHANGED <<toRouter, fileAt, lineAt, printed, sent>>
  BY DEF PollAnnouncement
<1> HIDE DEF q
<1>4. /\ toClient' \in [Client -> Seq(Frame)] /\ toClient'[Producer] = Tail(Tail(q))
      /\ \A c \in Client : c # Producer => toClient'[c] = toClient[c]
  BY <1>1, <1>2, <1>3, Kinds
<1>5. relaying' \in Announcements
  BY <1>2, <1>3
<1>6. Typed'
  BY <1>3, <1>4, <1>5 DEF Typed, Queues, router
<1>7. Grows /\ Handled' = Handled
  BY <1>3, GrowsSame
<1>8. SentOnce' /\ Upward'
  BY <1>3, <1>7 DEF SentOnce, Published, Upward, router
<1>9. Announced'
  BY <1>2, <1>3, <1>4 DEF Announced
<1>10. \A c \in Consumer : Downward(c)'
  BY <1>3, <1>4, <1>7, DownwardStays, Kinds
<1> QED
  BY <1>6, <1>8, <1>9, <1>10

\* A step that changes none of what the invariant is about.
LEMMA NothingSent ==
    ASSUME Inv, UNCHANGED router,
           UNCHANGED <<toRouter, toClient, relaying, fileAt, lineAt, printed, sent>>
    PROVE  Inv'
<1> USE DEF Inv
<1>1. Grows /\ Handled' = Handled
  BY GrowsSame
<1>2. Typed' /\ SentOnce' /\ Upward' /\ Announced'
  BY <1>1 DEF Typed, SentOnce, Published, Upward, Announced, router
<1>3. \A c \in Consumer : Downward(c)'
  BY <1>1, DownwardStays
<1> QED
  BY <1>2, <1>3

LEMMA ClientsInv ==
    ASSUME Inv, ClientNext
    PROVE  Inv'
<1>1. UNCHANGED router /\ UNCHANGED <<openSubs, sealedSubs, dataTable>>
  BY DEF ClientNext, router
<1>2. fileAt' = fileAt => fileAt' \in fileAt .. Len(File)
  BY Kinds DEF Inv, Typed
<1>3. CASE SourceInit
  <2>1. OwnSub \notin Published
    <3>1. Published \subseteq Range(File)
      BY Kinds DEF Inv, Typed, Published
    <3> QED
      BY <3>1, Kinds
  <2> QED
    BY <1>1, <1>2, <1>3, <2>1, ProducerSendsInv DEF SourceInit
<1>4. CASE PollAnnouncement
  BY <1>1, <1>4, PollAnnouncementInv
<1>5. CASE ReceivePub
  <2>1. Relayed[relaying] \in Range(Relayed) \ Published
    <3>1. Published \subseteq Range(File)
      BY Kinds DEF Inv, Typed, Published
    <3> QED
      BY <3>1, Kinds DEF Inv, Typed
  <2> QED
    BY <1>1, <1>2, <1>5, <2>1, ProducerSendsInv DEF ReceivePub
<1>6. CASE PollQuiet
  BY <1>1, <1>6, NothingSent DEF PollQuiet, network
<1>7. CASE Publish
  <2>1. fileAt \in 0 .. Len(File) /\ Len(File) \in Nat /\ fileAt < Len(File) /\ fileAt' = fileAt + 1
    BY <1>7, Kinds DEF Inv, Typed, Publish
  <2>2. fileAt' \in fileAt .. Len(File) /\ fileAt + 1 \in 1 .. fileAt' /\ fileAt + 1 \in 1 .. Len(File)
    BY <2>1
  <2>3. File[fileAt + 1] \in Published'
    BY <2>2 DEF Published
  <2>4. File[fileAt + 1] \notin Published
    <3>1. DOMAIN File = 1 .. Len(File) /\ 1 .. fileAt \subseteq 1 .. Len(File) /\ fileAt + 1 \notin 1 .. fileAt
      BY <2>1, RelayAssumption
    <3> QED
      BY <2>2, <3>1, RelayAssumption DEF Published
  <2> QED
    BY <1>1, <1>7, <2>2, <2>3, <2>4, ProducerSendsInv DEF Publish
<1>8. CASE EndOfFile
  BY <1>1, <1>8, NothingSent DEF EndOfFile, network
<1>9. ASSUME NEW c \in Client, Connect(c)
      PROVE  Inv'
  BY <1>1, <1>9, NothingSent DEF Connect, ConnectionUp, ProducerUnchanged
<1>10. ASSUME NEW c \in Consumer, Announce(c) \/ Income(c) \/ Interrupt(c)
       PROVE  Inv'
  BY <1>1, <1>10, AnnounceInv, IncomeInv, InterruptInv
<1> QED
  BY <1>3, <1>4, <1>5, <1>6, <1>7, <1>8, <1>9, <1>10 DEF ClientNext, ProducerNext

-----------------------------------------------------------------------------
(* The steps of the router.                                                *)

\* The router answers an announcement: at most the producer gets it.
LEMMA OpenAnswer ==
    ASSUME Inv, NEW a \in Announcements, OpenPublish(a)
    PROVE  \E ids, bodies :
              /\ Len(ids) \in Nat /\ toClient' = AfterSendingAll(toClient, ids, bodies)
              /\ \A i \in 1 .. Len(ids) : ids[i] = Producer /\ bodies[i] = [whole |-> a]
              /\ \A i, j \in 1 .. Len(ids) : i # j => bodies[i] # bodies[j]
<1>1. PICK order \in SetToSeqs(MatchesIn(openSubs, a)) :
         SendAll([i \in 1 .. Len(order) |-> Owner[order[i]]],
                 [i \in 1 .. Len(order) |-> [whole |-> a]])
  BY DEF OpenPublish
<1>2. MatchesIn(openSubs, a) \subseteq {OwnSub}
  BY DEF MatchesIn, Inv, Typed
<1>3. IsFiniteSet(MatchesIn(openSubs, a))
  BY <1>2, FS_Singleton, FS_Subset
<1>4. /\ Len(order) \in Nat
      /\ order \in [1 .. Len(order) -> MatchesIn(openSubs, a)]
      /\ \A i, j \in 1 .. Len(order) : i # j => order[i] # order[j]
  BY <1>3, Enumerated
<1>5. \A i \in 1 .. Len(order) : order[i] = OwnSub
  BY <1>2, <1>4
<1> DEFINE ids == [i \in 1 .. Len(order) |-> Owner[order[i]]]
           bodies == [i \in 1 .. Len(order) |-> [whole |-> a]]
<1>6. Len(ids) = Len(order)
  BY <1>4
<1>7. toClient' = AfterSendingAll(toClient, ids, bodies)
  BY <1>1 DEF SendAll
<1>8. \A i \in 1 .. Len(order) : ids[i] = Producer /\ bodies[i] = [whole |-> a]
  BY <1>5, RelayAssumption
<1>9. \A i, j \in 1 .. Len(order) : i = j
  BY <1>4, <1>5
<1> HIDE DEF ids, bodies
<1> QED
  BY <1>4, <1>6, <1>7, <1>8, <1>9

\* The router answers a publication of the file: the owner of each stored
\* subscription that matches gets that subscription with this publication.
LEMMA SealedAnswer ==
    ASSUME Inv, NEW p \in Range(File), Remember(p), SealedPublish(p)
    PROVE  \E ids, bodies :
              /\ Len(ids) \in Nat /\ toClient' = AfterSendingAll(toClient, ids, bodies)
              /\ \A i \in 1 .. Len(ids) : \E s \in sealedSubs :
                    /\ <<s, Header[p]>> \in Matching
                    /\ ids[i] = Owner[s] /\ bodies[i] = [hash |-> s, payload |-> p]
              /\ \A i, j \in 1 .. Len(ids) : i # j => bodies[i] # bodies[j]
<1>1. dataTable'[Header[p]] = p
  <2>1. Header[p] \in DOMAIN dataTable
    BY Kinds, RouterAssumption DEF Inv, Typed, Headers
  <2> QED
    BY <2>1 DEF Remember
<1>2. PICK order \in SetToSeqs(MatchesIn(sealedSubs, p)) :
         Forward([i \in 1 .. Len(order) |-> Owner[order[i]]], order, Header[p])
  BY DEF SealedPublish
<1>3. IsFiniteSet(MatchesIn(sealedSubs, p))
  BY FS_Subset DEF MatchesIn, Inv, Typed
<1>4. /\ Len(order) \in Nat
      /\ order \in [1 .. Len(order) -> MatchesIn(sealedSubs, p)]
      /\ \A i, j \in 1 .. Len(order) : i # j => order[i] # order[j]
  BY <1>3, Enumerated
<1> DEFINE ids == [i \in 1 .. Len(order) |-> Owner[order[i]]]
           bodies == [i \in 1 .. Len(ids) |-> [hash |-> order[i], payload |-> p]]
<1>5. Len(ids) = Len(order)
  BY <1>4
<1>6. toClient' = AfterSendingAll(toClient, ids, bodies)
  BY <1>1, <1>2 DEF Forward, SendAll
<1>7. \A i \in 1 .. Len(order) :
         ids[i] = Owner[order[i]] /\ bodies[i] = [hash |-> order[i], payload |-> p]
  BY <1>5
<1>8. \A i \in 1 .. Len(order) : order[i] \in sealedSubs /\ <<order[i], Header[p]>> \in Matching
  BY <1>4 DEF MatchesIn
<1> HIDE DEF ids, bodies
<1>9. \A i, j \in 1 .. Len(order) : i # j => bodies[i] # bodies[j]
  <2>1. ASSUME NEW i \in 1 .. Len(order)
        PROVE  bodies[i].hash = order[i]
    <3>1. bodies[i] = [hash |-> order[i], payload |-> p]
      BY <1>7
    <3> QED
      BY <3>1
  <2> QED
    BY <1>4, <2>1
<1>10. ASSUME NEW i \in 1 .. Len(ids)
       PROVE  \E s \in sealedSubs :
                 /\ <<s, Header[p]>> \in Matching
                 /\ ids[i] = Owner[s] /\ bodies[i] = [hash |-> s, payload |-> p]
  <2>1. /\ order[i] \in sealedSubs /\ <<order[i], Header[p]>> \in Matching
        /\ ids[i] = Owner[order[i]] /\ bodies[i] = [hash |-> order[i], payload |-> p]
    BY <1>5, <1>7, <1>8
  <2> QED
    BY <2>1
<1>11. \A i, j \in 1 .. Len(ids) : i # j => bodies[i] # bodies[j]
  BY <1>5, <1>9
<1> DEFINE Told(x, y) == \E s \in sealedSubs :
              /\ <<s, Header[p]>> \in Matching
              /\ x = Owner[s] /\ y = [hash |-> s, payload |-> p]
<1>12. \A i \in 1 .. Len(ids) : Told(ids[i], bodies[i])
  BY <1>10
<1> QED
  <2> HIDE DEF Told
  <2>1. \E u, v : /\ Len(u) \in Nat /\ toClient' = AfterSendingAll(toClient, u, v)
                  /\ \A i \in 1 .. Len(u) : Told(u[i], v[i])
                  /\ \A i, j \in 1 .. Len(u) : i # j => v[i] # v[j]
    BY <1>4, <1>5, <1>6, <1>11, <1>12
  <2> QED
    BY <2>1 DEF Told

\* What a consumer has to print after the router has sent it some notes: the
\* notes are right, they come after what was there, and in turn.
LEMMA DownwardGets ==
    ASSUME Grows, NEW c \in Client, Downward(c), printed'[c] = printed[c], sent' = sent,
           NEW ids, NEW bodies, AddedOnce(Frame, toClient, toClient', ids, bodies),
           \A j \in Turns(ids, c) : Right(sent', Handled', c, bodies[j]),
           \A b : \A j \in Turns(ids, c) :
              Right(sent, Handled, c, b) => InTurn(sent', b, bodies[j]),
           \A i, j \in Turns(ids, c) : bodies[i] # bodies[j] => InTurn(sent', bodies[i], bodies[j])
    PROVE  Downward(c)'
<1> DEFINE p == printed[c]
           q == toClient[c]
           r == toClient'[c]
           m == Len(q)
           N == {bodies[j] : j \in Turns(ids, c)}
           Was(x) == Right(sent, Handled, c, x)
           Now(x) == Right(sent', Handled', c, x)
           Turn(x, y) == InTurn(sent', x, y)
<1>1. /\ \A x : Was(x) => Now(x)
      /\ \A x, y : InTurn(sent, x, y) => Turn(x, y)
  BY RightStays
<1>2. /\ \A i \in 1 .. Len(p) : Was(p[i])
      /\ \A k \in 1 .. m : q[k] # Delimiter => Was(q[k])
      /\ \A i, j \in 1 .. Len(p) : i < j => Turn(p[i], p[j])
      /\ \A i \in 1 .. Len(p) : \A k \in 1 .. m : q[k] # Delimiter => Turn(p[i], q[k])
      /\ \A k, l \in 1 .. m :
            k < l /\ q[k] # Delimiter /\ q[l] # Delimiter => Turn(q[k], q[l])
  BY <1>1 DEF Downward, Ordered
<1>3. /\ \A x \in N : Now(x)
      /\ \A x : \A y \in N : Was(x) => Turn(x, y)
      /\ \A x, y \in N : x # y => Turn(x, y)
  OBVIOUS
<1>4. /\ m \in Nat /\ Len(r) \in Nat /\ m <= Len(r)
      /\ \A k \in 1 .. m : r[k] = q[k]
      /\ \A k \in m + 1 .. Len(r) : r[k] = Delimiter \/ r[k] \in N
      /\ \A k, l \in m + 1 .. Len(r) : k # l /\ r[k] # Delimiter => r[k] # r[l]
  BY DEF AddedOnce
<1> HIDE DEF p, q, r, m, N, Was, Now, Turn
<1>5. \A k \in 1 .. Len(r) : k \in 1 .. m \/ k \in m + 1 .. Len(r)
  BY <1>4
<1>6. \A i \in 1 .. Len(p) : Now(p[i])
  BY <1>1, <1>2
<1>7. \A k \in 1 .. Len(r) : r[k] # Delimiter => Now(r[k])
  BY <1>1, <1>2, <1>3, <1>4, <1>5
<1>8. \A i \in 1 .. Len(p) : \A k \in 1 .. Len(r) : r[k] # Delimiter => Turn(p[i], r[k])
  BY <1>2, <1>3, <1>4, <1>5
<1>9. ASSUME NEW k \in 1 .. Len(r), NEW l \in 1 .. Len(r), k < l, r[k] # Delimiter, r[l] # Delimiter
      PROVE  Turn(r[k], r[l])
  <2>1. CASE l \in 1 .. m
    <3>1. k \in 1 .. m
      BY <1>4, <1>9, <2>1
    <3> QED
      BY <1>2, <1>4, <1>9, <2>1, <3>1
  <2>2. CASE k \in 1 .. m /\ l \in m + 1 .. Len(r)
    BY <1>2, <1>3, <1>4, <1>9, <2>2
  <2>3. CASE k \in m + 1 .. Len(r) /\ l \in m + 1 .. Len(r)
    <3>1. r[k] # r[l] /\ r[k] \in N /\ r[l] \in N
      BY <1>4, <1>9, <2>3
    <3> QED
      BY <1>3, <3>1
  <2> QED
    BY <1>5, <2>1, <2>2, <2>3
<1> QED
  BY <1>2, <1>6, <1>7, <1>8, <1>9 DEF Downward, Ordered, p, r, Now, Turn

\* The frames of the router's answers.
LEMMA FramesMade ==
    /\ Delimiter \in Frame
    /\ \A a \in Announcements : [whole |-> a] \in Frame /\ [whole |-> a] \in [whole : Announcements]
    /\ \A s \in Range(Relayed), p \in Range(File) :
          [hash |-> s, payload |-> p] \in Frame /\ [hash |-> s, payload |-> p] \in Note
BY Kinds DEF Frame, Note

\* The message that the router takes from the producer's queue was sent right
\* after those that it has handled.
LEMMA RouterTakes ==
    ASSUME Inv, NEW c \in Client, RouterStep(c)
    PROVE  /\ toRouter' \in [Client -> Seq(Wire)]
           /\ \A d \in Client : d # c => toRouter'[d] = toRouter[d]
           /\ \A k \in 1 .. Len(toRouter'[c]) :
                 k + 1 \in 1 .. Len(toRouter[c]) /\ toRouter'[c][k] = toRouter[c][k + 1]
           /\ c = Producer => /\ Handled + 1 \in 1 .. Len(sent) /\ Handled' = Handled + 1
                              /\ Head(toRouter[c])[2] = sent[Handled + 1]
           /\ c \in Consumer => /\ Handled' = Handled
                                /\ Head(toRouter[c])[2] \in Announcements
           /\ Grows
           /\ UNCHANGED <<connected, relaying, fileAt, lineAt, printed, sent>>
<1> DEFINE q == toRouter[c]
           qq == toRouter'[c]
<1>1. toRouter \in [Client -> Seq(Wire)] /\ Len(sent) \in Nat /\ Handled \in Nat
  BY DEF Inv, Typed, Upward
<1>2. q \in Seq(Wire) /\ q # <<>>
  BY <1>1 DEF RouterStep, Receive
<1>3. /\ Tail(q) \in Seq(Wire) /\ Head(q) = q[1] /\ Len(Tail(q)) = Len(q) - 1 /\ Len(q) \in Nat \ {0}
      /\ \A k \in 1 .. Len(Tail(q)) : Tail(q)[k] = q[k + 1]
  BY <1>2, HeadTailProperties, EmptySeq
<1>4. /\ toRouter' = [toRouter EXCEPT ![c] = Tail(q)]
      /\ UNCHANGED <<connected, relaying, fileAt, lineAt, printed, sent>>
  BY DEF RouterStep, Receive, ProducerUnchanged
<1>5. toRouter' \in [Client -> Seq(Wire)] /\ qq = Tail(q)
      /\ \A d \in Client : d # c => toRouter'[d] = toRouter[d]
  BY <1>1, <1>3, <1>4
<1> HIDE DEF q, qq
<1>6. \A k \in 1 .. Len(qq) : k + 1 \in 1 .. Len(q) /\ qq[k] = q[k + 1]
  BY <1>3, <1>5
<1>7. CASE c = Producer
  <2>1. /\ Handled = Len(sent) - Len(q) /\ Handled' = Len(sent) - Len(qq)
        /\ \A k \in 1 .. Len(q) : q[k][2] = sent[Handled + k]
    BY <1>4, <1>7 DEF Handled, Inv, Upward, q, qq
  <2> HIDE DEF Handled
  <2>2. Handled' = Handled + 1 /\ Handled + 1 \in 1 .. Len(sent)
    BY <1>1, <1>3, <1>5, <2>1
  <2>3. q[1][2] = sent[Handled + 1]
    BY <1>3, <2>1
  <2>4. Grows
    <3>1. Handled \in Nat /\ Handled' \in Nat /\ Handled <= Len(sent) /\ Handled <= Handled'
      BY <1>1, <2>2
    <3> QED
      BY <1>1, <1>4, <3>1 DEF Grows
  <2> QED
    BY <1>3, <1>4, <1>5, <1>6, <1>7, <2>2, <2>3, <2>4, Kinds DEF q, qq
<1>8. CASE c \in Consumer
  <2>1. toRouter'[Producer] = toRouter[Producer] /\ c # Producer
    BY <1>5, <1>8, Kinds
  <2>2. Grows /\ Handled' = Handled
    BY <1>4, <2>1, GrowsSame
  <2>3. q[1][2] \in Announcements
    BY <1>3, <1>8 DEF Inv, Announced, q
  <2> QED
    BY <1>3, <1>4, <1>5, <1>6, <2>1, <2>2, <2>3 DEF q, qq
<1> QED
  BY <1>7, <1>8, Kinds

\* Consumer d gets the note b for the publication m of the file.
FromFile(d, b, m) ==
    /\ m \in Range(File)
    /\ \E s \in sealedSubs : /\ <<s, Header[m]>> \in Matching
                             /\ d = Owner[s] /\ b = [hash |-> s, payload |-> m]

\* What the router has sent after it handled the message m.
Sends(m) ==
    /\ toClient' \in Queues(Frame)
    /\ Whole(toClient'[Producer], [whole : Announcements])
    /\ \/ toClient' = toClient
       \/ \E ids, bodies :
             /\ AddedOnce(Frame, toClient, toClient', ids, bodies)
             /\ \A d \in Consumer : \A j \in Turns(ids, d) : FromFile(d, bodies[j], m)

LEMMA NothingAnswered ==
    ASSUME Inv, NEW m, toClient' = toClient
    PROVE  Sends(m)
BY DEF Inv, Typed, Announced, Sends

\* An announcement goes to the producer, or to nobody.
LEMMA AnnouncementAnswered ==
    ASSUME Inv, NEW a \in Announcements, OpenPublish(a)
    PROVE  Sends(a)
<1>1. PICK ids, bodies :
         /\ Len(ids) \in Nat /\ toClient' = AfterSendingAll(toClient, ids, bodies)
         /\ \A i \in 1 .. Len(ids) : ids[i] = Producer /\ bodies[i] = [whole |-> a]
         /\ \A i, j \in 1 .. Len(ids) : i # j => bodies[i] # bodies[j]
  BY OpenAnswer
<1>2. toClient \in Queues(Frame) /\ Whole(toClient[Producer], [whole : Announcements])
  BY DEF Inv, Typed, Announced
<1>3. Delimiter \in Frame /\ Producer \in Client
  BY FramesMade, Kinds
<1> DEFINE body == [whole |-> a]
<1>4. body \in Frame /\ body \in [whole : Announcements]
  BY FramesMade
<1> HIDE DEF body
<1>5. \A i \in 1 .. Len(ids) : ids[i] = Producer /\ bodies[i] = body
  BY <1>1 DEF body
<1>6. \A i \in 1 .. Len(ids) : ids[i] \in Client /\ bodies[i] \in Frame /\ bodies[i] \in [whole : Announcements]
  BY <1>3, <1>4, <1>5
<1>7. Whole(toClient'[Producer], [whole : Announcements])
  <2>1. Len(ids) \in Nat /\ toClient' = AfterSendingAll(toClient, ids, bodies)
    BY <1>1
  <2>2. \A i \in 1 .. Len(ids) :
           ids[i] \in Client /\ bodies[i] \in Frame /\ (ids[i] = Producer => bodies[i] \in [whole : Announcements])
    BY <1>6
  <2>3. Whole(AfterSendingAll(toClient, ids, bodies)[Producer], [whole : Announcements])
    BY <1>2, <1>3, <2>1, <2>2, SendLoopWhole
  <2> QED
    BY <2>1, <2>3
<1>8. AddedOnce(Frame, toClient, toClient', ids, bodies)
  BY <1>1, <1>2, <1>3, <1>6, SendLoopOnce
<1>9. \A d \in Consumer : Turns(ids, d) = {}
  BY <1>1, Kinds DEF Turns
<1>10. \A d \in Consumer : \A j \in Turns(ids, d) : FromFile(d, bodies[j], a)
  BY <1>9
<1>11. toClient' \in Queues(Frame)
  BY <1>8 DEF AddedOnce
<1> QED
  BY <1>7, <1>8, <1>10, <1>11 DEF Sends

\* A publication of the file goes to consumers.
LEMMA PublicationAnswered ==
    ASSUME Inv, NEW p \in Range(File), Remember(p), SealedPublish(p)
    PROVE  Sends(p)
<1> DEFINE Told(x, y) == \E s \in sealedSubs :
              /\ <<s, Header[p]>> \in Matching
              /\ x = Owner[s] /\ y = [hash |-> s, payload |-> p]
<1>1. \A x, y : Told(x, y) => x \in Consumer /\ y \in Frame /\ FromFile(x, y, p)
  <2>1. SUFFICES ASSUME NEW x, NEW y, NEW s \in sealedSubs, <<s, Header[p]>> \in Matching,
                        x = Owner[s], y = [hash |-> s, payload |-> p]
                 PROVE  x \in Consumer /\ y \in Frame /\ FromFile(x, y, p)
    OBVIOUS
  <2>2. s \in Range(Relayed)
    BY DEF Inv, Typed
  <2>3. x \in Consumer /\ y \in Frame
    BY <2>1, <2>2, Kinds, FramesMade
  <2> QED
    BY <2>1, <2>3 DEF FromFile
<1>2. \E ids, bodies :
         /\ Len(ids) \in Nat /\ toClient' = AfterSendingAll(toClient, ids, bodies)
         /\ \A i \in 1 .. Len(ids) : Told(ids[i], bodies[i])
         /\ \A i, j \in 1 .. Len(ids) : i # j => bodies[i] # bodies[j]
  BY SealedAnswer
<1> HIDE DEF Told
<1>3. PICK ids, bodies :
         /\ Len(ids) \in Nat /\ toClient' = AfterSendingAll(toClient, ids, bodies)
         /\ \A i \in 1 .. Len(ids) : Told(ids[i], bodies[i])
         /\ \A i, j \in 1 .. Len(ids) : i # j => bodies[i] # bodies[j]
  BY <1>2
<1>4. toClient \in Queues(Frame) /\ Whole(toClient[Producer], [whole : Announcements])
  BY DEF Inv, Typed, Announced
<1>5. Delimiter \in Frame /\ Producer \in Client /\ Producer \notin Consumer /\ Consumer \subseteq Client
  BY FramesMade, Kinds
<1>6. \A i \in 1 .. Len(ids) : ids[i] \in Consumer /\ bodies[i] \in Frame /\ FromFile(ids[i], bodies[i], p)
  BY <1>1, <1>3
<1>7. \A i \in 1 .. Len(ids) : ids[i] \in Client /\ bodies[i] \in Frame /\ ids[i] # Producer
  BY <1>5, <1>6
<1>8. Whole(toClient'[Producer], [whole : Announcements])
  <2>1. Len(ids) \in Nat /\ toClient' = AfterSendingAll(toClient, ids, bodies)
    BY <1>3
  <2>2. \A i \in 1 .. Len(ids) :
           ids[i] \in Client /\ bodies[i] \in Frame /\ (ids[i] = Producer => bodies[i] \in [whole : Announcements])
    BY <1>7
  <2>3. Whole(AfterSendingAll(toClient, ids, bodies)[Producer], [whole : Announcements])
    BY <1>4, <1>5, <2>1, <2>2, SendLoopWhole
  <2> QED
    BY <2>1, <2>3
<1>9. AddedOnce(Frame, toClient, toClient', ids, bodies)
  BY <1>3, <1>4, <1>5, <1>7, SendLoopOnce
<1>10. \A d \in Consumer : \A j \in Turns(ids, d) : FromFile(d, bodies[j], p)
  BY <1>6 DEF Turns
<1> QED
  BY <1>8, <1>9, <1>10 DEF Sends, AddedOnce

\* What the router does with the message it takes.
LEMMA RouterDoes ==
    ASSUME Inv, NEW c \in Client, RouterStep(c), NEW m, m = Head(toRouter[c])[2]
    PROVE  /\ openSubs' \subseteq {OwnSub} /\ DOMAIN dataTable' = Headers
           /\ sealedSubs' = sealedSubs \cup ({m} \cap Range(Relayed))
           /\ Sends(m) /\ (m \in Range(File) => c = Producer)
<1>1. PubsubMessage(m)
  BY DEF RouterStep, Receive
<1>2. /\ openSubs \subseteq {OwnSub} /\ DOMAIN dataTable = Headers
      /\ Published \subseteq Range(File)
  <2>1. fileAt \in 0 .. Len(File)
    BY DEF Inv, Typed
  <2> QED
    BY <2>1, Kinds DEF Inv, Typed, Published
<1>3. \/ c \in Consumer /\ m \in Announcements
      \/ c = Producer /\ m \in {OwnSub} \cup Range(Relayed) \cup Range(File)
  <2>1. c = Producer => Handled + 1 \in 1 .. Len(sent) /\ m = sent[Handled + 1]
    BY RouterTakes
  <2>2. c \in Consumer => m \in Announcements
    BY RouterTakes
  <2> QED
    BY <1>2, <2>1, <2>2, Kinds DEF Inv, SentOnce
<1>4. Junk \cap (Sub \cup Pub) = {}
  BY RouterAssumption
<1>5. Empty \notin Sealed
  BY RouterAssumption
<1>6. CASE m = Empty /\ UNCHANGED <<openSubs, sealedSubs, dataTable, toClient>>
  <2>1. m \notin Sealed
    BY <1>5, <1>6
  <2> QED
    BY <1>2, <1>6, <2>1, NothingAnswered, Kinds
<1>7. CASE m \in Sealed /\ EnclaveMatching(m)
  <2>1. /\ Remember(m) /\ UNCHANGED openSubs
        /\ SealedSubscribe(m) \/ SealedPublish(m) \/ (m \in Junk /\ UNCHANGED <<sealedSubs, toClient>>)
    BY <1>7 DEF EnclaveMatching
  <2>2. DOMAIN dataTable' = Headers
    BY <1>2, <2>1 DEF Remember
  <2>3. c = Producer /\ m \in Range(Relayed) \cup Range(File)
    BY <1>3, <1>7, Kinds
  <2>4. CASE m \in Range(Relayed)
    <3>1. SealedSubscribe(m)
      BY <1>4, <2>1, <2>4, Kinds DEF SealedPublish
    <3>2. toClient' = toClient /\ sealedSubs' = sealedSubs \cup {m}
      BY <3>1 DEF SealedSubscribe
    <3> QED
      BY <1>2, <2>1, <2>2, <2>3, <2>4, <3>2, NothingAnswered
  <2>5. CASE m \in Range(File)
    <3>1. SealedPublish(m)
      BY <1>4, <2>1, <2>5, Kinds DEF SealedSubscribe
    <3>2. sealedSubs' = sealedSubs
      BY <3>1 DEF SealedPublish
    <3>3. Sends(m)
      BY <2>1, <2>5, <3>1, PublicationAnswered
    <3>4. m \notin Range(Relayed)
      BY <2>5, Kinds
    <3> QED
      BY <1>2, <2>1, <2>2, <2>3, <3>2, <3>3, <3>4
  <2> QED
    BY <2>3, <2>4, <2>5
<1>8. CASE m \in Message \ (Sealed \cup {Empty}) /\ OpenMatching(m)
  <2>1. /\ UNCHANGED <<sealedSubs, dataTable>>
        /\ OpenSubscribe(m) \/ OpenPublish(m) \/ (m \in Junk /\ UNCHANGED <<openSubs, toClient>>)
    BY <1>8 DEF OpenMatching
  <2>2. m \notin Range(Relayed) /\ m \notin Range(File) /\ (m \in Announcements \/ m = OwnSub)
    BY <1>3, <1>8, Kinds
  <2>3. CASE m = OwnSub
    <3>1. OpenSubscribe(m)
      BY <1>4, <2>1, <2>3, Kinds DEF OpenPublish
    <3>2. toClient' = toClient /\ openSubs' = openSubs \cup {m}
      BY <3>1 DEF OpenSubscribe
    <3> QED
      BY <1>2, <2>1, <2>2, <2>3, <3>2, NothingAnswered
  <2>4. CASE m \in Announcements
    <3>1. OpenPublish(m)
      BY <1>4, <2>1, <2>4, Kinds DEF OpenSubscribe
    <3>2. openSubs' = openSubs
      BY <3>1 DEF OpenPublish
    <3>3. Sends(m)
      BY <2>4, <3>1, AnnouncementAnswered
    <3> QED
      BY <1>2, <2>1, <2>2, <3>2, <3>3
  <2> QED
    BY <2>2, <2>3, <2>4
<1> QED
  BY <1>1, <1>6, <1>7, <1>8 DEF PubsubMessage

LEMMA RouterStepInv ==
    ASSUME Inv, NEW c \in Client, RouterStep(c)
    PROVE  Inv'
<1> DEFINE m == Head(toRouter[c])[2]
           h == Handled
<1>1. /\ toRouter' \in [Client -> Seq(Wire)]
      /\ \A d \in Client : d # c => toRouter'[d] = toRouter[d]
      /\ \A k \in 1 .. Len(toRouter'[c]) :
            k + 1 \in 1 .. Len(toRouter[c]) /\ toRouter'[c][k] = toRouter[c][k + 1]
      /\ c = Producer => h + 1 \in 1 .. Len(sent) /\ Handled' = h + 1 /\ m = sent[h + 1]
      /\ c \in Consumer => Handled' = h /\ m \in Announcements
      /\ Grows
      /\ UNCHANGED <<connected, relaying, fileAt, lineAt, printed, sent>>
  BY RouterTakes
<1>2. /\ openSubs' \subseteq {OwnSub} /\ DOMAIN dataTable' = Headers
      /\ sealedSubs' = sealedSubs \cup ({m} \cap Range(Relayed))
      /\ Sends(m) /\ (m \in Range(File) => c = Producer)
  BY RouterDoes
<1>3. h \in Nat /\ Len(sent) \in Nat /\ \A s \in Range(Relayed) : s \in sealedSubs <=> \E k \in 1 .. h : sent[k] = s
  BY DEF Inv, Typed, Upward
<1> HIDE DEF m, h
<1>4. Typed'
  <2>1. IsFiniteSet(sealedSubs') /\ sealedSubs' \subseteq Range(Relayed)
    <3>1. sealedSubs \subseteq Range(Relayed) /\ IsFiniteSet(sealedSubs)
      BY DEF Inv, Typed
    <3>2. IsFiniteSet({m}) /\ {m} \cap Range(Relayed) \subseteq {m}
      BY FS_Singleton
    <3>3. IsFiniteSet({m} \cap Range(Relayed))
      BY <3>2, FS_Subset
    <3> QED
      BY <1>2, <3>1, <3>3, FS_Union
  <2>2. toClient' \in Queues(Frame)
    BY <1>2 DEF Sends
  <2> QED
    BY <1>1, <1>2, <2>1, <2>2 DEF Inv, Typed
<1>5. SentOnce'
  BY <1>1 DEF Inv, SentOnce, Published
<1>6. Upward'
  <2>1. CASE c = Producer
    <3>1. Handled' = h + 1 /\ h + 1 \in Nat /\ m = sent[h + 1]
      BY <1>1, <1>3, <2>1
    <3>2. ASSUME NEW k \in 1 .. Len(toRouter'[Producer])
          PROVE  toRouter'[Producer][k][2] = sent[(h + 1) + k]
      <4>1. k + 1 \in 1 .. Len(toRouter[Producer]) /\ toRouter'[Producer][k] = toRouter[Producer][k + 1]
        BY <1>1, <2>1
      <4>2. toRouter[Producer][k + 1][2] = sent[h + (k + 1)]
        BY <4>1 DEF Inv, Upward, h
      <4>3. Len(toRouter'[Producer]) \in Nat
        BY <1>1, Kinds
      <4>4. k \in Nat /\ h + (k + 1) = (h + 1) + k
        BY <1>3, <4>3
      <4> QED
        BY <4>1, <4>2, <4>4
    <3>3. ASSUME NEW s \in Range(Relayed)
          PROVE  s \in sealedSubs' <=> \E k \in 1 .. h + 1 : sent[k] = s
      <4>1. s \in sealedSubs' <=> s \in sealedSubs \/ s = m
        BY <1>2
      <4>2. \A k \in 1 .. h + 1 : k \in 1 .. h \/ k = h + 1
        BY <1>3
      <4>3. h + 1 \in 1 .. h + 1 /\ 1 .. h \subseteq 1 .. h + 1
        BY <1>3
      <4> QED
        BY <1>3, <3>1, <4>1, <4>2, <4>3
    <3> QED
      BY <1>1, <3>1, <3>2, <3>3 DEF Upward
  <2>2. CASE c \in Consumer
    <3>1. Handled' = h /\ toRouter'[Producer] = toRouter[Producer]
      BY <1>1, <2>2, Kinds
    <3>2. m \notin Range(Relayed)
      BY <1>1, <2>2, Kinds
    <3>3. sealedSubs' = sealedSubs
      BY <1>2, <3>2
    <3> QED
      BY <1>1, <3>1, <3>3 DEF Inv, Upward, h
  <2> QED
    BY <2>1, <2>2, Kinds
<1>7. Announced'
  <2>1. ASSUME NEW d \in Consumer, NEW k \in 1 .. Len(toRouter'[d])
        PROVE  toRouter'[d][k][2] \in Announcements
    <3>1. \A l \in 1 .. Len(toRouter[d]) : toRouter[d][l][2] \in Announcements
      BY DEF Inv, Announced
    <3>2. CASE d = c
      BY <1>1, <3>1, <3>2
    <3>3. CASE d # c
      <4>1. toRouter'[d] = toRouter[d]
        BY <1>1, <3>3, Kinds
      <4> QED
        BY <3>1, <4>1
    <3> QED
      BY <3>2, <3>3
  <2>2. Whole(toClient'[Producer], [whole : Announcements])
    BY <1>2 DEF Sends
  <2> QED
    BY <2>1, <2>2 DEF Announced
<1>8. ASSUME NEW d \in Consumer
      PROVE  Downward(d)'
  <2>1. Downward(d) /\ printed'[d] = printed[d] /\ sent' = sent /\ d \in Client
    BY <1>1, Kinds DEF Inv
  <2>2. CASE toClient' = toClient
    BY <1>1, <2>1, <2>2, DownwardStays
  <2>3. ASSUME NEW ids, NEW bodies, AddedOnce(Frame, toClient, toClient', ids, bodies),
               \A j \in Turns(ids, d) : FromFile(d, bodies[j], m)
        PROVE  Downward(d)'
    <3>1. ASSUME NEW b, FromFile(d, b, m)
          PROVE  /\ Right(sent', Handled', d, b)
                 /\ \A x : Right(sent, Handled, d, x) => InTurn(sent', x, b)
                 /\ \A x : FromFile(d, x, m) /\ x # b => InTurn(sent', x, b)
      <4>1. PICK s \in sealedSubs : /\ <<s, Header[m]>> \in Matching
                                    /\ d = Owner[s] /\ b = [hash |-> s, payload |-> m]
        BY <3>1 DEF FromFile
      <4>2. m \in Range(File) /\ h + 1 \in 1 .. Len(sent) /\ Handled' = h + 1 /\ m = sent[h + 1]
        BY <1>1, <1>2, <3>1 DEF FromFile
      <4>3. s \in Range(Relayed)
        BY <4>1 DEF Inv, Typed
      <4>4. PICK k \in 1 .. h : sent[k] = s
        BY <1>3, <4>1, <4>3
      <4>5. b \in Note /\ b.hash = s /\ b.payload = m
        BY <4>1, <4>2, <4>3, FramesMade
      <4>6. k \in 1 .. h + 1 /\ h + 1 \in 1 .. h + 1 /\ k < h + 1
        BY <1>3
      <4>7. Right(sent, h + 1, d, b)
        BY <4>1, <4>2, <4>4, <4>5, <4>6 DEF Right
      <4>8. ASSUME NEW x, Right(sent, h, d, x)
            PROVE  InTurn(sent, x, b)
        <5>1. PICK j \in 1 .. h : sent[j] = x.payload
          BY <4>8 DEF Right
        <5>2. j \in 1 .. Len(sent) /\ j <= h + 1 /\ j # h + 1
          BY <1>3, <4>2
        <5>3. sent[j] # sent[h + 1]
          BY <4>2, <5>2 DEF Inv, SentOnce
        <5>4. x # b
          BY <4>2, <4>5, <5>1, <5>3
        <5> QED
          BY <4>2, <4>5, <5>1, <5>2, <5>4 DEF InTurn
      <4>9. ASSUME NEW x, FromFile(d, x, m), x # b
            PROVE  InTurn(sent, x, b)
        <5>1. x.payload = m
          BY <4>9 DEF FromFile
        <5>2. h + 1 <= h + 1
          BY <1>3
        <5> QED
          BY <4>2, <4>5, <4>9, <5>1, <5>2 DEF InTurn
      <4> QED
        BY <1>1, <4>2, <4>7, <4>8, <4>9 DEF h
    <3>2. \A j \in Turns(ids, d) : Right(sent', Handled', d, bodies[j])
      BY <2>3, <3>1
    <3>3. \A b : \A j \in Turns(ids, d) : Right(sent, Handled, d, b) => InTurn(sent', b, bodies[j])
      BY <2>3, <3>1
    <3>4. \A i, j \in Turns(ids, d) : bodies[i] # bodies[j] => InTurn(sent', bodies[i], bodies[j])
      BY <2>3, <3>1
    <3> QED
      BY <1>1, <2>1, <2>3, <3>2, <3>3, <3>4, DownwardGets
  <2> QED
    BY <1>2, <2>2, <2>3 DEF Sends
<1> QED
  BY <1>4, <1>5, <1>6, <1>7, <1>8 DEF Inv

\* Inv holds in every reachable state.
LEMMA InvAlways == Spec => []Inv
<1>1. Inv /\ [Next]_vars => Inv'
  <2> SUFFICES ASSUME Inv, [Next]_vars
               PROVE  Inv'
    OBVIOUS
  <2>1. CASE UNCHANGED vars
    BY <2>1, NothingSent DEF vars, network, router
  <2> QED
    BY <2>1, ClientsInv, RouterStepInv DEF Next
<1> QED
  BY <1>1, InitInv, PTL DEF Spec

-----------------------------------------------------------------------------
(* What the consumers can rely on.                                         *)

LEMMA HistoryDomain ==
    ASSUME Inv
    PROVE  DOMAIN sent = 1 .. Len(sent) /\ Len(sent) \in Nat
BY DEF Inv, Typed

\* In the history, what is in turn is not the other way round.
LEMMA NotBefore ==
    ASSUME Inv, NEW b, NEW d, b.payload \in Range(File), d.payload \in Range(File), InTurn(sent, b, d)
    PROVE  ~SentBefore(d.payload, b.payload)
<1>1. SUFFICES ASSUME SentBefore(d.payload, b.payload)
               PROVE  FALSE
  OBVIOUS
<1>2. PICK i, j \in 1 .. Len(sent) : i <= j /\ sent[i] = b.payload /\ sent[j] = d.payload
  BY DEF InTurn
<1>3. PICK k, l \in 1 .. Len(sent) : k < l /\ sent[k] = d.payload /\ sent[l] = b.payload
  BY <1>1, HistoryDomain DEF SentBefore
<1>4. k = j /\ l = i
  BY <1>2, <1>3 DEF Inv, SentOnce
<1>5. Len(sent) \in Nat
  BY HistoryDomain
<1> QED
  BY <1>2, <1>3, <1>4, <1>5

\* What a consumer prints is for one of its own subscriptions, matches it, was
\* published after it was passed on, and comes once and in the order of the
\* file; it is never an announcement, which has no hash to cut: for any number
\* of consumers, of lines and of publications, whatever the queues drop.
THEOREM PrintedAlwaysRight == Spec => []PrintedRight
<1>1. Inv => PrintedRight
  <2> SUFFICES ASSUME Inv, NEW c \in Consumer, NEW i \in DOMAIN printed[c]
               PROVE  LET b == printed[c][i] IN
                         /\ DOMAIN b = {"hash", "payload"}
                         /\ Owner[b.hash] = c /\ b.payload \in Range(File)
                         /\ <<b.hash, Header[b.payload]>> \in Matching
                         /\ SentBefore(b.hash, b.payload)
                         /\ \A j \in 1 .. i - 1 :
                               printed[c][j] # b /\ ~SentBefore(b.payload, printed[c][j].payload)
    BY DEF PrintedRight
  <2> DEFINE p == printed[c]
             b == p[i]
  <2>1. p \in Seq(Note)
    BY DEF Inv, Typed
  <2>2. i \in 1 .. Len(p) /\ Len(p) \in Nat
    BY <2>1
  <2>3. \A j \in 1 .. Len(p) : p[j] \in Note /\ p[j].payload \in Range(File)
    <3> HIDE DEF p
    <3>1. \A j \in 1 .. Len(p) : p[j] \in Note
      BY <2>1
    <3>2. \A x \in Note : x.payload \in Range(File)
      BY DEF Note
    <3> QED
      BY <3>1, <3>2
  <2>4. Ordered(sent, Handled, c, p, toClient[c])
    BY DEF Inv, Downward
  <2> HIDE DEF p
  <2>5. Right(sent, Handled, c, b)
    BY <2>2, <2>4 DEF Ordered
  <2>6. DOMAIN b = {"hash", "payload"}
    BY <2>5 DEF Right, Note
  <2>7. SentBefore(b.hash, b.payload)
    <3>1. PICK k, l \in 1 .. Handled : k < l /\ sent[k] = b.hash /\ sent[l] = b.payload
      BY <2>5 DEF Right
    <3>2. 1 .. Handled \subseteq 1 .. Len(sent)
      <4>1. Len(toRouter[Producer]) \in Nat
        BY Kinds DEF Inv, Typed
      <4> QED
        BY <4>1, HistoryDomain DEF Handled
    <3> QED
      BY <3>1, <3>2, HistoryDomain DEF SentBefore
  <2>8. ASSUME NEW j \in 1 .. i - 1
        PROVE  p[j] # b /\ ~SentBefore(b.payload, p[j].payload)
    <3>1. j \in 1 .. Len(p) /\ j < i
      BY <2>2
    <3>2. InTurn(sent, p[j], b)
      BY <2>2, <2>4, <3>1 DEF Ordered
    <3> QED
      BY <2>2, <2>3, <3>1, <3>2, NotBefore DEF InTurn
  <2>9. Owner[b.hash] = c /\ <<b.hash, Header[b.payload]>> \in Matching /\ b.payload \in Range(File)
    BY <2>2, <2>3, <2>5 DEF Right
  <2> QED
    BY <2>6, <2>7, <2>8, <2>9 DEF p
<1> QED
  BY <1>1, InvAlways, PTL

\* When the router handles a publication of the file, the subscriptions in
\* force are exactly those that were passed on before it.
THEOREM AlwaysInForce == Spec => InForce
<1>1. ASSUME Inv, NEW p \in Range(File), Handles(Producer, p)
      PROVE  sealedSubs = {s \in Range(Relayed) : SentBefore(s, p)}
  <2> DEFINE h == Handled
             q == toRouter[Producer]
  <2>1. q \in Seq(Wire) /\ q # <<>> /\ Head(q)[2] = p
    BY <1>1, Kinds DEF Inv, Typed, Handles
  <2>2. 1 \in 1 .. Len(q) /\ Head(q) = q[1]
    BY <2>1, HeadTailProperties, EmptySeq
  <2>3. p = sent[h + 1] /\ h \in Nat /\ h = Len(sent) - Len(q) /\ Len(q) \in Nat /\ Len(sent) \in Nat
    <3>1. h \in Nat /\ h = Len(sent) - Len(q) /\ q[1][2] = sent[h + 1]
      BY <1>1, <2>2 DEF Inv, Upward, Handled
    <3>2. Len(q) \in Nat /\ Len(sent) \in Nat
      BY <1>1, <2>1, HistoryDomain
    <3> QED
      BY <2>1, <2>2, <3>1, <3>2
  <2>4. /\ sealedSubs \subseteq Range(Relayed)
        /\ \A s \in Range(Relayed) : s \in sealedSubs <=> \E k \in 1 .. h : sent[k] = s
    BY <1>1 DEF Inv, Typed, Upward
  <2> HIDE DEF h, q
  <2>5. h + 1 \in 1 .. Len(sent) /\ 1 .. h \subseteq 1 .. Len(sent)
    BY <2>2, <2>3
  <2>6. ASSUME NEW s \in Range(Relayed)
        PROVE  SentBefore(s, p) <=> \E k \in 1 .. h : sent[k] = s
    <3>1. ASSUME NEW k \in 1 .. h, sent[k] = s
          PROVE  SentBefore(s, p)
      <4>1. k < h + 1
        BY <2>3
      <4> QED
        BY <1>1, <2>3, <2>5, <3>1, <4>1, HistoryDomain DEF SentBefore
    <3>2. ASSUME SentBefore(s, p)
          PROVE  \E k \in 1 .. h : sent[k] = s
      <4>1. PICK k, j \in 1 .. Len(sent) : k < j /\ sent[k] = s /\ sent[j] = p
        BY <1>1, <3>2, HistoryDomain DEF SentBefore
      <4>2. j = h + 1
        BY <1>1, <2>3, <2>5, <4>1 DEF Inv, SentOnce
      <4>3. k \in 1 .. h
        BY <2>3, <4>1, <4>2
      <4> QED
        BY <4>1, <4>3
    <3> QED
      BY <3>1, <3>2
  <2> QED
    BY <2>4, <2>6
<1>2. Inv /\ [Next]_vars =>
         (\A p \in Range(File) : Handles(Producer, p) =>
             sealedSubs = {s \in Range(Relayed) : SentBefore(s, p)})
  BY <1>1
<1> QED
  BY <1>2, InvAlways, PTL DEF Spec, InForce

-----------------------------------------------------------------------------
(* What becomes of an announcement at the router.                          *)

\* Nothing of the producer is at the router before their connection is up, and
\* the producer never closes it.
Linked == toRouter[Producer] # <<>> \/ openSubs # {} => Producer \in connected

\* The router matches an announcement itself, in the open.
LEMMA AnnouncementOpen ==
    ASSUME Inv, NEW c \in Client, RouterStep(c), NEW a \in Announcements, a = Head(toRouter[c])[2]
    PROVE  OpenPublish(a) /\ openSubs' = openSubs
<1>1. PubsubMessage(a)
  BY DEF RouterStep, Receive
<1>2. a \in Pub \ Sealed /\ a \notin Sub /\ a \notin Junk /\ a # Empty
  BY Kinds, RouterAssumption
<1> QED
  BY <1>1, <1>2 DEF PubsubMessage, OpenMatching, OpenSubscribe, OpenPublish

\* A client's own step leaves the connection of the producer as it is, but for
\* bringing it up, and puts nothing in its queue before.
LEMMA ClientsLinked ==
    ASSUME Inv, Linked, ClientNext
    PROVE  Linked'
<1>1. openSubs' = openSubs /\ Producer \in Client /\ Producer \notin Consumer
      /\ toRouter \in [Client -> Seq(Wire)]
  BY Kinds DEF ClientNext, router, Inv, Typed
<1>2. ASSUME NEW c \in Client, Connect(c)
      PROVE  Linked'
  BY <1>1, <1>2 DEF Linked, Connect, ConnectionUp
<1>3. CASE ProducerNext
  BY <1>1, <1>3
     DEF Linked, ProducerNext, SourceInit, PollAnnouncement, ReceivePub, PollQuiet, Publish, EndOfFile,
         ProducerSends, Send, Writable, network
<1>4. ASSUME NEW c \in Consumer, Announce(c) \/ Income(c) \/ Interrupt(c)
      PROVE  Linked'
  <2>1. c # Producer
    BY <1>1, <1>4
  <2>2. toRouter'[Producer] = toRouter[Producer]
    BY <1>1, <1>4, <2>1 DEF Announce, Send, Income, Interrupt, ConnectionClosed
  <2>3. Producer \in connected => Producer \in connected'
    BY <1>4, <2>1 DEF Announce, Send, Income, Interrupt, ConnectionClosed
  <2> QED
    BY <1>1, <2>2, <2>3 DEF Linked
<1> QED
  BY <1>2, <1>3, <1>4 DEF ClientNext

LEMMA RouterLinked ==
    ASSUME Inv, Linked, NEW c \in Client, RouterStep(c)
    PROVE  Linked'
<1>1. /\ connected' = connected
      /\ \A d \in Client : d # c => toRouter'[d] = toRouter[d]
      /\ c \in Consumer => Head(toRouter[c])[2] \in Announcements
  BY RouterTakes
<1>2. toRouter[c] # <<>>
  BY DEF RouterStep, Receive
<1>3. CASE c = Producer
  BY <1>1, <1>2, <1>3 DEF Linked
<1>4. CASE c \in Consumer
  <2>1. openSubs' = openSubs
    BY <1>1, <1>4, AnnouncementOpen
  <2>2. toRouter'[Producer] = toRouter[Producer]
    BY <1>1, <1>4, Kinds
  <2> QED
    BY <1>1, <2>1, <2>2 DEF Linked
<1> QED
  BY <1>3, <1>4, Kinds

LEMMA LinkedAlways == Spec => []Linked
<1>1. Init => Linked
  BY Kinds DEF Init, NetworkInit, RouterInit, Linked
<1>2. Inv /\ Linked /\ [Next]_vars => Linked'
  <2> SUFFICES ASSUME Inv, Linked, [Next]_vars
               PROVE  Linked'
    OBVIOUS
  <2>1. CASE UNCHANGED vars
    BY <2>1 DEF vars, network, Linked
  <2> QED
    BY <2>1, ClientsLinked, RouterLinked DEF Next
<1> QED
  BY <1>1, <1>2, InvAlways, PTL DEF Spec

\* Only the router takes a message from a client's queue and closes nothing.
LEMMA RouterHandles ==
    ASSUME Inv, [Next]_vars, NEW c \in Client, NEW m, Handles(c, m), UNCHANGED connected
    PROVE  RouterStep(c) /\ m = Head(toRouter[c])[2]
<1>1. /\ toRouter[c] \in Seq(Wire) /\ toRouter[c] # <<>> /\ m = Head(toRouter[c])[2]
      /\ toRouter'[c] = Tail(toRouter[c]) /\ toRouter \in [Client -> Seq(Wire)]
  BY DEF Inv, Typed, Handles
<1>2. Len(toRouter'[c]) < Len(toRouter[c])
  BY <1>1, HeadTailProperties, EmptySeq
<1>3. CASE toRouter' = toRouter
  BY <1>2, <1>3
<1>4. ASSUME NEW d \in Client, NEW x, Send(d, x)
      PROVE  FALSE
  <2>1. toRouter'[c] = toRouter[c] \/ toRouter'[c] = Append(toRouter[c], <<Delimiter, x>>)
    BY <1>1, <1>4 DEF Send
  <2>2. Len(Append(toRouter[c], <<Delimiter, x>>)) = Len(toRouter[c]) + 1 /\ Len(toRouter[c]) \in Nat
    BY <1>1
  <2> QED
    BY <1>2, <2>1, <2>2
<1>5. CASE ClientNext
  <2>1. ASSUME NEW d \in Client, Connect(d)
        PROVE  FALSE
    BY <2>1 DEF Connect, ConnectionUp
  <2>2. CASE ProducerNext
    BY <1>3, <1>4, <2>2, Kinds, <1>2
       DEF ProducerNext, SourceInit, PollAnnouncement, ReceivePub, PollQuiet, Publish, EndOfFile,
           ProducerSends, network
  <2>3. ASSUME NEW d \in Consumer, Announce(d) \/ Income(d) \/ Interrupt(d)
        PROVE  FALSE
    BY <1>2, <1>4, <2>3, Kinds DEF Announce, Income, Interrupt, ConnectionClosed
  <2> QED
    BY <1>5, <2>1, <2>2, <2>3 DEF ClientNext
<1>6. ASSUME NEW d \in Client, RouterStep(d)
      PROVE  d = c
  BY <1>1, <1>2, <1>6 DEF RouterStep, Receive
<1> QED
  BY <1>1, <1>2, <1>5, <1>6 DEF Next, vars, network

\* Whenever the router handles an announcement after the producer's own
\* subscription, and the producer's queue has room, the announcement is put
\* there, for any clients, lines and bounds.
THEOREM AnnouncementAlwaysTaken == Spec => AnnouncementTaken
<1>1. ASSUME Inv, Linked, [Next]_vars, NEW c \in Consumer, NEW a \in Announcements,
             Handles(c, a), UNCHANGED connected,
             OwnSub \in openSubs, <<OwnSub, Header[a]>> \in Matching, ~Full
      PROVE  [whole |-> a] \in Range(toClient'[Producer])
  <2>1. c \in Client /\ Producer \in Client /\ Producer \in connected
    BY <1>1, Kinds DEF Linked
  <2>2. OpenPublish(a)
    BY <1>1, <2>1, RouterHandles, AnnouncementOpen
  <2>3. PICK order \in SetToSeqs(MatchesIn(openSubs, a)) :
           SendAll([i \in 1 .. Len(order) |-> Owner[order[i]]],
                   [i \in 1 .. Len(order) |-> [whole |-> a]])
    BY <2>2 DEF OpenPublish
  <2>4. MatchesIn(openSubs, a) = {OwnSub}
    BY <1>1 DEF MatchesIn, Inv, Typed
  <2>5. IsFiniteSet({OwnSub}) /\ Cardinality({OwnSub}) = 1
    BY FS_Singleton
  <2>6. Len(order) = 1 /\ order[1] = OwnSub
    <3>1. order \in SetToSeqs({OwnSub})
      BY <2>4
    <3>2. Len(order) = 1 /\ order \in [1 .. Len(order) -> {OwnSub}]
      BY <2>5, <3>1, Enumerated
    <3> QED
      BY <3>2
  <2> DEFINE body == [whole |-> a]
             ids == [i \in 1 .. Len(order) |-> Owner[order[i]]]
             bodies == [i \in 1 .. Len(order) |-> body]
             after == AfterSendingAll(toClient, ids, bodies)
  <2>7. Len(ids) = 1 /\ ids[1] = Producer /\ bodies[1] = body /\ toClient' = after
    BY <2>3, <2>6, RelayAssumption DEF SendAll
  <2>8. body \in Frame /\ Delimiter \in Frame /\ toClient \in Queues(Frame)
    BY <1>1, FramesMade DEF Inv, Typed
  <2> HIDE DEF body, ids, bodies
  <2>9. Turns(ids, Producer) = {1}
    BY <2>7 DEF Turns
  <2>10. Len(toClient[Producer]) + 2 * Cardinality(Turns(ids, Producer)) <= 2 * Hwm
    <3>1. Cardinality(Turns(ids, Producer)) = 1
      BY <2>9, FS_Singleton
    <3>2. Len(toClient[Producer]) \in Nat /\ Hwm \in Nat
      BY <2>1, <2>8, NetworkAssumption DEF Queues
    <3> QED
      BY <1>1, <3>1, <3>2 DEF Full
  <2>11. /\ Len(ids) \in Nat /\ 1 \in 1 .. Len(ids)
         /\ \A i \in 1 .. Len(ids) : ids[i] \in Client /\ bodies[i] \in Frame
    BY <2>1, <2>7, <2>8
  <2>12. \A j \in 1 .. Len(ids) : ids[j] = Producer =>
            \E k \in 1 .. Len(after[Producer]) : after[Producer][k] = bodies[j]
    BY <2>1, <2>8, <2>10, <2>11, SendLoopDelivers
  <2>13. PICK k \in 1 .. Len(toClient'[Producer]) : toClient'[Producer][k] = body
    BY <2>7, <2>11, <2>12
  <2>14. toClient'[Producer] \in Seq(Frame)
    BY <1>1, <2>1, <2>7, RouterHandles, RouterDoes DEF Sends, Queues
  <2> QED
    BY <2>13, <2>14 DEF Range, body
<1>2. Inv /\ Linked /\ [Next]_vars =>
         (\A c \in Consumer : \A a \in Announcements :
             /\ Handles(c, a) /\ UNCHANGED connected
             /\ OwnSub \in openSubs /\ <<OwnSub, Header[a]>> \in Matching /\ ~Full
             => [whole |-> a] \in Range(toClient'[Producer]))
  BY <1>1
<1> QED
  BY <1>2, InvAlways, LinkedAlways, PTL DEF Spec, AnnouncementTaken
=============================================================================
