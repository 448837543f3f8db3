-------------------------------- MODULE Relay --------------------------------
(***************************************************************************)
(* The samples producer.cpp and consumer.cpp around the router.  The       *)
(* producer subscribes in the open to what is addressed to it; each        *)
(* consumer announces its subscriptions to it in open publications; the    *)
(* producer seals them and passes them on, and publishes the lines of its  *)
(* file once nothing has come in for a while.  Notifications go to the     *)
(* consumers directly.                                                     *)
(***************************************************************************)
EXTENDS Router

CONSTANTS
    Producer,   \* its identity ("12345")
    OwnSub,     \* its open subscription
    Lines,      \* per consumer, the announcements of the lines of its file
    Relayed,    \* the sealed subscription that an announcement carries
    File,       \* the publications that the lines of the producer's file become
    QuietPolls  \* the empty polls before it publishes (1000)

Consumer == Client \ {Producer}
Announcements == UNION {Range(Lines[c]) : c \in Consumer}

\* The producer subscribes in the open, in its own name; an announcement is an
\* open publication; a consumer writes its name into the subscriptions of its
\* file, which the producer seals; and every line of the producer's file
\* becomes a message of its own, sealed with a fresh IV.
ASSUME RelayAssumption ==
    /\ Producer \in Client
    /\ QuietPolls \in Nat \ {0}
    /\ OwnSub \in Sub \ Sealed /\ Owner[OwnSub] = Producer
    /\ Lines \in [Consumer -> Seq(Pub \ Sealed)]
    /\ Relayed \in [Announcements -> Sub \cap Sealed]
    /\ \A a \in Announcements : Owner[Relayed[a]] \in Consumer
    /\ File \in Seq(Pub \cap Sealed)
    /\ \A i, j \in DOMAIN File : File[i] = File[j] => i = j

VARIABLES
    producer,   \* what it does: "init", "polling", "relaying" or "publishing"
    relaying,   \* the announcement that it has received last
    recvdSth,   \* recvd_sth: has anything come in since it last published?
    cnt,        \* the empty polls since then
    fileAt,     \* the lines of the file that were read
    lineAt,     \* per consumer, the lines that were announced
    printed,    \* per consumer, the notifications printed
    gone,       \* the consumers that were interrupted
    sent        \* history: what the producer has sent, in order

vars == <<network, openSubs, sealedSubs, dataTable, producer, relaying, recvdSth,
          cnt, fileAt, lineAt, printed, gone, sent>>
router == <<openSubs, sealedSubs, dataTable>>

Init ==
    /\ NetworkInit /\ RouterInit
    /\ producer = "init" /\ relaying \in Announcements
    /\ recvdSth = FALSE /\ cnt = 0 /\ fileAt = 0
    /\ lineAt = [c \in Consumer |-> 0]
    /\ printed = [c \in Consumer |-> <<>>]
    /\ gone = {}
    /\ sent = <<>>

\* (Slip: ZMQ_DONTWAIT, and a message that finds no room is lost.)
SendNoWait(c, m) ==
    /\ toRouter' = IF Writable(c)
                   THEN [toRouter EXCEPT ![c] = Append(@, <<Delimiter, m>>)]
                   ELSE toRouter
    /\ UNCHANGED connected

\* Communication::send: the delimiter and the message, as one; it blocks until
\* the socket has room.
Send(c, m) ==
    /\ Writable(c)
    /\ toRouter' = [toRouter EXCEPT ![c] = Append(@, <<Delimiter, m>>)]
    /\ UNCHANGED connected

ProducerSends(m) ==
    /\ Send(Producer, m)
    /\ sent' = Append(sent, m)
    /\ UNCHANGED <<toClient, lineAt, printed, gone>>

-----------------------------------------------------------------------------
(* The producer.                                                           *)

\* Source::init
SourceInit ==
    /\ producer = "init"
    /\ ProducerSends(OwnSub)
    /\ producer' = "polling"
    /\ UNCHANGED <<relaying, recvdSth, cnt, fileAt>>

\* The inner loop of main: a delimiter, and s_recv for the announcement.
PollAnnouncement ==
    /\ producer = "polling" /\ toClient[Producer] # <<>>
    /\ relaying' = toClient[Producer][2].whole
    /\ toClient' = [toClient EXCEPT ![Producer] = Tail(Tail(@))]
    /\ producer' = "relaying"
    /\ UNCHANGED <<connected, toRouter, recvdSth, cnt, fileAt, lineAt, printed, gone, sent>>

\* Source::receive_pub, and back to the inner loop.
ReceivePub ==
    /\ producer = "relaying"
    /\ ProducerSends(Relayed[relaying])
    /\ producer' = "polling" /\ recvdSth' = TRUE /\ cnt' = 0
    /\ UNCHANGED <<relaying, fileAt>>

\* A poll that finds nothing; it counts only after something has come in.
PollQuiet ==
    /\ producer = "polling" /\ toClient[Producer] = <<>> /\ recvdSth
    /\ cnt' = (cnt + 1) % QuietPolls
    /\ recvdSth' = (cnt' # 0)
    /\ producer' = IF recvdSth' THEN "polling" ELSE "publishing"
    /\ UNCHANGED <<network, relaying, fileAt, lineAt, printed, gone, sent>>

\* (Slip: one line each time.)
PublishLine ==
    /\ producer = "publishing" /\ fileAt < Len(File)
    /\ ProducerSends(File[fileAt + 1])
    /\ fileAt' = fileAt + 1
    /\ producer' = "polling"
    /\ UNCHANGED <<relaying, recvdSth, cnt>>

\* Source::publish, for every line there is; nothing is polled meanwhile.
Publish ==
    /\ producer = "publishing" /\ fileAt < Len(File)
    /\ ProducerSends(File[fileAt + 1])
    /\ fileAt' = fileAt + 1
    /\ UNCHANGED <<producer, relaying, recvdSth, cnt>>

\* (Slip: the producer is done with its file and leaves.)
EndOfFileLeaves ==
    /\ producer = "publishing" /\ fileAt = Len(File)
    /\ producer' = "gone"
    /\ UNCHANGED <<network, relaying, recvdSth, cnt, fileAt, lineAt, printed, gone, sent>>

EndOfFile ==
    /\ producer = "publishing" /\ fileAt = Len(File)
    /\ producer' = "polling"
    /\ UNCHANGED <<network, relaying, recvdSth, cnt, fileAt, lineAt, printed, gone, sent>>

ProducerNext ==
    \/ SourceInit \/ PollAnnouncement \/ ReceivePub \/ PollQuiet \/ Publish \/ EndOfFile

-----------------------------------------------------------------------------
(* A consumer.                                                             *)

ProducerUnchanged == UNCHANGED <<producer, relaying, recvdSth, cnt, fileAt, sent>>

\* Consumer::subscribe, for the next line.
Announce(c) ==
    /\ c \notin gone /\ lineAt[c] < Len(Lines[c])
    /\ Send(c, Lines[c][lineAt[c] + 1])
    /\ lineAt' = [lineAt EXCEPT ![c] = @ + 1]
    /\ UNCHANGED <<toClient, printed, gone>> /\ ProducerUnchanged

\* The loop of main and process_income: frame by frame; the delimiter is empty
\* and ignored, the rest is printed without the 32 bytes of the hash.
Income(c) ==
    /\ c \notin gone /\ lineAt[c] = Len(Lines[c]) /\ toClient[c] # <<>>
    /\ toClient' = [toClient EXCEPT ![c] = Tail(@)]
    /\ printed' = IF Head(toClient[c]) = Delimiter THEN printed
                  ELSE [printed EXCEPT ![c] = Append(@, Head(toClient[c]))]
    /\ UNCHANGED <<connected, toRouter, lineAt, gone>> /\ ProducerUnchanged

\* Ctrl-C: a consumer handles no signal.
Interrupt(c) ==
    /\ c \in connected
    /\ ConnectionClosed(c)
    /\ gone' = gone \cup {c}
    /\ UNCHANGED <<lineAt, printed>> /\ ProducerUnchanged

-----------------------------------------------------------------------------
Connect(c) ==
    /\ c \notin gone /\ ConnectionUp(c)
    /\ UNCHANGED <<lineAt, printed, gone>> /\ ProducerUnchanged

RouterStep(c) ==
    /\ Receive(c)
    /\ UNCHANGED <<lineAt, printed, gone>> /\ ProducerUnchanged

ClientNext ==
    /\ \/ \E c \in Client : Connect(c)
       \/ ProducerNext
       \/ \E c \in Consumer : Announce(c) \/ Income(c) \/ Interrupt(c)
    /\ UNCHANGED router

Next == ClientNext \/ \E c \in Client : RouterStep(c)

\* Every program runs, every connection comes up, and the router reads fairly
\* from its clients (ZeroMQ takes them in turn).
Fairness ==
    /\ WF_vars(ProducerNext /\ UNCHANGED router)
    /\ \A c \in Client :
        /\ WF_vars(Connect(c) /\ UNCHANGED router)
        /\ WF_vars(RouterStep(c))
    /\ \A c \in Consumer : WF_vars((Announce(c) \/ Income(c)) /\ UNCHANGED router)

Spec == Init /\ [][Next]_vars /\ Fairness

-----------------------------------------------------------------------------
\* x was sent by the producer before y.
SentBefore(x, y) ==
    \E i, j \in DOMAIN sent : i < j /\ sent[i] = x /\ sent[j] = y

\* The router handles the body m, of client c, in this step.
Handles(c, m) ==
    /\ toRouter[c] # <<>> /\ Head(toRouter[c])[2] = m
    /\ toRouter' = [toRouter EXCEPT ![c] = Tail(@)]

\* A consumer whose subscription was passed on before a publication gets it
\* from then on: it is in force when the router handles the publication, and
\* one that is passed on later is not.
InForce ==
    [][\A p \in Range(File) : Handles(Producer, p) =>
          sealedSubs = {s \in Range(Relayed) : SentBefore(s, p)}]_vars

\* What a consumer prints is for one of its own subscriptions, matches it, was
\* published after it was passed on, and comes once and in the order of the
\* file; it is never an announcement or another text that has no hash to cut.
PrintedRight ==
    \A c \in Consumer : \A i \in DOMAIN printed[c] :
        LET b == printed[c][i] IN
            /\ DOMAIN b = {"hash", "payload"}
            /\ Owner[b.hash] = c /\ b.payload \in Range(File)
            /\ <<b.hash, Header[b.payload]>> \in Matching
            /\ SentBefore(b.hash, b.payload)
            /\ \A j \in 1 .. i - 1 :
                  printed[c][j] # b /\ ~SentBefore(b.payload, printed[c][j].payload)

\* What the producer's queue holds when the ROUTER drops the next announcement.
Full == Len(toClient[Producer]) + 2 > 2 * Hwm

\* An announcement that finds the producer's own subscription at the router,
\* and room in its queue, is there when the router is done with it: no other
\* destination and no other message takes its place.
AnnouncementTaken ==
    [][\A c \in Consumer : \A a \in Announcements :
          /\ Handles(c, a) /\ UNCHANGED connected
          /\ OwnSub \in openSubs /\ <<OwnSub, Header[a]>> \in Matching /\ ~Full
          => [whole |-> a] \in Range(toClient'[Producer])]_vars

\* An announcement that reached the producer, or its queue, is in force some
\* time later, even while the producer publishes and polls nothing.  One that
\* waits for the router, and will find the producer's own subscription there,
\* gets as far unless its consumer is interrupted or the producer's queue is
\* full on the way: there the ROUTER drops it, and nobody repeats it; it drops
\* none that finds room.
AnnouncementServed ==
    /\ \A c \in Consumer : \A a \in Range(Lines[c]) :
        /\ [whole |-> a] \in Range(toClient[Producer]) \/ (producer = "relaying" /\ relaying = a)
           ~> Relayed[a] \in sealedSubs
        /\ OwnSub \in openSubs /\ (\E i \in DOMAIN toRouter[c] : toRouter[c][i][2] = a)
           ~> Relayed[a] \in sealedSubs \/ c \in gone \/ Full
    /\ AnnouncementTaken

\* Once an announcement has reached the producer, the whole file is published,
\* although every other one (there are as many as the consumers' files have
\* lines) starts the count of quiet polls again.
EverythingPublished == toClient[Producer] # <<>> ~> Range(File) \subseteq Range(sent)
=============================================================================
