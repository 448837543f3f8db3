------------------------------- MODULE Network -------------------------------
(***************************************************************************)
(* The ZeroMQ sockets between the clients and the router, as far as the    *)
(* code relies on them.  A client's DEALER socket (`outside`) and the      *)
(* router's ROUTER socket (`broker`) exchange multipart messages, in order *)
(* and whole.  A DEALER blocks when it has no peer or its queue is full; a *)
(* ROUTER drops what it sends to an identity it does not know or whose     *)
(* queue is full.                                                          *)
(***************************************************************************)
EXTENDS Integers, Sequences

CONSTANTS
    Client,     \* the identities of the clients
    Hwm,        \* bound: the messages the ROUTER holds for one client
    ClientHwm,  \* bound: the messages that a socket of a client holds
    Delimiter   \* the empty frame that precedes the body of a message

ASSUME NetworkAssumption == Hwm \in Nat \ {0} /\ ClientHwm \in Nat \ {0}

VARIABLES
    connected,  \* the clients whose connection with the router is up
    toRouter,   \* per client, messages (sequences of frames) for the router
    toClient    \* per client, frames for the client

network == <<connected, toRouter, toClient>>

NetworkInit ==
    /\ connected = {}
    /\ toRouter = [c \in Client |-> <<>>]
    /\ toClient = [c \in Client |-> <<>>]

\* The connection comes up: the router knows the client's identity.
ConnectionUp(c) ==
    /\ c \notin connected
    /\ connected' = connected \cup {c}
    /\ UNCHANGED <<toRouter, toClient>>

\* The client's socket is closed with ZMQ_LINGER = 1 ms: what was not yet
\* transmitted is dropped, what is meant for the client has nowhere to go.
ConnectionClosed(c) ==
    /\ connected' = connected \ {c}
    /\ \E k \in 0 .. Len(toRouter[c]) :
          toRouter' = [toRouter EXCEPT ![c] = SubSeq(@, 1, k)]
    /\ toClient' = [toClient EXCEPT ![c] = <<>>]

\* A DEALER has room for one more message.
Writable(c) == c \in connected /\ Len(toRouter[c]) < ClientHwm

\* The queues after the ROUTER sends the delimiter and a body to identity c.
AfterSending(queues, c, body) ==
    IF c \in connected /\ Len(queues[c]) + 2 <= 2 * Hwm
    THEN [queues EXCEPT ![c] = @ \o <<Delimiter, body>>]
    ELSE queues

\* The queues after the ROUTER sends each of the bodies to its identity, in order.
AfterSendingAll(queues, ids, bodies) ==
    LET after[i \in 0 .. Len(ids)] ==
            IF i = 0 THEN queues ELSE AfterSending(after[i - 1], ids[i], bodies[i])
    IN  after[Len(ids)]
=============================================================================
