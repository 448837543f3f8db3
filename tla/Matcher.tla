------------------------------- MODULE Matcher -------------------------------
(***************************************************************************)
(* The client library: the Matcher objects of scbr_api.cpp, one per        *)
(* client.  Two threads share each of them.  The user's thread constructs  *)
(* it, sends subscriptions and publications, and terminates it; the        *)
(* polling thread owns the connection with the router, relays what the     *)
(* user sends and calls the user back.  They share an inproc pipe          *)
(* (outsock_ to inside) and, without a lock, the map callbacks_.           *)
(*                                                                         *)
(* A subscription stands for the hash of its header, by which its callback *)
(* is found.  The counters ssubcount_, spubcount_, rpubcount_ are left out.*)
(***************************************************************************)
EXTENDS Network, FiniteSets

CONSTANTS
    Sub,        \* subscriptions
    Pub,        \* publications
    Owner,      \* the client that sends each subscription
    Publisher   \* the client that sends each publication

ASSUME MatcherAssumption ==
    /\ Sub \cap Pub = {}
    /\ Owner \in [Sub -> Client]
    /\ Publisher \in [Pub -> Client]

VARIABLES
    user,       \* where the user's thread is
    poller,     \* where the polling thread is
    sending,    \* the subscription that send is sending
    sent,       \* the messages the user has sent, in order (history)
    pipe,       \* frames from outsock_ to inside
    held,       \* the frame the polling thread has taken from inside
    parts,      \* frames sent to outside that wait for their last one
    callbacks,  \* callbacks_: the subscriptions that have one
    called,     \* the callbacks made, <<subscription, payload>>, in order (history)
    missed      \* the notifications that found no callback (history)

userVars == <<user, sending, sent>>
pollerVars == <<poller, held, parts, called, missed>>
matcher == <<userVars, pollerVars, pipe, callbacks>>

Die == "*die*"
Nothing == "nothing"

\* A message holds its header and is none of the frames that are signals.
ASSUME FramesDistinct ==
    /\ {Delimiter, Die, Nothing} \cap (Sub \cup Pub) = {}
    /\ Delimiter \notin {Die, Nothing}

SubsOf(c) == {s \in Sub : Owner[s] = c}
PubsOf(c) == {p \in Pub : Publisher[p] = c}
WasSent(c, m) == \E i \in 1 .. Len(sent[c]) : sent[c][i] = m

MatcherInit ==
    /\ user = [c \in Client |-> "constructing"]
    /\ poller = [c \in Client |-> "starting"]
    /\ sending = [c \in Client |-> Nothing]
    /\ sent = [c \in Client |-> <<>>]
    /\ pipe = [c \in Client |-> <<>>]
    /\ held = [c \in Client |-> Nothing]
    /\ parts = [c \in Client |-> <<>>]
    /\ callbacks = [c \in Client |-> {}]
    /\ called = [c \in Client |-> <<>>]
    /\ missed = [c \in Client |-> {}]

-----------------------------------------------------------------------------
\* The user's thread.

\* The constructor.  Members are initialized in the order of their declaration:
\* recv_polling_ first, so that the polling thread may run before any other is
\* there, then context_ ...
ConstructContext(c) ==
    /\ user[c] = "constructing"
    /\ user' = [user EXCEPT ![c] = "opening"]
    /\ UNCHANGED <<sending, sent, pollerVars, pipe, callbacks, network>>

\* ... and then outsock_ and callbacks_; the body binds the pipe.  Meanwhile the
\* polling thread may connect `inside` to what is not bound yet, as ZeroMQ
\* allows; it looks nothing up, since nobody was subscribed in this name.
Construct(c) ==
    /\ user[c] = "opening"
    /\ user' = [user EXCEPT ![c] = "idle"]
    /\ UNCHANGED <<sending, sent, pollerVars, pipe, callbacks, network>>

\* s_sendmore and s_send on outsock_: the frames of a message become readable
\* together.  A PUSH socket blocks until it has a peer and while it is full.
Push(c, frames) ==
    /\ poller[c] \in {"polling", "forwarding"}
    /\ Len(pipe[c]) + Len(frames) <= 2 * ClientHwm
    /\ pipe' = [pipe EXCEPT ![c] = @ \o frames]

\* send(Subscription) hands the message over ...
SendSubscription(c, s) ==
    /\ user[c] = "idle"
    /\ s \in SubsOf(c) /\ ~WasSent(c, s)
    /\ Push(c, <<Delimiter, s>>)
    /\ user' = [user EXCEPT ![c] = "sent"]
    /\ sending' = [sending EXCEPT ![c] = s]
    /\ sent' = [sent EXCEPT ![c] = Append(@, s)]
    /\ UNCHANGED <<pollerVars, callbacks, network>>

\* ... and only then inserts the callback in the map, while the polling thread
\* may look another one up.
BeginRegister(c) ==
    /\ user[c] = "sent"
    /\ user' = [user EXCEPT ![c] = "registering"]
    /\ UNCHANGED <<sending, sent, pollerVars, pipe, callbacks, network>>

EndRegister(c) ==
    /\ user[c] = "registering"
    /\ callbacks' = [callbacks EXCEPT ![c] = @ \cup {sending[c]}]
    /\ sending' = [sending EXCEPT ![c] = Nothing]
    /\ user' = [user EXCEPT ![c] = "idle"]
    /\ UNCHANGED <<sent, pollerVars, pipe, network>>

\* send(Publication)
SendPublication(c, p) ==
    /\ user[c] = "idle"
    /\ p \in PubsOf(c) /\ ~WasSent(c, p)
    /\ Push(c, <<Delimiter, p>>)
    /\ sent' = [sent EXCEPT ![c] = Append(@, p)]
    /\ UNCHANGED <<user, sending, pollerVars, callbacks, network>>

\* (Slip: the thread is joined before it is told to stop.)
TerminateJoinFirst(c) ==
    /\ user[c] = "idle"
    /\ user' = [user EXCEPT ![c] = "joining"]
    /\ UNCHANGED <<sending, sent, pollerVars, pipe, callbacks, network>>

\* terminate: the order to stop follows whatever was sent before ...
Terminate(c) ==
    /\ user[c] = "idle"
    /\ Push(c, <<Die>>)
    /\ user' = [user EXCEPT ![c] = "joining"]
    /\ UNCHANGED <<sending, sent, pollerVars, callbacks, network>>

\* (Slip: the thread is detached, not joined.)
JoinedAtOnce(c) ==
    /\ user[c] = "joining"
    /\ user' = [user EXCEPT ![c] = "terminated"]
    /\ UNCHANGED <<sending, sent, pollerVars, pipe, callbacks, network>>

\* ... and terminate returns once the polling thread has ended.
Joined(c) ==
    /\ user[c] = "joining"
    /\ poller[c] = "exited"
    /\ user' = [user EXCEPT ![c] = "terminated"]
    /\ UNCHANGED <<sending, sent, pollerVars, pipe, callbacks, network>>

-----------------------------------------------------------------------------
\* The polling thread.

\* The sockets are made from context_: if that is not there yet, the socket
\* constructor throws outside of the try block and the process is aborted.
OpenSockets(c) ==
    /\ poller[c] = "starting"
    /\ IF user[c] = "constructing"
       THEN /\ poller' = [poller EXCEPT ![c] = "aborted"]
            /\ user' = [user EXCEPT ![c] = "aborted"]
       ELSE /\ poller' = [poller EXCEPT ![c] = "polling"]
            /\ UNCHANGED user
    /\ UNCHANGED <<sending, sent, held, parts, called, missed, pipe, callbacks, network>>

\* The connection is made by ZeroMQ once `outside` is bound.
Connect(c) ==
    /\ poller[c] \in {"polling", "forwarding"}
    /\ ConnectionUp(c)
    /\ UNCHANGED matcher

\* The lookup in callbacks_.  A lookup that races with the insertion of
\* another entry may miss the one it looks for.
CallBack(c, body) ==
    \/ /\ body.hash \in callbacks[c]
       /\ called' = [called EXCEPT ![c] = Append(@, <<body.hash, body.payload>>)]
       /\ UNCHANGED missed
    \/ /\ body.hash \notin callbacks[c] \/ user[c] = "registering"
       /\ missed' = [missed EXCEPT ![c] = @ \cup {<<body.hash, body.payload>>}]
       /\ UNCHANGED called

\* One turn of the loop when `outside` is readable: it is served first.
PollOutside(c) ==
    /\ poller[c] = "polling"
    /\ toClient[c] # <<>>
    /\ toClient' = [toClient EXCEPT ![c] = Tail(@)]
    /\ IF Head(toClient[c]) = Delimiter THEN UNCHANGED <<called, missed>>
                                        ELSE CallBack(c, Head(toClient[c]))
    /\ UNCHANGED <<userVars, poller, held, parts, pipe, callbacks, connected, toRouter>>

\* One turn of the loop when only `inside` is readable: take a frame ...
PollInside(c) ==
    /\ poller[c] = "polling"
    /\ toClient[c] = <<>> /\ pipe[c] # <<>> /\ Head(pipe[c]) # Die
    /\ pipe' = [pipe EXCEPT ![c] = Tail(@)]
    /\ held' = [held EXCEPT ![c] = Head(pipe[c])]
    /\ poller' = [poller EXCEPT ![c] = "forwarding"]
    /\ UNCHANGED <<userVars, parts, called, missed, callbacks, network>>

\* (Slip: every frame is sent as the last one of its message.)
ForwardEachFrame(c) ==
    /\ poller[c] = "forwarding"
    /\ Writable(c)
    /\ toRouter' = [toRouter EXCEPT ![c] = Append(@, <<held[c]>>)]
    /\ UNCHANGED parts
    /\ held' = [held EXCEPT ![c] = Nothing]
    /\ poller' = [poller EXCEPT ![c] = "polling"]
    /\ UNCHANGED <<userVars, called, missed, pipe, callbacks, connected, toClient>>

\* (Slips: the thread does not block; the delimiter waits for the body, and a
\* message that finds no room goes to the end of the pipe again, or is lost.)
ForwardOrRequeue(c) ==
    /\ poller[c] = "forwarding"
    /\ IF held[c] = Delimiter
       THEN /\ parts' = [parts EXCEPT ![c] = Append(@, held[c])]
            /\ UNCHANGED <<pipe, toRouter>>
       ELSE /\ parts' = [parts EXCEPT ![c] = <<>>]
            /\ IF Writable(c)
               THEN /\ toRouter' = [toRouter EXCEPT ![c] = Append(@, Append(parts[c], held[c]))]
                    /\ UNCHANGED pipe
               ELSE /\ pipe' = [pipe EXCEPT ![c] = @ \o Append(parts[c], held[c])]
                    /\ UNCHANGED toRouter
    /\ held' = [held EXCEPT ![c] = Nothing]
    /\ poller' = [poller EXCEPT ![c] = "polling"]
    /\ UNCHANGED <<userVars, called, missed, callbacks, connected, toClient>>

ForwardOrDrop(c) ==
    /\ poller[c] = "forwarding"
    /\ parts' = [parts EXCEPT ![c] = IF held[c] = Delimiter THEN Append(@, held[c]) ELSE <<>>]
    /\ toRouter' = IF held[c] # Delimiter /\ Writable(c)
                   THEN [toRouter EXCEPT ![c] = Append(@, Append(parts[c], held[c]))]
                   ELSE toRouter
    /\ held' = [held EXCEPT ![c] = Nothing]
    /\ poller' = [poller EXCEPT ![c] = "polling"]
    /\ UNCHANGED <<userVars, called, missed, pipe, callbacks, connected, toClient>>

\* ... and send it on, the empty one with ZMQ_SNDMORE.  `outside` blocks until
\* the router is connected and has room.
Forward(c) ==
    /\ poller[c] = "forwarding"
    /\ Writable(c)
    /\ IF held[c] = Delimiter
       THEN /\ parts' = [parts EXCEPT ![c] = Append(@, held[c])]
            /\ UNCHANGED toRouter
       ELSE /\ toRouter' = [toRouter EXCEPT ![c] = Append(@, Append(parts[c], held[c]))]
            /\ parts' = [parts EXCEPT ![c] = <<>>]
    /\ held' = [held EXCEPT ![c] = Nothing]
    /\ poller' = [poller EXCEPT ![c] = "polling"]
    /\ UNCHANGED <<userVars, called, missed, pipe, callbacks, connected, toClient>>

\* The order to stop: the sockets are closed as the thread's function returns.
Exit(c) ==
    /\ poller[c] = "polling"
    /\ toClient[c] = <<>> /\ pipe[c] # <<>> /\ Head(pipe[c]) = Die
    /\ pipe' = [pipe EXCEPT ![c] = Tail(@)]
    /\ poller' = [poller EXCEPT ![c] = "exited"]
    /\ ConnectionClosed(c)
    /\ UNCHANGED <<userVars, held, parts, called, missed, callbacks>>

-----------------------------------------------------------------------------
UserStep(c) ==
    \/ ConstructContext(c) \/ Construct(c)
    \/ BeginRegister(c) \/ EndRegister(c) \/ Terminate(c) \/ Joined(c)
    \/ \E s \in Sub : SendSubscription(c, s)
    \/ \E p \in Pub : SendPublication(c, p)

PollerStep(c) ==
    OpenSockets(c) \/ PollOutside(c) \/ PollInside(c) \/ Forward(c) \/ Exit(c)
=============================================================================
