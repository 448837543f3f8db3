--------------------------------- MODULE Scbr ---------------------------------
(***************************************************************************)
(* Clients that use the client library, and their router.  Every client    *)
(* listens; the router connects to all of them (scbr --connect).  The      *)
(* library seals every message.                                            *)
(***************************************************************************)
EXTENDS Matcher, SequencesExt

CONSTANTS
    Header,     \* the header of each message
    Matching    \* set of pairs <<s, h>>: subscription s matches header h

\* The library does not send the empty message.
ASSUME NeverEmpty == "empty" \notin Sub \cup Pub

VARIABLES
    openSubs, sealedSubs, dataTable,    \* the state of the router
    routed                              \* the publications it has handled (history)

routerVars == <<openSubs, sealedSubs, dataTable>>
vars == <<matcher, network, routerVars, routed>>

R == INSTANCE Router WITH
        Junk <- {}, Empty <- "empty", Sealed <- Sub \cup Pub, NoPayload <- Nothing

Matches(s, p) == <<s, Header[p]>> \in Matching

Init == MatcherInit /\ NetworkInit /\ R!RouterInit /\ routed = {}

ClientStep(c) ==
    /\ UserStep(c) \/ PollerStep(c) \/ Connect(c)
    /\ UNCHANGED <<routerVars, routed>>

RouterStep(c) ==
    /\ R!Receive(c)
    /\ routed' = routed \cup ({Head(toRouter[c])[2]} \cap Pub)
    /\ UNCHANGED matcher

Next == \E c \in Client : ClientStep(c) \/ RouterStep(c)

\* The polling threads run, ZeroMQ connects and fair-queues what the router
\* reads, and the user's thread finishes a call it has begun.  Nothing obliges
\* a user to send anything or to terminate.
Fairness ==
    \A c \in Client :
        /\ WF_vars(PollerStep(c) /\ UNCHANGED <<routerVars, routed>>)
        /\ WF_vars(Connect(c) /\ UNCHANGED <<routerVars, routed>>)
        /\ WF_vars(RouterStep(c))
        /\ WF_vars((\/ ConstructContext(c) \/ Construct(c)
                    \/ BeginRegister(c) \/ EndRegister(c) \/ Joined(c))
                    /\ UNCHANGED <<routerVars, routed>>)

Spec == Init /\ [][Next]_vars
FairSpec == Spec /\ Fairness

-----------------------------------------------------------------------------
\* Whatever the turns of the two threads, a message reaches the router as the
\* frames it was sent as: legacymain reads three frames per message, without
\* looking at them, and would never find its way back.
FramesAligned ==
    \A c \in Client : \A i \in 1 .. Len(toRouter[c]) :
        /\ Len(toRouter[c][i]) = 2
        /\ toRouter[c][i][1] = Delimiter
        /\ WasSent(c, toRouter[c][i][2])

\* terminate loses nothing by itself: when it returns, everything the user has
\* sent was handed to the socket (whose linger of 1 ms is another matter).
FlushedOnReturn ==
    \A c \in Client : user[c] = "terminated" =>
        pipe[c] = <<>> /\ held[c] = Nothing /\ parts[c] = <<>>

Position(seq, x) == CHOOSE i \in 1 .. Len(seq) : seq[i] = x

\* The publications of one client reach the callback of a subscription in the
\* order they were sent: library, sockets and router keep it.
CalledInOrder ==
    \A c \in Client : \A i, j \in 1 .. Len(called[c]) :
        LET p == called[c][i][2]
            q == called[c][j][2]
        IN  /\ i < j /\ called[c][i][1] = called[c][j][1]
            /\ Publisher[p] = Publisher[q]
            => Position(sent[Publisher[p]], p) < Position(sent[Publisher[q]], q)

\* A notification of a subscription always finds its callback.
\* ("Call the right callback based on SUB hash", scbr_api.cpp:218)
CallbackFound == \A c \in Client : missed[c] = {}

\* Once terminate has returned, no callback runs: the user may destroy what
\* the callbacks use.
QuietAfterTerminate ==
    [][\A c \in Client : user[c] = "terminated" => called'[c] = called[c]]_vars

-----------------------------------------------------------------------------
\* Everything the clients see is allowed by the service PubSub.
Service == INSTANCE PubSub WITH
    accepted <- sealedSubs,
    owed <- {<<n.hash, n.payload>> :
               n \in UNION {{toClient[c][i] : i \in 1 .. Len(toClient[c])} \ {Delimiter} :
                              c \in Client}},
    got <- called

ImplementsPubSub == Service!Spec

-----------------------------------------------------------------------------
\* A subscription that was sent reaches the router, even with every queue full
\* of publications, unless the client ends first.  (Publications are finite
\* here: the polling thread serves `outside` first, and notifications that
\* never cease would keep it from the pipe.)
SubscriptionAccepted ==
    \A s \in Sub :
        WasSent(Owner[s], s) ~> s \in sealedSubs \/ poller[Owner[s]] = "exited"

\* terminate returns, under the same reservation.
TerminateReturns ==
    \A c \in Client : user[c] = "joining" ~> user[c] = "terminated"
=============================================================================
