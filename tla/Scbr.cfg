\* Two clients that subscribe and publish: what must never and what must
\* eventually happen.  A client holds one message, the router two per client.
CONSTANTS
    Client = {"a", "b"}
    Hwm = 2
    ClientHwm = 1
    Delimiter = Delimiter
    Sub <- TwoSub
    Pub <- TwoPub
    Owner <- TwoOwner
    Publisher <- TwoPublisher
    Header <- TwoHeader
    Matching <- TwoMatching
SPECIFICATION FairSpec
INVARIANTS FramesAligned FlushedOnReturn CalledInOrder
PROPERTIES ImplementsPubSub QuietAfterTerminate SubscriptionAccepted TerminateReturns
CHECK_DEADLOCK FALSE
