\* Two clients that subscribe and publish: the lookup of callbacks.
CONSTANTS
    Client = {"a", "b"}
    Hwm = 2
    ClientHwm = 2
    Delimiter = Delimiter
    Sub <- TwoSub
    Pub <- TwoPub
    Owner <- TwoOwner
    Publisher <- TwoPublisher
    Header <- TwoHeader
    Matching <- TwoMatching
SPECIFICATION Spec
INVARIANT CallbackFound
CHECK_DEADLOCK FALSE
