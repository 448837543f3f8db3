\* The router's use of the graph: subscriptions with equivalents, never removed.
CONSTANTS
    Sub = {"s1", "s3", "s4", "s5", "s6", "s8", "s9", "t1"}
    Event = {"e1", "e2", "e3", "e4"}
    Covering <- MCCovering
    Matching <- MCMatching
    NoNode = NoNode
SPECIFICATION RouterSpec
INVARIANT TypeOK
PROPERTY ImplementsRouterStore
CHECK_DEADLOCK FALSE
