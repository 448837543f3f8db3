\* Adding and removing subscriptions some of which are equivalent: the answers of match.
CONSTANTS
    Sub = {"s1", "s4", "s6", "t1"}
    Event = {"e1", "e2", "e4"}
    Covering <- MCCovering
    Matching <- MCMatching
    NoNode = NoNode
SPECIFICATION BoundedSpec
INVARIANT MatchExact
CHECK_DEADLOCK FALSE
