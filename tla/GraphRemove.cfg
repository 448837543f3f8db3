\* Adding and removing subscriptions, two of them equivalent: t1 covers t5 and
\* u6, both cover t3, and t2 covers t5.  When t5 goes, t1 still reaches t3.
CONSTANTS
    Sub = {"s1", "t1", "t2", "t3", "t5", "u6"}
    Event = {"e2", "e5", "e6"}
    Covering <- MCCovering
    Matching <- MCMatching
    NoNode = NoNode
SPECIFICATION BoundedSpec
INVARIANTS HasseDiagram SearchExact CountersExact MatchCountExact AloneExact
CHECK_DEADLOCK FALSE
