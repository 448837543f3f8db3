\* The prefilter with and without a graph, in its four variants.
CONSTANTS
    Sub = {"s1", "t1", "s6", "t5", "s3", "s9"}
    Event = {"e3", "e4", "e6"}
    Covering <- MCCovering
    Matching <- MCMatching
    NoNode = NoNode
    NbBits = 2
    NbHashes = 2
    Value = {0, 1}
    EqualValues <- MCEqualValues
    EventValues <- MCEventValues
    NoVariant = NoVariant
SPECIFICATION MCSpec
INVARIANTS FilterTypeOK FilterExact ContainersFirst
CHECK_DEADLOCK FALSE
