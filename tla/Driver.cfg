\* The matching program: main with its options, its test, and any use of a graph.
CONSTANTS
    Sub = {"s1", "s2", "s3", "s4", "s5", "s6", "s7", "s8", "s9"}
    Event = {"e1", "e2", "e3"}
    Covering <- MCCovering
    Matching <- MCMatching
    NoNode = NoNode
    NbBits = 2
    NbHashes = 1
    Value = {0, 1, 2, 3, 4}
    EqualValues <- MCEqualValues
    EventValues <- MCEventValues
    NoVariant = NoVariant
    MaxInt = 31
    UsedIds = {28}
    Unit = 2520
    NaN = NaN
    NoStats = NoStats
    Programs <- MCPrograms
    NoFile = NoFile
    FreeSubs = {"s1", "s4", "s6"}
    FreeEvents = {"e2"}
    MaxOps = 5
SPECIFICATION DriverSpec
INVARIANTS
    TestLeavesNothing
    EnginesAgree
    MeansAgree
    DepthsExact
    NoDanglingNode
PROPERTIES
    WalkImplementsMatch
    OperationsEnd
