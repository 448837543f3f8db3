SPECIFICATION Spec
CONSTANTS
    Client = {"12345", "c1", "c2"}
    Hwm = 2
    ClientHwm = 2
    Delimiter = Delimiter
    Sub = {"own", "s1", "s2", "s3", "s4"}
    Pub = {"a1", "a2", "a3", "a4", "p1", "p2"}
    Junk = {}
    Empty = Empty
    Sealed = {"s1", "s2", "s3", "s4", "p1", "p2"}
    Owner <- MCOwner
    Header <- MCHeader
    Matching <- MCMatching
    NoPayload = NoPayload
    Producer = "12345"
    OwnSub = "own"
    Lines <- MCLines
    Relayed <- MCRelayed
    File <- MCFile
    QuietPolls = 2
INVARIANTS
    PrintedRight
PROPERTIES
    InForce
    AnnouncementServed
    EverythingPublished
CHECK_DEADLOCK FALSE
