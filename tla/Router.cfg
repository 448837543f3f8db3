\* The router, open and sealed messages from two clients that come and go.
CONSTANTS
    Client = {"c1", "c2"}
    Hwm = 2
    ClientHwm = 2
    Delimiter = Delimiter
    Sub <- MCSub
    Pub <- MCPub
    Junk = {"garbage"}
    Empty = "empty"
    Sealed <- MCSealed
    Owner <- MCOwner
    Header <- MCHeader
    Matching <- MCMatching
    NoPayload = NoPayload
SPECIFICATION Spec
INVARIANT RightNotification
PROPERTIES FreshPayload AllNotified
CHECK_DEADLOCK FALSE
