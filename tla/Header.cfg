SPECIFICATION Spec
CONSTANTS
    KeyOrder <- MCKeyOrder
    Spelled <- MCSpelled
    KeyWidths <- MCKeyWidths
    Numbers <- MCNumbers
    Words <- MCWords
    WordWidth <- MCWordWidth
    Leading <- MCLeading
    DigitFirst = {"cjk"}
    Ops = {"EQ", "LT", "GT", "LE", "GE"}
    MaxEntries = 3
    MaxVaried = 2
    MaxSends = 2
    MaxSeals = 2
    Lengths = {464, 470, 480, 492}
    Followed = {469, 484}
    NoMessage = NoMessage
    NotYet = NotYet
    Ignored = Ignored
CHECK_DEADLOCK FALSE
INVARIANTS
    MeaningKept
    NothingLost
    ParserInBounds
    CutKeepsPrefix
    CutIsRefused
    ReceiverReads
