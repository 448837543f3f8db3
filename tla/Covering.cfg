\* Three subscriptions over every operator, with up to two predicates per key.
CONSTANTS
    Key = {a}
    Name = {n, m, l}
    Ops = {"EXISTS", "EQ", "NE", "LT", "GT", "LE", "GE"}
    Value = {2, 3, 5}
    MinValue = 1
    MaxValue = 6
    MaxPreds = 2
    MaxTotal = 4
SYMMETRY NameSymmetry
SPECIFICATION Spec
INVARIANTS CoveringSoundUnpinned CoveringComplete CoveringPreorder
CHECK_DEADLOCK FALSE
