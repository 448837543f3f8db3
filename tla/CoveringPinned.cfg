\* Ranges of up to two predicates per key, with equality: the pair rule.
CONSTANTS
    Key = {a}
    Name = {n, m}
    Ops = {"EQ", "LE", "GE"}
    Value = {2, 4}
    MinValue = 1
    MaxValue = 5
    MaxPreds = 2
    MaxTotal = 4
SPECIFICATION Spec
INVARIANT CoveringSound
CHECK_DEADLOCK FALSE
