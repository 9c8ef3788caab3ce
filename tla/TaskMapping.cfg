CONSTANTS
    k1 = k1
    k2 = k2
    c1 = c1
    c2 = c2
    Keys = {k1, k2}
    MayFail = {k2}
    Asked = {k1}
    Consumers = {c1, c2}
    Uses <- MCUses
    Starts <- MCStarts
SPECIFICATION Spec
INVARIANTS YieldsOnce EndsWithEverything
PROPERTIES IterationEnds
CHECK_DEADLOCK FALSE
