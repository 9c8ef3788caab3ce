CONSTANTS
    i1 = i1
    i2 = i2
    i3 = i3
    Iters = {i1, i2, i3}
    Source <- MCSource
    Wanted = {1, 3}
SPECIFICATION Spec
INVARIANTS TypeOK SorterYieldsAll
CHECK_DEADLOCK FALSE
