CONSTANTS
    c1 = c1
    c2 = c2
    Consumers = {c1}
    UseChoices <- OnlyMulti
    Sizes = {2}
    MaxItems = 2
    MaxRecount = 2
SPECIFICATION Spec
CHECK_DEADLOCK FALSE
INVARIANTS MultiLosesNothing
