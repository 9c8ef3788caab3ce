CONSTANTS
    c1 = c1
    c2 = c2
    Consumers = {c1, c2}
    UseChoices <- SomeOrAll
    Sizes = {2, 3}
    MaxItems = 4
    MaxRecount = 5
SPECIFICATION Spec
SYMMETRY Symmetry
CHECK_DEADLOCK FALSE
INVARIANTS TakenAreOlder NothingLost UnfinishedIsExact
