CONSTANTS
    c1 = c1
    c2 = c2
    c3 = c3
    None = None
    Callers = {c1, c2, c3}
    InLoop = {c1, c2}
    ThreadOf <- MCThreadOf
    Classes <- MCClasses
    Asks <- MCAsks
    Flags <- MCFlags
SPECIFICATION Spec

PROPERTIES EveryCallReturns
CHECK_DEADLOCK FALSE
