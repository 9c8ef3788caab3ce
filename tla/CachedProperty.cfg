CONSTANTS
    c1 = c1
    c2 = c2
    c3 = c3
    Callers = {c1, c2, c3}
    None = None
    Assigned = Assigned
SPECIFICATION Spec
INVARIANTS NobodyElsePopped
PROPERTIES RunningTaskIsShared CallersReturn
CHECK_DEADLOCK FALSE
