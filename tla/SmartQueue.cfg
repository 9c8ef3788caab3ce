CONSTANTS
    k1 = k1
    k2 = k2
    k3 = k3
    k4 = k4
    k5 = k5
    c1 = c1
    c2 = c2
    c3 = c3
    c4 = c4
    c5 = c5
    c6 = c6
    f1 = f1
    f2 = f2
    f3 = f3
    f4 = f4
    f5 = f5
    w1 = w1
    w2 = w2
    Keys = {k1, k2, k3}
    Callers = {c1, c2, c3}
    Smart = {c1}
    MaxAsks = 4
    Futs = {f1, f2, f3}
    Workers = {w1, w2}
    None = None
SPECIFICATION Spec
SYMMETRY Symmetry
INVARIANTS JobsAreShared JobIsQueuedOrRuns
PROPERTIES MostWaitersFirst
CHECK_DEADLOCK FALSE
