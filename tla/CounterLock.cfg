CONSTANTS
    t1 = t1
    t2 = t2
    t3 = t3
    A = A
    B = B
    Tasks = {t1, t2, t3}
    Loops = {A, B}
    LoopOf <- MCLoopOf
    MaxValue = 3
    NoEvent = NoEvent
SPECIFICATION Spec
INVARIANTS HeapMatchesEvents WaitersAreReachable
PROPERTIES ReachedReturns
