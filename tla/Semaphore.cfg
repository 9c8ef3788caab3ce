CONSTANTS
    t1 = t1
    t2 = t2
    t3 = t3
    t4 = t4
    Tasks = {t1, t2, t3, t4}
    SpawnedChoices <- NoneOrTwo
    Capacity = 2
SPECIFICATION Spec
INVARIANTS NoLostWakeup FirstComeFirstServed
PROPERTIES NoBarging WaiterIsServed PoolSafety
