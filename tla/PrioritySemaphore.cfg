CONSTANTS
    t1 = t1
    t2 = t2
    t3 = t3
    t4 = t4
    a = a
    b = b
    c = c
    Tasks = {t1, t2, t3}
    Asked = {NoPriority, 0}
    NoPriority = NoPriority
    Managers = {a, b}
    Prio <- SamePriority
    Top = Top
    NoManager = NoManager
    DoneFut = DoneFut
    Capacity = 1
    MaxQueue = 2
SPECIFICATION Spec
INVARIANTS NoLostWakeup HeapCoherent
PROPERTIES TopFirst ImplementsPool
