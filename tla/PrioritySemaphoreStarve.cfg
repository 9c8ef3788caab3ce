CONSTANTS
    t1 = t1
    t2 = t2
    t3 = t3
    t4 = t4
    a = a
    b = b
    c = c
    Tasks = {t1, t2}
    Asked = {}
    NoPriority = NoPriority
    Managers = {}
    Prio <- TopOnly
    Top = Top
    NoManager = NoManager
    DoneFut = DoneFut
    Capacity = 1
    MaxQueue = 3
SPECIFICATION Spec
PROPERTIES NobodyWaitsForever
