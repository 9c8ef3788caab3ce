CONSTANTS
    t1 = t1
    t2 = t2
    Main = Main
    Const = Const
    Tasks = {t1, t2}
    MaxFutures = 3
    Programs <- MCPrograms
SPECIFICATION Spec
INVARIANTS AwaitersAgree CancelStaysAmongSharers
PROPERTIES ValuesArrive
CHECK_DEADLOCK FALSE
