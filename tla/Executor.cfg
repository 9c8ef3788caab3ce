CONSTANTS
    j1 = j1
    j2 = j2
    j3 = j3
    Jobs = {j1, j2, j3}
    FireAndForget = {j3}
    MaxWorkers = 2
    Stop = Stop
SPECIFICATION Spec
INVARIANTS OneThreadRemains
PROPERTIES EveryJobIsSettled ThreadsEnd
CHECK_DEADLOCK FALSE
