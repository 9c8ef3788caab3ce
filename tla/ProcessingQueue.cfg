CONSTANTS
    j1 = j1
    j2 = j2
    j3 = j3
    j4 = j4
    w1 = w1
    w2 = w2
    Jobs = {j1, j2, j3, j4}
    Workers = {w1, w2}
    Rank <- MCRank
    Modes <- EveryMode
    NoJob = NoJob
SPECIFICATION Spec
CHECK_DEADLOCK FALSE
INVARIANTS UnfinishedIsExact JoinMeansProcessed OneJobOneWorker
PROPERTIES EveryJobSettles
