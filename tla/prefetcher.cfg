SPECIFICATION PrefetchFairSpec
CONSTANTS
    Keys = {k1, k2}
    Callers = {c1, c2}
    Workers = {w1, w2}
    QueueSize = 1
    MaxEnqueues = 3
    MaxTemplates = 1
INVARIANTS OneHolder HitsFollowLoads PauseHolds
PROPERTIES KeysComeFree WorkersExit
CHECK_DEADLOCK FALSE
