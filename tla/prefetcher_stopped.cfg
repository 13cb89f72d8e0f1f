SPECIFICATION Spec
CONSTANTS
    Keys = {k1, k2}
    Callers = {c1, c2}
    Workers = {w1, w2}
    QueueSize = 1
    MaxEnqueues = 4
INVARIANT StoppedEnqueueDrops
CHECK_DEADLOCK FALSE
