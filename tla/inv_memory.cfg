SPECIFICATION Spec
CONSTANTS
    t1 = t1  k1 = k1  a = a  b = b  c = c  r1 = r1  r2 = r2
    None = None
    Tags = {t1}
    Keys = {k1}
    EventIds = {a, b, c}
    Fetchers = {f1}
    Runners = {r1, r2}
    Inbox <- MemoryInbox
    Responses <- MemoryResponses
    ShardCount = 2
    ShardOf <- MCShardOf
    Retention = 0
    PruneSize = 1
    MaxTime = 1
INVARIANTS TypeOK PurgeHonoured
SYMMETRY RunnerSymmetry
