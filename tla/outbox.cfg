SPECIFICATION FairSpec
CONSTANTS
    n1 = n1  n2 = n2  p1 = p1  p2 = p2
    Books = {b1}
    ListTag = ListTag
    Nodes = {n1, n2}
    Requests = {p1, p2}
    NodeOf <- MCNodeOf
    BatchSize = 2
    MaxUpdates = 2
    MaxFaults = 1
INVARIANTS TypeOK NoUpdateUnannounced OnlyCommittedAnnounced RepeatsNeedFaults
PROPERTIES HandsOverAtLeastOnce OvertakesOnlySkipped OutboxDrains
