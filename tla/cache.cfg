SPECIFICATION FairSpec
CONSTANTS
    Keys = {k1, k2, k3}
    Tags = {t1}
    Shards = {s1}
    ShardOf <- MCShardOf
    Capacity = 2
    MaxBytes = 4
    Sizes = {1, 2, 4}
    Lifetimes = {0, 1}
    Never = Never
    None = None
    MaxSets = 3
    MaxTime = 2
INVARIANTS TypeOK TagIndexExact AccountsExact LimitsKept
PROPERTIES OnlyExpiredExpire ExpiredLeave
CHECK_DEADLOCK FALSE
