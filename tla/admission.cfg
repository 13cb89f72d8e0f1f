SPECIFICATION AdmissionSpec
CONSTANTS
    k1 = k1  k2 = k2  k3 = k3  row1 = row1  row2 = row2  c1 = c1  c2 = c2
    None = None
    Keys = {k1, k2, k3}
    Callers = {c1, c2}
    Rows = {row1, row2}
    Width = 2
    Index <- MCIndex
    Sample = 2
    MinFrequency = 2
    WindowSize = 1
    Tags = {}
    Shards = {s1}
    ShardOf <- MCShardOf
    Capacity = 2
    MaxBytes = 2
    Sizes = {1, 2}
    Lifetimes = {}
    Never = Never
    MaxSets = 6
    MaxTime = 0
    Size <- MCSize
    MaxRequests = 6
INVARIANTS NeverUnderestimates SketchBounded
PROPERTY NewcomersWait
SYMMETRY Symmetry
CHECK_DEADLOCK FALSE
