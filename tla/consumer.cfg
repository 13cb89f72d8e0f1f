SPECIFICATION FairSpec
CONSTANTS
    t1 = t1  t2 = t2  a = a  b = b  c = c
    Tags = {t1, t2}
    Keys = {}
    EventIds = {a, b, c}
    Inbox <- MCInbox
    MaxProcessed = 1
    CompactEvery = 2
    DiskFills = TRUE
    Torn = Torn
    None = None
    MaxSends = 3
    MaxFaults = 2
INVARIANTS TypeOK QueuedPurgeArrives LogKeepsUnapplied RecordedMeansHandled
PROPERTIES VersionsSurvive QueueDrains
CHECK_DEADLOCK FALSE
