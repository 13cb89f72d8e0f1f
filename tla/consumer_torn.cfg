SPECIFICATION FairSpec
CONSTANTS
    t1 = t1  t2 = t2  a = a  b = b  c = c
    Tags = {t1, t2}
    Keys = {}
    EventIds = {a, b, c}
    Inbox <- MCInboxSmall
    MaxProcessed = 1
    CompactEvery = 2
    DiskFills = TRUE
    Torn = Torn
    None = None
    MaxSends = 2
    MaxFaults = 2
PROPERTY ComesUp
CHECK_DEADLOCK FALSE
