SPECIFICATION Spec
CONSTANTS
    m1 = m1  m2 = m2
    Messages = {m1, m2}
    MaxChannels = 2
    MaxUnread = 2
    None = None
INVARIANT NilMeansStored
