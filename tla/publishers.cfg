SPECIFICATION Spec
CONSTANTS
    m1 = m1  m2 = m2
    Messages = {m1, m2}
    MaxChannels = 3
    MaxUnread = 2
    None = None
INVARIANT RelayNilMeansStored
PROPERTY NilMeansStoredOnFreshChannel
SYMMETRY MessageSymmetry
