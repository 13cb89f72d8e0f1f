SPECIFICATION Spec
CONSTANTS
    r1 = r1  r2 = r2
    Requests = {r1, r2}
    Flight = Flight
    None = None
    MaxUpdates = 1
INVARIANTS TypeOK CacheCurrent PrivateStaysPrivate FreshAfterPurge NobodyWaitsInVain
SYMMETRY RequestSymmetry
