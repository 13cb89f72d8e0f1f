SPECIFICATION FairSpec
CONSTANTS
    w = w
    None = None
    Books = {1, 2}
    Genres = {1}
    Authors = {}
    AuthorsOf <- MCAuthorsOf
    Words = {w}
    PageSize = 1
    MaxPage = 2
    MaxResponseTags = 3
    Fetchers = {f1}
    CachedPages <- MCPages
    Demands <- MCDemands
    Puts <- MCPuts
    FirstData <- MCFirstData
    MaxRows = 3
INVARIANTS StaleMeansPending EveryPurgeHonoured
PROPERTIES ChangesAnnounced StaleLeaves
