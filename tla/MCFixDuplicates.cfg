\* Three runs of the script among merges; see MCFixDuplicates.tla.
CONSTANTS
    Apple = Apple
    Microsoft = Microsoft
    MaxRuns = 3
    Isin <- MCIsin
    KnownIsin <- MCIsin
    RemoveIds <- MCRemoveIds
    AddEntries <- MCAddEntries
    Registries <- MCRegistries
    HandEntries <- MCHandEntries
    Feeds <- MCFeeds
SPECIFICATION Spec
INVARIANTS
    TypeOK
    RemovalsBarred
    IdsStayUnique
