\* The claim that the reject list keeps removed actions out of every merge.
CONSTANTS
    Apple = Apple
    Microsoft = Microsoft
    MaxRuns = 3
    Isin <- MCIsin
    KnownIsin <- MCIsin
    RemoveIds <- MCRemoveIds
    AddEntries <- MCAddEntries
    Registries <- MCRegistries
    HandEntries <- MCHandEntries
    Feeds <- MCFeeds
SPECIFICATION Spec
PROPERTY RemovedNeverReturns
