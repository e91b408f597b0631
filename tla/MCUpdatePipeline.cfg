\* Two runs of the script; see MCUpdatePipeline.tla.
CONSTANTS
    Stock = Stock
    Absent = Absent
    MaxRuns = 2
    MinActions = 1
    Barred = {}
    Isin <- MCIsin
    KnownIsin <- MCIsin
    Feeds <- MCFeeds
    Edits <- MCEdits
    Options <- MCOptions
SPECIFICATION Spec
INVARIANTS
    TypeOK
    NothingUnvalidated
    SuccessMeansCurrent
    StateFollowsWebhook
PROPERTIES
    DryRunKeepsRepository
    RewriteRepairs
    RunEnds
