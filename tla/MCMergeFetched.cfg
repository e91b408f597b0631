\* Two merge runs over one instrument; see MCMergeFetched.tla.
CONSTANTS
    Stock = Stock
    BadFile = BadFile
    MaxRuns = 2
    Isin <- MCIsin
    KnownIsin <- MCIsin
    Event <- MCEvent
    Feeds <- MCFeeds
    Registries <- MCRegistries
SPECIFICATION Spec
INVARIANTS
    TypeOK
    RegistrySemanticallyUnique
    RegistryIdsUnique
    RejectionJustified
PROPERTIES
    RemovedStaysOut
    PromiseKept
    GrowsByWholeMerges
