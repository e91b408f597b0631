\* Two passes around three market events; see MCYahooFetch.tla.
CONSTANTS
    A = A
    B = B
    Isin <- MCIsin
    KnownIsin <- MCIsin
    Lists <- MCLists
    Windows <- MCWindows
    Payouts <- MCPayouts
    Ratios <- MCRatios
    MinDate = 7
    MaxRetries = 3
    MaxDenominator = 100
    Missing = Missing
    Torn = Torn
    Gap = 6
    LastDay = 18
    MaxPasses = 2
SPECIFICATION Spec
CHECK_DEADLOCK FALSE
INVARIANTS
    RecordsWellFormed
    NothingMissed
    NothingInvented
    OnlySplitsBringBack
PROPERTIES
    PassEnds
