\* A pass that holds a rescaled dividend leaves the old record; see MCYahooFetch.tla.
CONSTANTS
    A = A
    B = B
    Isin <- MCIsin
    KnownIsin <- MCIsin
    Lists <- MCLists
    Windows <- MCWindows
    Payouts <- MCPayouts
    Ratios <- MCRatios
    MinDate = 7
    MaxRetries = 3
    MaxDenominator = 100
    Missing = Missing
    Torn = Torn
    Gap = 6
    LastDay = 18
    MaxPasses = 2
SPECIFICATION Spec
CHECK_DEADLOCK FALSE
INVARIANT
    AmountsSplitAdjusted
