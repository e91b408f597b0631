\* Two runs over the filings of one company with two instruments.
CONSTANTS
    Instruments <- MCInstruments
    About <- MCAbout
    MinDate = 3
    MaxRuns = 2
SPECIFICATION Spec
CHECK_DEADLOCK FALSE
INVARIANTS
    TypeOK
    NothingMissed
    NothingInvented
