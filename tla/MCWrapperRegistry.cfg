\* Files of up to three records, saved again by up to two wrappers.
CONSTANTS
    Item <- MCItem
    Isin = {0, 1, 2}
    Id = {0, 1, 2, 3}
    Day = {1, 2, 3}
    Raw = 100
    MaxItems = 3
    MaxResaves = 2
SPECIFICATION FileSpec
CHECK_DEADLOCK FALSE
INVARIANTS
    FilesTyped
    SameAnswers
    AnswersSurviveSaves
    BacktestUndoesAdjustment
