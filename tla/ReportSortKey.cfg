SPECIFICATION ReportSpec
CONSTANTS
    NStrategies = 2
    kGameCount = 3
    Uint32 = 3
    Word = Word
    GameResults <- MCGameResults
    Arguments <- MCArguments
    OtherFiles <- MCOtherFiles
    Numbers <- MCNumbers
    CellWidth <- MCCellWidth
    HeaderWidth <- MCHeaderWidth
INVARIANT SortedByS1
CHECK_DEADLOCK FALSE
