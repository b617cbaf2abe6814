SPECIFICATION FairSpec
CONSTANTS
    NoTable = "none"
    Tables <- ThreeTables
    Fields <- ThreeFields
    Refused = {}
    Empty = {}
    Verdicts = {"success", "fail", "none"}
    Splits = {"request", "answer"}
    Overlap = FALSE
    MaxLosses = 2
    MaxLoads = 1
    MaxConns = 4
CHECK_DEADLOCK FALSE
PROPERTIES
    LossCostsOneTable
    LoadEnds
    FinishedIsSwept
