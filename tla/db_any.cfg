SPECIFICATION Spec
CONSTANTS
    NoTable = "none"
    Tables <- FourTables
    Fields <- FourFields
    Refused = {"directions"}
    Empty = {"phrases"}
    Verdicts = {"success", "fail", "none", "crash"}
    Splits = {"request", "answer"}
    Overlap = FALSE
    MaxLosses = 1
    MaxLoads = 2
    MaxConns = 8
CHECK_DEADLOCK FALSE
INVARIANTS
    TypeOK
    RowsOfTable
    SingleFile
PROPERTIES
    
    ImplementsLoader
