SPECIFICATION Spec
CONSTANTS
    NoTable = "none"
    Tables <- TwoTables
    Fields <- TwoFields
    Refused = {}
    Empty = {}
    Verdicts = {"success", "none"}
    Splits = {"request", "answer"}
    Overlap = TRUE
    MaxLosses = 1
    MaxLoads = 2
    MaxConns = 4
CHECK_DEADLOCK FALSE
INVARIANTS
    OneChainPerLoad
    NoSessionLeftBehind
PROPERTIES
    OneLoadKeepsServing
