SPECIFICATION Spec
CONSTANTS
    s1 = s1
    here = here
    there = there
    NoStation = NoStation
    Sess <- OneSession
    Stations <- TwoStations
    Refusals <- AnyRefusal
    ShortWrites = TRUE
    MaxTemp = 3
CHECK_DEADLOCK FALSE
INVARIANTS
    TypeOK
    Watched
    ResurrectedIsDoomed
    RightStation
    CounterAtRest
PROPERTIES
    ImplementsPool
