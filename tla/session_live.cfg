SPECIFICATION FairSpec
CONSTANTS
    s1 = s1
    here = here
    there = there
    NoStation = NoStation
    Sess <- OneSession
    Stations <- TwoStations
    Refusals <- NoRefusal
    ShortWrites = TRUE
    MaxTemp = 2
CHECK_DEADLOCK FALSE
PROPERTIES
    FailedIsSwept
    ClosedIsReleased
    NothingStaysUnread
