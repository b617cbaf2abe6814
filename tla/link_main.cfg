SPECIFICATION FairSpec
CONSTANTS
    q1 = q1
    q2 = q2
    NoRequest = NoRequest
    Requests <- TwoRequests
    ShortWrites = TRUE
    MaxTemp = 3
    MaxFaults = 1
CHECK_DEADLOCK FALSE
INVARIANTS
    TypeOK
    OneChain
    CounterAtRest
    AnsweredOnceWhereAsked
PROPERTIES
    Reconnects
    RequestServed
