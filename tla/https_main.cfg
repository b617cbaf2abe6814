SPECIFICATION FairSpec
CONSTANTS
    c1 = c1
    c2 = c2
    w1 = w1
    w2 = w2
    NoConn = NoConn
    Conns <- TwoConns
    Sess <- TwoWorkers
    ReconnectMax = 1
CHECK_DEADLOCK FALSE
INVARIANTS
    TypeOK
    OwnedCallback
    AnsweredOnce
    UndefinedHasCause
PROPERTIES
    ConnectionLetGo
