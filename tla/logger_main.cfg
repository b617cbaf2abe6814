SPECIFICATION Spec
CONSTANTS
    MaxFileSize = 6
    DeltaFileSize = 4
    MaxQueueSize = 2
    Sizes = {1, 2, 3}
    MaxMessages = 7
    MaxFaults = 2
CHECK_DEADLOCK FALSE
INVARIANTS
    TypeOK
    LogInOrder
    FileWithinLimit
