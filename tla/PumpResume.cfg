SPECIFICATION Spec
CONSTANTS
    MaxOffset = 3
    MaxTrim = 3
    MaxSubs = 1
    Positions <- AllPositions
    Filters <- OneFilter
    QueueCapacity = 1
    RingCapacity = 1
    MaxErrors = 1
    BatchMax = 2
    IdleShutdown = TRUE
    Readers = {0}
INVARIANTS
    ResumeLosesNothing
CHECK_DEADLOCK FALSE
