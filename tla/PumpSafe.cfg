SPECIFICATION Spec
CONSTANTS
    MaxOffset = 3
    MaxTrim = 2
    MaxSubs = 2
    Positions <- AllPositions
    Filters <- BothFilters
    QueueCapacity = 1
    RingCapacity = 1
    MaxErrors = 0
    BatchMax = 2
    IdleShutdown = TRUE
    Readers = {0}
CONSTRAINT SecondIfSimple
INVARIANTS
    TypeOK
    Gapless
PROPERTIES
    ImplementsFeed
    ErrorIsLast
    TurnsAreFair
CHECK_DEADLOCK FALSE
