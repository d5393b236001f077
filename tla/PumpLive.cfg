SPECIFICATION StartedFairSpec
CONSTANTS
    MaxOffset = 2
    MaxTrim = 0
    MaxSubs = 2
    Positions <- EitherEnd
    Filters <- OneFilter
    QueueCapacity = 1
    RingCapacity = 1
    MaxErrors = 1
    BatchMax = 2
    IdleShutdown = TRUE
    Readers = {0}
CONSTRAINT NoShutdown
INVARIANTS
    PumpInv
PROPERTIES
    ReadersAreServed
    ErrorsArrive
    GoneAreForgotten
CHECK_DEADLOCK FALSE
