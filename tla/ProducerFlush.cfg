SPECIFICATION Spec
CONSTANTS
    Partitions = {0, 1}
    Plans <- SomePlans
    MaxAttempts = 2
    MaxSeq = 2147483647
INVARIANT NothingLost
CHECK_DEADLOCK FALSE
