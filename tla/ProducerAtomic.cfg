SPECIFICATION TxnSpec
CONSTANTS
    Partitions = {0}
    Plans <- OnePlan
    MaxAttempts = 2
    MaxSeq = 2147483647
INVARIANT CommittedIsThere
CHECK_DEADLOCK FALSE
