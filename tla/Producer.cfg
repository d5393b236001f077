SPECIFICATION FairSpec
CONSTANTS
    Partitions = {0, 1}
    Plans <- SomePlans
    MaxAttempts = 2
    MaxSeq = 2147483647
INVARIANTS
    OnceInOrder
    LostOnlyForNoId
    WritesAreClaimed
    HealthyIsExact
    BooksInv
PROPERTIES
    CommitIsWhole
    CallsReturn
CHECK_DEADLOCK FALSE
