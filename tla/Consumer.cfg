SPECIFICATION FairSpec
CONSTANTS
    Nodes = {1, 2}
    Tasks = {1, 2}
    BlockingIdleMax = 1
    MaxAttempts = 2
    None = None
    Scenarios <- Few
    Absent = Absent
    Committed = {1}
INVARIANTS
    PoolIsSound
    ReadsAreExact
PROPERTIES
    CatchesUp
