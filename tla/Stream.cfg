SPECIFICATION FairSpec
CONSTANTS
    Partitions = {0, 1}
    Late = {1}
    Transports = {"sse", "ws"}
    Froms = {"earliest", "latest"}
    Capacity = 1
    MaxOffset = 2
    MaxStreams = 3
INVARIANTS
    ResumesExactly
PROPERTY
    NothingLingers
CHECK_DEADLOCK FALSE
