SPECIFICATION FairSpec
CONSTANTS
    Clients = {1, 2}
    Subscribed <- TwoMembers
    Partitions <- PartitionCounts
    MaxAttempts = 2
    Troubles <- Pairs
    MaxCommits = 1
INVARIANTS
    GenerationIsPartitioned
    CommitsAreOwned
PROPERTY
    GroupSettles
