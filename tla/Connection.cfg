SPECIFICATION FairSpec
CONSTANT
    MaxRequests = 3
INVARIANTS
    ConnInv
    NoEntryLeftBehind
    OwnAnswer
    TornIsFailed
    FailsForCause
PROPERTIES
    RequestsReturn
CHECK_DEADLOCK FALSE
