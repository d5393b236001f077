SPECIFICATION GrowingFairSpec
CONSTANTS
    Topics = {"a", "b"}
    Partitions = {0, 1}
    Gate = {"a"}
    MaxPumps = 2
    Callers = {c1, c2}
    NoCaller = NoCaller
    MaxSpawn = 3
ACTION_CONSTRAINT Paced
INVARIANTS
    NoOrphanPump
    TopicIsWhole
PROPERTIES
    StopsOnlyItsOwn
    CallsReturn
