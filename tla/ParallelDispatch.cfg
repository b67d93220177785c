CONSTANTS
    Batch = {b1, b2}
    Streams = {s1}
    NameLists <- OneToThree
    Answers = {"OK", "FAILED", "NOT_LAUNCHABLE"}
    MaxWorkers = 2
    MaxThreads = 4
    None = None
SPECIFICATION Spec
INVARIANTS
    OneStory
    StreamExtendsBatch
    FailFastBound
    NoRespawn
PROPERTIES
    VerdictStays
    EveryFanoutReturns
CHECK_DEADLOCK FALSE
