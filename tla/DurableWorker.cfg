\* One worker that dies and is started again, two tasks, one store call that fails.
SPECIFICATION FairSpec
CONSTANTS
    None = None
    Task = {t1, t2}
    Life = {1, 2}
    Pid = {p1, p2}
    Note <- Notes
    Ttl = 1
    MaxToken = 2
    MAX_RETRIES_PER_FINGERPRINT = 1
    MaxFaults = 1
INVARIANTS
    TypeOK
    HeldWhileDriven
    ReclaimCannotFail
    ResourceIsFreed
PROPERTIES
    SettledStays
    EveryTaskSettles
