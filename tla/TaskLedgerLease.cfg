\* One task, two workers that crash, let leases expire and take over.
SPECIFICATION Spec
CONSTANTS
    t1 = t1
    t2 = t2
    t3 = t3
    h1 = h1
    h2 = h2
    None = None
    Task = {t1}
    Holder = {h1, h2}
    Key = {key}
    Effect = {}
    Digest = {}
    Meter = {"tokens"}
    EvidenceState = {"PASS"}
    MAX_RETRIES = 1
    MAX_CHILDREN = 0
    Budgets <- NoLimits
    Amounts <- OneUnitPerMeter
    Ttl = {1, 2}
    Reported = {"RETRYABLE"}
    MaxClock = 3
    MaxCursor = 1
    MaxUsage = 1
SYMMETRY HolderSymmetry
INVARIANTS
    TypeOK
    LeaseMutualExclusion
    BeliefIsTrue
    HeartbeatWithinLease
PROPERTIES
    OrphanedTaskIsFrozen
    TakeoverRaisesFence
