\* Two tasks that depend on each other, are attached to each other, spend their budgets and have effects.
SPECIFICATION Spec
CONSTANTS
    t1 = t1
    t2 = t2
    t3 = t3
    h1 = h1
    h2 = h2
    None = None
    Task = {t1, t2}
    Holder = {}
    Key = {key}
    Effect = {"push"}
    Digest = {"intent"}
    Meter = {"tokens"}
    EvidenceState = {}
    MAX_RETRIES = 0
    MAX_CHILDREN = 1
    Budgets <- SomeLimits
    Amounts <- OneUnitPerMeter
    Ttl = {1}
    Reported = {}
    MaxClock = 0
    MaxCursor = 0
    MaxUsage = 2
SYMMETRY TaskSymmetry
INVARIANTS
    ReadyProgress
    OverspendRecorded
PROPERTIES
    EffectsNeverRegress
CHECK_DEADLOCK FALSE
