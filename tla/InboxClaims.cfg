\* Two workers that claim with or without a look, give leases up, let them expire and die.
SPECIFICATION ClaimSpec
CONSTANTS
    h1 = h1
    h2 = h2
    None = None
    Task = {t1}
    Holder = {h1, h2}
    Key = {key}
    Effect = {1, 2}
    Digest = {d1, d2}
    Meter = {}
    EvidenceState = {}
    MAX_RETRIES = 0
    MAX_CHILDREN = 0
    Budgets <- NoLimits
    Amounts <- NoAmounts
    Ttl = {1}
    Reported = {}
    MaxCursor = 0
    MaxUsage = 0
    MaxClock = 3
    MaxRuns = 2
SYMMETRY HolderSymmetry
INVARIANTS
    IntentBeforeExecutor
    ResumeIsSafe
    EffectPerRun
