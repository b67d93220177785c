\* Two threads of one session that dies at any point.
SPECIFICATION Spec
CONSTANTS
    t1 = t1
    h1 = h1
    h2 = h2
    None = None
    Torn = Torn
    Task = {t1}
    Holder = {h1, h2}
    Key = {key}
    Effect = {x}
    Digest = {intent}
    Meter = {}
    EvidenceState = {}
    MAX_RETRIES = 0
    MAX_CHILDREN = 0
    Budgets <- NoLimits
    Amounts <- NoAmounts
    Ttl = {1}
    Reported = {}
    Moves = {"PLANNING"}
    MaxCursor = 0
    MaxUsage = 0
    Shared = FALSE
    MaxClock = 2
SYMMETRY HolderSymmetry
INVARIANTS
    OwnTempSurvives
PROPERTIES
    ImplementsStore
