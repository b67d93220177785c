CONSTANTS
    Results = {r1, r2}
    Targets = {t1}
    Grants = {g1}
    None = None
    Callers = {c1, c2}
    MaxVersion = 5
SPECIFICATION RecordSpec
INVARIANTS
    NothingLost
    SuccessIsEarned
PROPERTIES
    ClosedIsFrozen
    ImplementsPromise
SYMMETRY Symmetry
