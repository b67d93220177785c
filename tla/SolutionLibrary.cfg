CONSTANTS
    Results = {r1, r2}
    Targets = {t1}
    Grants = {g1}
    None = None
    MaxRecordVersion = 6
    Authors = {a1, a2}
    Texts = {x1, x2}
    MaxRevision = 2
SPECIFICATION Spec
INVARIANTS
    VerifiedStands
SYMMETRY Symmetry
