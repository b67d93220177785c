\* One process at a time, which dies at any point and is restarted.
SPECIFICATION Spec
CONSTANTS
    None = None
    Torn = Torn
    Empty = Empty
    Process = {p1}
    Task = {t1, t2}
    Body = {b1, b2}
    Shared = FALSE
    MaxSent = 3
INVARIANTS
    AcceptedIsKept
    PendingOnce
