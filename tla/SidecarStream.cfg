\* Two writes, one crash or failing call, a history of two events.
SPECIFICATION FairSpec
CONSTANTS
    None = None
    HISTORY = 2
    Verdict = {live}
    MaxData = 2
    MaxTrouble = 1
    MaxWire = 1
INVARIANTS
    QuietMeansCurrent
PROPERTIES
    StampedWritesArrive
