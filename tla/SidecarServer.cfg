\* Three pids and three calls of acquire: enough for two recoveries of one stale lock and a third process between them.
CONSTANTS
    Pids = {p1, p2, p3}
    Ports = {n1, n2}
    MaxTokens = 3
SPECIFICATION ServerSpec
INVARIANTS
    Exclusion
    LoneCallSucceeds
    EndpointNamesServer
SYMMETRY Symmetry
CHECK_DEADLOCK FALSE
