\* Logs of different, repeated and changed events; crashes and Retry-After answers.
SPECIFICATION IngestFairSpec
\* A half-written state ends the inbox: the system then really stops.
CHECK_DEADLOCK FALSE
CONSTANTS
    e1 = e1
    e2 = e2
    e3 = e3
    p1 = p1
    p2 = p2
    Null = Null
    EventId = {e1, e2, e3}
    Payload = {p1, p2}
    Logs <- SomeLogs
    BatchSize = 2
    MaxClock = 2
    MaxCrashes = 2
    MaxThrottles = 1
INVARIANTS
    SeenHasTask
PROPERTIES
    EveryEventArrives
