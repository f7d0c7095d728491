CONSTANTS
    r1 = r1
    r2 = r2
    r3 = r3
    k1 = k1
    k2 = k2
    k3 = k3
    None = None
    Requests = {r1, r2, r3}
    Keys = {k1, k2}
    Sent <- LiveIntents
    MaxAttempts = 2
    TicksPerMinute = 1
    MaxClock = 0
SPECIFICATION LiveSpec
INVARIANTS
    EventsCreatedOnce
PROPERTIES
    EveryRequestEnds
