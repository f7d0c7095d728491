CONSTANTS
    r1 = r1
    r2 = r2
    r3 = r3
    k1 = k1
    k2 = k2
    k3 = k3
    None = None
    Requests = {r1, r2, r3}
    Keys = {k1, k2, k3}
    Sent <- DayIntents
    MaxAttempts = 1
    TicksPerMinute = 2
    MaxClock = 2
SPECIFICATION Spec
SYMMETRY RequestSymmetry
INVARIANTS
    HeadMirrorsEvents
    AnswersAreStored
PROPERTIES
    HistoryIsImmutable
    ImplementsLog
