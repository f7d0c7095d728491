CONSTANTS
    s1 = s1
    s2 = s2
    ann = ann
    bob = bob
    home = home
    moved = moved
    public = public
    None = None
    Startup = Startup
    Suggestions = {s1, s2}
    Accounts = {ann, bob}
    Addresses = {home, moved, public}
    Private = {home, moved}
    Lookups <- Answers
    CheckCalls = 3
    GenerationCalls = 2
    ConcurrencyLimit = 1
    RateMaximum = 2
    RateWindow = 2
    LastTime = 2
    MaxRefused = 1
SPECIFICATION LiveSpec
INVARIANTS
    ConnectionsAreAllowed
    OneSuggestionPerAccount
    StartsWithinWindow
PROPERTIES
    EverySuggestionEnds
