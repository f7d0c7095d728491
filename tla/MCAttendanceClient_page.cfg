CONSTANTS
    k1 = k1
    k2 = k2
    k3 = k3
    t1 = t1
    None = None
    Tabs = {t1}
    Keys = {k1, k2, k3}
    RetryLimit = 1
    MaxAnswers = 2
    Sent <- OtherDevice
SPECIFICATION LiveSystem
INVARIANTS
    ToldTheTruth
    OnlyStaleIntentsRefused
PROPERTIES
    ViewsNeverGoBack
    EveryIntentSettles
    OnlineTabsConverge
