CONSTANTS
    None = None
    p1 = p1
    p2 = p2
    y1 = y1
    y2 = y2
    Notifications = {"n1"}
    Exports = {y1, y2}
    Purgers = {p1, p2}
    Lifetime = 1
    Retention = 1
    MaxTime = 3
SPECIFICATION Spec
CHECK_DEADLOCK FALSE
SYMMETRY HousekeepingSymmetry
INVARIANTS
    StatusTellsDelivery
    DownloadsHaveFiles
    FilesGoWithRows
