CONSTANTS
    None = None
    employee = employee
    hr = hr
    c1 = c1
    c2 = c2
    c3 = c3
    Months = {1, 2}
    Dates = {1, 2}
    MonthOf <- TwoMonths
    Corrections = {c1, c2}
    Early = {c1, c2}
    Minutes = {0, 1}
    Employee = employee
    Reviewers = {hr}
    MaxVersion = 6
    Reviewed = {2}
SPECIFICATION Spec
CHECK_DEADLOCK FALSE
SYMMETRY CorrectionSymmetry
INVARIANTS
    ClosedMonthsResolved
    ApprovedIsAcknowledged
    ProjectionsMatchLedger
    JournalTellsHistory
    AdjustmentChain
    LockedMonthReconciles
PROPERTIES
    LockFixesApproved
    ClosedMonthsAreFrozen
