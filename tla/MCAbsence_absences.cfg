CONSTANTS
    None = None
    v1 = v1
    s1 = s1
    k1 = k1
    k2 = k2
    LastDate = 3
    Months = {1, 2}
    MonthOf <- TwoMonths
    Vacations = {v1}
    Sicknesses = {s1}
    Cancellations = {k1, k2}
    Coverages <- Ranges
    Selections <- Singles
    Minutes = {4, 8}
    Changes = {3}
    Allocation = 8
    Authorities = {"CURRENT_MANAGER", "ORGANIZATION_HR"}
SPECIFICATION Spec
CHECK_DEADLOCK FALSE
SYMMETRY CancellationSymmetry
INVARIANTS
    NoDoubleCoverage
    OpenCancellationsAreApplicable
    LockedMonthsReconcile
    DeductionsMatchEffects
    DecidedHoldNothing
PROPERTIES
    SubmittedEffectsStand
