CONSTANTS
    None = None
    v1 = v1
    s1 = s1
    k1 = k1
    k2 = k2
    LastDate = 10
    Months = {1}
    MonthOf <- OneMonth
    Vacations = {v1}
    Sicknesses = {}
    Cancellations = {k1}
    Coverages <- TwoWeeks
    Selections <- TwoDays
    Minutes = {8}
    Changes = {}
    Allocation = 80
    Authorities = {"CURRENT_MANAGER", "ORGANIZATION_HR"}
SPECIFICATION Spec
CHECK_DEADLOCK FALSE
INVARIANTS
    CancelledMeansNothingLeft
