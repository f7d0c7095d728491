CONSTANTS
    None = None
    employee = employee
    hr = hr
    c1 = c1
    c2 = c2
    c3 = c3
    Months = {1, 2}
    Dates = {1, 2}
    MonthOf <- TwoMonths
    Corrections = {c1}
    Early = {c1}
    Minutes = {0, 1}
    Employee = employee
    Reviewers = {hr}
    MaxVersion = 4
    Reviewed = {1, 2}
SPECIFICATION Spec
CHECK_DEADLOCK FALSE
INVARIANTS
    LockedMonthsStayReadable
