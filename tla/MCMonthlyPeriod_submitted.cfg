CONSTANTS
    None = None
    employee = employee
    hr = hr
    c1 = c1
    c2 = c2
    c3 = c3
    Months = {1}
    Dates = {1}
    MonthOf <- OneDate
    Corrections = {c1}
    Early = {c1}
    Minutes = {0, 1}
    Employee = employee
    Reviewers = {hr}
    MaxVersion = 4
    Reviewed = {1}
SPECIFICATION Spec
CHECK_DEADLOCK FALSE
PROPERTIES
    SubmittedMonthsAreFrozen
