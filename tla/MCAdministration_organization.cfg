CONSTANTS
    None = None
    e1 = e1
    e2 = e2
    e3 = e3
    t1 = t1
    x1 = x1
    x2 = x2
    Employees = {e1, e2, e3}
    Technicals = {t1}
    Teams = {"team"}
    Transactions = {x1, x2}
    LastDate = 3
    MaxIssued = 2
    InitialRoles <- Founders
    Scenarios <- Questions
SPECIFICATION Spec
CHECK_DEADLOCK FALSE
SYMMETRY TransactionSymmetry
INVARIANTS
    TypeOK
    NoManagementCycles
    InvitationsAreCurrent
    InactiveTeamsAreEmpty
    AdministratorRemains
PROPERTIES
    PastAndPlansStand
