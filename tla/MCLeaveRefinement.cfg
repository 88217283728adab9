SPECIFICATION Spec
CONSTANTS
    emp = emp
    mgr = mgr
    cl = cl
    lop = lop
    y1 = y1
    Employees <- MCEmployees
    Managers <- MCManagers
    LeaveTypes <- MCTypes
    LopTypes <- MCLop
    Years <- MCYears
    ReqIds = {r1, r2}
    Calls = {c1, c2, c3}
    Durations <- MCDurations
    Assignments <- MCAssignments
    Keep = Keep
    NoOne = NoOne
    Amounts <- MCAmounts
    Widths = {1}
    MaxAborts = 0
SYMMETRY Symm
PROPERTIES
    ImplementsLedger
