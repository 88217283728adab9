SPECIFICATION Spec
CONSTANTS
    emp = emp
    mgr = mgr
    cl = cl
    lop = lop
    y1 = y1
    Employees <- MCEmployees
    Managers <- MCManagers
    LeaveTypes <- MCTypes
    LopTypes <- MCNoLop
    Years <- MCYears
    ReqIds = {r1}
    Calls = {c1, c2, c3, c4}
    Durations <- MCDurations
    Assignments <- MCAssignments
    Keep = Keep
    NoOne = NoOne
    Widths <- MCTwo
    MaxAborts = 0
SYMMETRY Symm
INVARIANT
    PendingMin
