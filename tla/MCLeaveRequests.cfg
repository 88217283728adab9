SPECIFICATION Spec
CONSTANTS
    emp = emp
    mgr = mgr
    cl = cl
    lop = lop
    y1 = y1
    Employees <- MCEmployees
    Managers <- MCManagers
    LeaveTypes <- MCPaidUnpaid
    LopTypes <- MCLop
    Years <- MCYears
    ReqIds = {r1, r2}
    Calls = {c1, c2, c3, c4}
    Durations <- MCHalfDays
    Assignments <- MCAssignments
    Keep = Keep
    NoOne = NoOne
    Widths <- MCWidths
    MaxAborts = 1
SYMMETRY Symm
INVARIANTS
    TypeOK
    ApprovedWasConsumed
    ClosedWasReleased
    CreatedWasHeld
    InFlight
    SettledOnce
    ApprovalChain
PROPERTIES
    NeverBackToManager
    OrderlySteps
