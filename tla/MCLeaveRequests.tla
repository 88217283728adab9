--------------------------- MODULE MCLeaveRequests ---------------------------
(* Small instances of LeaveRequests: one employee with a manager, a paid     *)
(* leave type and unpaid leave, one year.                                    *)
EXTENDS LeaveRequests, TLC

CONSTANTS emp, mgr, cl, lop, y1

MCEmployees  == {emp}
MCManagers   == {mgr}
MCTypes      == {cl}
MCPaidUnpaid == {cl, lop}
MCLop        == {lop}
MCNoLop      == {}
MCYears      == {y1}
MCDurations  == {2}
MCHalfDays   == {1, 2}

\* HR grants two half days, and leaves the rest of the balance alone.
MCAssignments == {[allocated |-> 2, carried |-> Keep, used |-> Keep]}

\* Handlers one after the other, and two that overlap.
MCWidths == {1, 2}
MCTwo == {2}

Symm == Permutations(Calls) \cup Permutations(ReqIds)
=============================================================================
