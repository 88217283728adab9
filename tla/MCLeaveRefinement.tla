-------------------------- MODULE MCLeaveRefinement --------------------------
(* A small instance of LeaveRefinement, one handler after the other        *)
EXTENDS LeaveRefinement, TLC

CONSTANTS emp, mgr, cl, lop, y1

MCEmployees == {emp}
MCManagers  == {mgr}
MCTypes     == {cl, lop}
MCLop       == {lop}
MCYears     == {y1}
MCDurations == {2}
MCAmounts   == {0, 1, 2, 4, 5}

MCAssignments ==
    {[allocated |-> 4, carried |-> Keep, used |-> Keep],
     [allocated |-> 1, carried |-> 1, used |-> 0]}

Symm == Permutations(Calls) \cup Permutations(ReqIds)
=============================================================================
