SPECIFICATION Spec
CONSTANTS
    Calls = {c1, c2, c3}
    Standing = {}
    Emails = {m1, m2}
    Handlers = {"onboard", "archive"}
    Widths = {1}
    MaxAborts = 0
SYMMETRY Symm
\* Every request has been answered: nothing is left to do.
CHECK_DEADLOCK FALSE
INVARIANT
    FailureLeavesLogins
