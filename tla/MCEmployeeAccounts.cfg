SPECIFICATION Spec
CONSTANTS
    Calls = {c1, c2, c3, c4}
    Standing = {u1}
    Emails = {m1, m2}
    Handlers = {"onboard", "update", "status", "resend", "archive"}
    Widths = {1, 2}
    MaxAborts = 1
SYMMETRY Symm
\* Every request has been answered: nothing is left to do.
CHECK_DEADLOCK FALSE
INVARIANTS
    TypeOK
    LoginsOwned
    
