SPECIFICATION Spec
CONSTANTS
    Calls = {c1, c2}
    MaxFailed = 2
    MaxTries = 2
    MaxMisses = 4
    Regimes <- MCRegimes
SYMMETRY Symm
\* A user may be locked out for good.
CHECK_DEADLOCK FALSE
INVARIANTS
    TypeOK
    SessionsInOrder
    CodesInOrder
    LocksInOrder
PROPERTIES
    SuspensionHolds
