SPECIFICATION Spec
CONSTANTS
    Calls = {c1}
    MaxFailed = 2
    MaxTries = 2
    MaxMisses = 4
    Regimes <- LockRegimes
CHECK_DEADLOCK FALSE
INVARIANTS
    LockWearsOff
