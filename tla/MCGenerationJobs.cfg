SPECIFICATION FairSpec
CONSTANTS
    Jobs = {j1, j2}
    Starts = {s1, s2}
    Cancels = {k1}
    Total = 2
    BatchSize = 1
    MaxTopups = 1
    MaxEmpty = 2
    StaleBatches = 2
    Regimes <- MCRegimes
    MaxErrors = 1
    MaxRestarts = 1
INVARIANTS
    TypeOK
    JobsAccounted
PROPERTIES
    NothingTakenBack
    JobsClose
