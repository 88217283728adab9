SPECIFICATION Spec
CONSTANTS
    Applications = {a1, a2}
    Emails = {m1}
    Calls = {c1, c2}
    Regimes <- MCRegimes
    Nobody = Nobody
    Earlier = Earlier
SYMMETRY Symm
\* Every candidate may be out of the process.
CHECK_DEADLOCK FALSE
INVARIANTS
    TypeOK
    HiresAccounted
    OffersInOrder

    
