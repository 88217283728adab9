SPECIFICATION Spec
CONSTANTS
    Applications = {a1}
    Emails = {m1}
    Calls = {c1}
    Regimes <- MCOrderly
    Nobody = Nobody
    Earlier = Earlier
SYMMETRY Symm
\* Every candidate may be out of the process.
CHECK_DEADLOCK FALSE
PROPERTY
    HiredIsFinal
