SPECIFICATION Spec
CONSTANTS
    Calls = {c1, c2}
    People = {e1}
    Concepts = {k1, k2}
    Users = {u1, u2}
    Depts = {d1, d2, d3}
    Tabs = {t1, t2}
    Fetches = {r1, r2, r3}
SYMMETRY Symm
\* Each part stops when its bounds are reached.
CHECK_DEADLOCK FALSE
INVARIANTS
    TypeOK
    ReviewStands
    AttemptsAccounted
    
    DayAccounted
    PayAccounted
    FollowsCounted
    
    
    ClientStaysIn
    PaperHandedIn
    QuestionsSound
    YearAccounted

    
