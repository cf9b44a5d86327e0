SPECIFICATION Spec
CONSTANTS
    r1 = r1  r2 = r2
    c1 = c1  c2 = c2
    NoClient = NoClient  NoCaller = NoCaller
    Clients = {c1, c2}
    Callers = {r1, r2}
INVARIANTS TypeOK RestoreIsExclusive
PROPERTIES PairingSurvives
SYMMETRY Symmetry
CHECK_DEADLOCK FALSE
