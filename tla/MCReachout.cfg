SPECIFICATION Spec
CONSTANTS
    p1 = p1  p2 = p2  p3 = p3
    i1 = i1  i2 = i2
    gen1 = gen1  gen2 = gen2  gen3 = gen3
    NoMap = NoMap  NoInstance = NoInstance
    Callers = {p1, p2, p3}
    Instances = {i1, i2}
    Maps = {gen1, gen2, gen3}
INVARIANTS TypeOK
PROPERTIES RecordedIsFound HolderIsExact
SYMMETRY Symmetry
CHECK_DEADLOCK FALSE
