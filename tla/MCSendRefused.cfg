SPECIFICATION Spec
CONSTANTS
    c1 = c1  c2 = c2
    wa = wa  i1 = i1  mia = mia  bob = bob
    NoId = NoId  NoCall = NoCall
    Calls = {c1, c2}
    Instances = {i1}
    Contacts = {mia, bob}
    OnWhatsApp = {mia}
    Variants = {mia}
    WaIds = {wa}
    MaxRetries = 1
    StoreMayFail = TRUE
    LookupMayFail = FALSE
SYMMETRY Symmetry
CHECK_DEADLOCK FALSE
INVARIANT RefusedNeverLeft
