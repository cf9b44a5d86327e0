SPECIFICATION FairSpec
CONSTANTS
    c1 = c1  c2 = c2
    wa = wa  i1 = i1  mia = mia  bob = bob
    NoId = NoId  NoCall = NoCall
    Calls = {c1, c2}
    Instances = {i1}
    Contacts = {mia}
    OnWhatsApp = {mia}
    Variants = {}
    WaIds = {}
    MaxRetries = 1
    StoreMayFail = FALSE
    LookupMayFail = TRUE
PROPERTIES CallsReturn
CHECK_DEADLOCK FALSE
