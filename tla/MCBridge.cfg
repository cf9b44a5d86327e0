SPECIFICATION BridgeSpec
CONSTANTS
    cl1 = cl1  cl2 = cl2  NoClient = NoClient
    k1 = k1  NoCall = NoCall
    p1 = p1  p2 = p2
    m1 = m1  m2 = m2  c1 = c1  list1 = list1  Me = Me
    w1 = w1
    Clients = {cl1, cl2}
    Calls = {k1}
    Callers = {p1, p2}
    MaxTimers = 2
    MaxErrors = 2
    MaxCycles = 2
    Messages = {m1, m2}
    Contacts = {c1}
    Shared = {list1}
    MaxReceipts = 2
    Workers = {w1}
    MaxEvents = 4
    QueueSize = 2
    MaxRetries = 1
INVARIANTS TypeOK ReconnectIsOwed EndedOnce ReasonFits NoResyncStorm ThreadIsContacts
    ReplyReleases NothingHalf EngineFollows RunningHasWorker
PROPERTIES StatusFollows EndIsTold StuckIsFlagged EventsSettle
CHECK_DEADLOCK FALSE
