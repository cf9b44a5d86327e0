SPECIFICATION FairSpec
CONSTANTS
    m1 = m1  m2 = m2
    i1 = i1
    w1 = w1  w2 = w2
    NoMsg = NoMsg  NoWorker = NoWorker
    Msgs = {m1, m2}
    Instances = {i1}
    InstOf <- OneInstance
    Workers = {w1}
    QueueCap = 2
    RecoveryLimit = 2
    Durable = FALSE
    MaxRestarts = 1
CHECK_DEADLOCK FALSE
PROPERTY QueuedIsServed
