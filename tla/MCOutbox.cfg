SPECIFICATION Spec
CONSTANTS
    m1 = m1  m2 = m2
    i1 = i1
    w1 = w1  w2 = w2
    NoMsg = NoMsg  NoWorker = NoWorker
    Msgs = {m1, m2}
    Instances = {i1}
    InstOf <- OneInstance
    Workers = {w1, w2}
    QueueCap = 2
    RecoveryLimit = 1
    Durable = TRUE
    MaxRestarts = 1
INVARIANTS TypeOK InFlightIsSending SendingHasWorker OnlyRecoveryDuplicates
CHECK_DEADLOCK FALSE
