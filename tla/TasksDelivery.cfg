SPECIFICATION Spec
CONSTANTS
    t1 = t1
    t2 = t2
    r1 = r1
    r2 = r2
    r3 = r3
    w1 = w1
    w2 = w2
    default = default
    llm = llm
    NoKey = NoKey
    NoTask = NoTask
    NoMsg = NoMsg
    NoJob = NoJob
    Tasks = {t1, t2}
    Priority <- Equal
    MaxPriority = 2
    MaxSum = 1
    Keys = {"k1"}
    Requests = {r1, r2, r3}
    Ops = {"create", "cancel"}
    Queues = {default}
    QueueOf <- OneQueue
    Threads = {w1, w2}
    PoolOf <- OnePool
    MaxRetries = 0
    Faults = {"worker_crash"}
    MaxFaults = 1
SYMMETRY Symmetry
INVARIANTS
    OneTaskPerKey
    NoDoubleExecution
    RevokeReachesMessage
