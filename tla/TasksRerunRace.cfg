SPECIFICATION Spec
CONSTANTS
    t1 = t1
    t2 = t2
    r1 = r1
    r2 = r2
    r3 = r3
    w1 = w1
    w2 = w2
    default = default
    llm = llm
    NoKey = NoKey
    NoTask = NoTask
    NoMsg = NoMsg
    NoJob = NoJob
    Tasks = {t1}
    Priority <- ByTask
    MaxPriority = 2
    MaxSum = 2
    Keys = {"k1"}
    Requests = {r1, r2}
    Ops = {"create", "recompute"}
    Queues = {default}
    QueueOf <- OneQueue
    Threads = {w1, w2}
    PoolOf <- OnePool
    MaxRetries = 1
    Faults = {}
    MaxFaults = 0
INVARIANTS
    NoDoubleExecution
