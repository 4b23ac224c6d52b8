SPECIFICATION FairSpec
CONSTANTS
    t1 = t1
    t2 = t2
    r1 = r1
    r2 = r2
    r3 = r3
    w1 = w1
    w2 = w2
    default = default
    llm = llm
    NoKey = NoKey
    NoTask = NoTask
    NoMsg = NoMsg
    NoJob = NoJob
    Tasks = {t1, t2}
    Priority <- ByTask
    MaxPriority = 2
    MaxSum = 2
    Keys = {}
    Requests = {r1, r2}
    Ops = {"create"}
    Queues = {default, llm}
    QueueOf <- TwoQueues
    Threads = {w1, w2}
    PoolOf <- TwoPools
    MaxRetries = 1
    Faults = {"worker_crash", "crash_after_retry"}
    MaxFaults = 1
INVARIANTS
    NoOrphan
PROPERTIES
    KeepsContract
    EveryTaskSettles
    CapacityRepaired
