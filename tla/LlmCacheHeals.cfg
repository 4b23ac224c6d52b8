SPECIFICATION FairSpec
CONSTANTS
    q1 = q1
    q2 = q2
    h1 = h1
    h2 = h2
    h3 = h3
    p1 = p1
    p2 = p2
    NoQuestion = NoQuestion
    NoAnswer = NoAnswer
    Questions = {q1, q2}
    Answers = {"yes", "no"}
    Threads = {h1, h3}
    Processes = {p1, p2}
    ProcOf <- TwoProcesses
    Expiring = TRUE
    MaxFaults = 3
PROPERTIES
    AnswerNotLost
    CacheHeals
    EntryStopsMoving
