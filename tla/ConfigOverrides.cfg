SPECIFICATION FairSpec
CONSTANTS
    topk = topk
    secret = secret
    v0 = v0
    v1 = v1
    bad = bad
    api = api
    worker = worker
    a1 = a1
    a2 = a2
    b1 = b1
    Absent = Absent
    Unset = Unset
    NoThread = NoThread
    NoSettings = NoSettings
    Deployed <- AllDeployed
    Api = api
    ProcOf <- ApiAndWorker
    Values = {v0, v1}
    Keys = {topk, secret}
    Deny = {secret}
    Rows <- OldRows
    Bad = {bad}
    Processes = {api, worker}
    Threads = {a1, a2, b1}
    MaxChanges = 1
    MaxFaults = 1
INVARIANTS
    EnvIsLayered
    ProtectedStay
PROPERTIES
    OverridesReach
    SettingsReach
