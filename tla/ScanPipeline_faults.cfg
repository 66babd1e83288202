CONSTANTS
    f1 = f1
    f2 = f2
    c1 = c1
    c2 = c2
    Scans = {s1, s2}
    Floor = {f1}
    Sandbox = {}
    Policies <- OnePolicy
    FloorWorkers = {w1}
    SandWorkers = {}
    Collectors = {c1}
    Copies = {1, 2}
    Rejected = {}
    Lost = {s2}
    Switchable = {}
    FailAt <- Everywhere
    CrashAt <- Everywhere
    MaxFaults = 1
    MaxDelivery = 1
    NoScan = NoScan
    NoMsg = NoMsg

SPECIFICATION OwedSpec
INVARIANT RunningScanIsOwed
CHECK_DEADLOCK FALSE
