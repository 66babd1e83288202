CONSTANTS
    f1 = f1
    f2 = f2
    c1 = c1
    c2 = c2
    Scans = {s1}
    Floor = {f1}
    Sandbox = {}
    Policies <- OnePolicy
    FloorWorkers = {w1}
    SandWorkers = {}
    Collectors = {c1, c2}
    Copies = {1}
    Rejected = {}
    Lost = {}
    Switchable = {}
    FailAt = {}
    CrashAt = {}
    MaxFaults = 0
    MaxDelivery = 1
    NoScan = NoScan
    NoMsg = NoMsg

SPECIFICATION Spec
INVARIANT DeadLetterHasNoResult
CHECK_DEADLOCK FALSE
