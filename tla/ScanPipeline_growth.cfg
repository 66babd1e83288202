CONSTANTS
    f1 = f1
    f2 = f2
    c1 = c1
    c2 = c2
    Scans = {s1}
    Floor = {f1, f2}
    Sandbox = {}
    Policies <- GrowingPolicy
    FloorWorkers = {w1}
    SandWorkers = {}
    Collectors = {c1}
    Copies = {1}
    Rejected = {}
    Lost = {}
    Switchable = {}
    FailAt = {}
    CrashAt = {}
    MaxFaults = 1
    MaxDelivery = 1
    NoScan = NoScan
    NoMsg = NoMsg

SPECIFICATION FairSpec
PROPERTY EveryScanGetsVerdict
CHECK_DEADLOCK FALSE
