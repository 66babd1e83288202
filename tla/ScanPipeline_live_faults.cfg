CONSTANTS
    f1 = f1
    f2 = f2
    c1 = c1
    c2 = c2
    Scans = {s1}
    Floor = {f1, f2}
    Sandbox = {}
    Policies <- ShrinkingPolicy
    FloorWorkers = {w1}
    SandWorkers = {}
    Collectors = {c1}
    Copies = {1}
    Rejected = {}
    Lost = {}
    Switchable = {}
    FailAt <- Recoverable
    CrashAt <- Recoverable
    MaxFaults = 2
    MaxDelivery = 2
    NoScan = NoScan
    NoMsg = NoMsg

SPECIFICATION FairSpec
PROPERTIES  StreamsDrain
