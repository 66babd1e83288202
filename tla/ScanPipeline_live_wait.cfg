CONSTANTS
    f1 = f1
    f2 = f2
    c1 = c1
    c2 = c2
    Scans = {s1}
    Floor = {f1}
    Sandbox = {x1}
    Policies <- OnePolicy
    FloorWorkers = {w1}
    SandWorkers = {w2}
    Collectors = {c1}
    Copies = {1}
    Rejected = {}
    Lost = {}
    Switchable = {x1}
    FailAt = {"sandbox"}
    CrashAt = {"sandbox"}
    MaxFaults = 2
    MaxDelivery = 1
    NoScan = NoScan
    NoMsg = NoMsg

SPECIFICATION FairSpec
 
PROPERTY EveryScanGetsVerdict
