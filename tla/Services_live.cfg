SPECIFICATION LiveSpec
CONSTANTS
    Intents = {1, 2, 3}
    Drainers = {d1, d2, d3}
    MaxAborts = 1
    Rows = {1, 2, 3}
    VerdictRows = {1, 2}
    Poison = {1}
    Relays = {y1, y2}
    BatchSize = 2
    MaxOutages = 1
    AccountKeys = {}
    ServiceKeys = {"bot"}
    PollKeys = {"market"}
    Callers = {"c1", "c2"}
    Threshold = 2
    PollLimit = 1
    Window = 2
    Admins = {"a1", "a2"}
    Replicas = {"p1", "p2"}
    FilePolicy <- MCFilePolicy
    Drafts <- MCDrafts
    Available = {"floor"}
    MaxProposals = 2
    MaxPolicyRestarts = 1
    Versions <- MCVersions
    Digests = {"d0", "d1"}
    FirstDigest = "d0"
    Sites = {"p1", "p2"}
    DrainLimit = 1
    AdvanceBatch = 3
    PushEnabled = TRUE
    MaxTargets = 1
    MaxFailures = 1
INVARIANTS ChainIsIntact PolicyHasTwoPeople MatchMeansPassed RefusalIsBounded GuessesAreBounded
PROPERTIES IntentsGetChained HealthyRowsGetDispatched RefusalEnds ReplicasConverge 
CHECK_DEADLOCK FALSE
