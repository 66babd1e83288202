SPECIFICATION LifeFairSpec
CONSTANTS
    Skills = {k1, k2}
    k1 = k1
    k2 = k2
    Contents = {c1, c2}
    Toolchains = {t1, t2}
    Users = {alice, bob}
    Admins = {bob}
    Replicas = {r1, r2}
    None = None
    alice = alice
    bob = bob
    r1 = r1
    r2 = r2
    Scenarios <- RaceScenarios
INVARIANTS EventsFollowTable  
PROPERTIES ContentKeepsItsSkill ScanningSettles StrandedVerdictsReported
CHECK_DEADLOCK FALSE
