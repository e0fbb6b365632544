SPECIFICATION Spec
CONSTANTS
    r1 = r1
    r2 = r2
    r3 = r3
    p1 = p1
    p2 = p2
    Keys = {country, city}
    Runs = {r1, r2, r3}
    Replicas = {p1, p2}
    ReplicaOf <- MCReplicaOf
    Concurrency = 1
    RunTimeout = 3
    SlotWait = 1
    WriteTimeout = 2
    BusyBackoff = 3
    FailureBackoff <- MCFailureBackoff
    CacheTTL = 5
    MaxCrashes = 1
SYMMETRY Symmetry
INVARIANTS
    SlotsAccounted
    ReadyMeansSaved
PROPERTY ClaimsSpaced
