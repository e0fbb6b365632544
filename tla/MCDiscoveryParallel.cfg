SPECIFICATION Spec
CONSTANTS
    r1 = r1
    r2 = r2
    r3 = r3
    p1 = p1
    p2 = p2
    Keys = {city}
    Runs = {r1, r2, r3}
    Replicas = {p1, p2}
    ReplicaOf <- MCReplicaOf
    Concurrency = 1
    RunTimeout = 5
    SlotWait = 1
    WriteTimeout = 2
    BusyBackoff = 4
    FailureBackoff <- MCShortBackoff
    CacheTTL = 7
    MaxCrashes = 1
INVARIANT NoParallelSearch
