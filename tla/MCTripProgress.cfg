SPECIFICATION Spec
CONSTANTS
    u1 = u1
    a = a
    b = b
    o1 = o1
    Users = {u1}
    Cities = {a, b}
    Sessions = {s1, s2, s3}
    Options = {o1}
    Keys = {k1, sync}
    SyncKey = sync
    Owner <- MCOwner
    City <- MCCity
    Reward <- MCReward
    SyncAmount = 10
    SyncCities <- MCSyncCities
    PromoCities = {a, b}
    Code <- MCCode
    SeasonActive = TRUE
    MaxAttempts = 2
PROPERTY RequestsEnd
