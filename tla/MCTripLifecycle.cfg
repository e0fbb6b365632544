SPECIFICATION Spec
CONSTANTS
    u1 = u1
    a = a
    b = b
    o1 = o1
    Users = {u1, u2}
    Cities = {a, b}
    Sessions = {s1, s2}
    Options = {o1, o2}
    Keys = {k1, sync}
    SyncKey = sync
    Owner <- MCOwner
    City <- MCCity
    Reward <- MCReward
    SyncAmount = 10
    SyncCities <- MCSyncCities
    PromoCities = {a, b}
    Code <- MCCode
    SeasonActive = TRUE
    MaxAttempts = 2
SYMMETRY Symmetry
INVARIANTS
    TypeOK
    RewardIffArrived
    ArrivalComplete
    AnswersAgree
    PromoPerVisitedCity
    BalanceExplained
PROPERTIES
    ImplementsPaidTrips
