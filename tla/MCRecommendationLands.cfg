SPECIFICATION Spec
CONSTANTS
    Users = {u1}
    Callers = {}
    Streams = {}
    Transport = 3
    Finalize = 6
    DatabaseFails = FALSE
    MaxRequests = 1
    MaxActivity = 1
    MaxCrashes = 0
PROPERTY ResultLands
CHECK_DEADLOCK FALSE
