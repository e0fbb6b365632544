SPECIFICATION Spec
CONSTANTS
    Users = {u1}
    Callers = {a1}
    Streams = {c1}
    Transport = 2
    Finalize = 3
    DatabaseFails = TRUE
    MaxRequests = 2
    MaxActivity = 2
    MaxCrashes = 1
INVARIANTS
    TypeOK
    OptionsStored
    AbandonedExplained
    StreamOutcome
PROPERTIES
    OutcomeFinal
    WorkflowEnds
