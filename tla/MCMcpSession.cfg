SPECIFICATION Spec
CONSTANTS
    Calls = {c1, c2}
    MaxAttempts = 2
    MaxSessions = 8
    MaxFaults = 2
    MaxExpiries = 1
INVARIANTS
    TypeOK
    ToolRunOnce
    SessionKept
PROPERTY CallsEnd
