SPECIFICATION Spec
CONSTANTS
    Calls = {c1}
    MaxAttempts = 2
    MaxSessions = 4
    MaxFaults = 1
    MaxExpiries = 1
PROPERTY HandshakeRepeats
