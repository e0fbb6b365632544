SPECIFICATION LimiterSpec
CONSTANTS
    Callers = {u1}
    Calls = {c1, c2}
    Limit <- MCLimit
    Width <- MCWidth
    Handlers = {"quota"}
    MaxTime <- MCMaxTime
    MaxResets = 0
INVARIANT SlidingWindow
