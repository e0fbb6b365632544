SPECIFICATION MCSpec
CONSTANTS
    None = None
    Replicas = {r1, r2}
    Files <- MCFiles
    Labels <- MCLabels
    StaleLabel = stale
    Admin = admin
    User = user
    DemoMode = TRUE
    MaxStarts = 3
    v1 = v1 v2 = v2 e1 = e1 e2 = e2 e3 = e3 A = A B = B Absent = Absent
    city = city g1 = g1 g2 = g2 p1 = p1 p2 = p2
INVARIANT LateOnlyWait
CHECK_DEADLOCK FALSE
