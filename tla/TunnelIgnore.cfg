SPECIFICATION SerialSpec
CONSTANTS
    r1 = r1
    s1 = s1
    s2 = s2
    Requests = {r1, r2, r3}
    Pods = {p1, p2}
    Servers = {s1, s2}
    ServerOf <- TwoServers
    RoleLists = {}
    Shadowed = {p2}
    Unknown = Unknown
    DryRuns = {FALSE, TRUE}
    Relabelled = {}
    FailurePolicy = "Ignore"
    None = None
SYMMETRY SameServer
INVARIANTS
    TypeOK
    KeptWhileRunning
CHECK_DEADLOCK FALSE
