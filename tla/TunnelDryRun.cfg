SPECIFICATION SerialSpec
CONSTANTS
    r1 = r1
    s1 = s1
    s2 = s2
    Requests = {r1, r2}
    Pods = {p1}
    Servers = {s1}
    ServerOf <- OneServer
    RoleLists = {}
    Shadowed = {}
    Unknown = Unknown
    DryRuns = {FALSE, TRUE}
    Relabelled = {}
    FailurePolicy = "Fail"
    None = None
INVARIANTS
    DryRunsLeaveNoTrace
CHECK_DEADLOCK FALSE
