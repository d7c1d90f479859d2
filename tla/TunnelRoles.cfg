SPECIFICATION SerialSpec
CONSTANTS
    r1 = r1
    s1 = s1
    s2 = s2
    Requests = {r1, r2}
    Pods = {p1}
    Servers = {s1}
    ServerOf <- OneServer
    RoleLists = {"edited"}
    Shadowed = {}
    Unknown = Unknown
    DryRuns = {FALSE}
    Relabelled = {}
    FailurePolicy = "Fail"
    None = None
INVARIANTS
    RolesNeverEmpty
CHECK_DEADLOCK FALSE
