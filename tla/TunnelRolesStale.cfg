SPECIFICATION SerialSpec
CONSTANTS
    r1 = r1
    s1 = s1
    s2 = s2
    Requests = {r1, r2, r3}
    Pods = {p1}
    Servers = {s1}
    ServerOf <- OneServer
    RoleLists = {"edited", "edited again"}
    Shadowed = {}
    Unknown = Unknown
    DryRuns = {FALSE}
    Relabelled = {}
    FailurePolicy = "Fail"
    None = None
INVARIANTS
    RolesFollowAnnotation
CHECK_DEADLOCK FALSE
