SPECIFICATION SerialSpec
CONSTANTS
    r1 = r1
    s1 = s1
    s2 = s2
    Requests = {r1, r2, r3, r4}
    Pods = {p1, p2}
    Servers = {s1}
    ServerOf <- OneServer
    RoleLists = {}
    Shadowed = {}
    Unknown = Unknown
    DryRuns = {FALSE}
    Relabelled = {p1, p2}
    FailurePolicy = "Fail"
    None = None
SYMMETRY Symmetry
CONSTRAINT FourReviews
INVARIANTS
    OwnIdentity
    RetiredWithPod
    KeptWhileRunning
    Inductive
PROPERTIES
    ImplementsLifecycle
CHECK_DEADLOCK FALSE
