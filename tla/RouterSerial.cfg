SPECIFICATION SerialSpec
CONSTANTS
    Creates = {c1, c2}
    Deletes = {d1, d2}
    Pods = {p1, p2}
    Misnamed = {}
    NoName = NoName
    None = None
INVARIANTS TypeOK OwnRouter RetiredWithPod ClaimGoesWithPod
PROPERTY ImplementsLifecycle
SYMMETRY Symmetry
CHECK_DEADLOCK FALSE
