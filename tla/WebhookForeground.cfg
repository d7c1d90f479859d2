SPECIFICATION Spec
CONSTANTS
    Kinds = {"Issuer", "ClusterRole"}
    Names = {n1}
    DefaultName = n1
    Unset = Unset
    Versions = {v1}
    Other = Other
    Cascades = {TRUE}
    Renames = FALSE
    Unlabelled = {}
    MaxUid = 1
    MaxChanges = 0
    None = None
INVARIANTS
    OrphanFree
CHECK_DEADLOCK FALSE
