SPECIFICATION Spec
CONSTANTS
    Kinds = {"ClusterRole", "Deployment"}
    Names = {n1, n2}
    DefaultName = n1
    Unset = Unset
    Versions = {v1}
    Other = Other
    Cascades = {FALSE}
    Renames = TRUE
    Unlabelled = {}
    MaxUid = 1
    MaxChanges = 1
    None = None
INVARIANTS
    OrphanFree
CHECK_DEADLOCK FALSE
