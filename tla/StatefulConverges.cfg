SPECIFICATION FairSpec
CONSTANTS
    Names = {n1}
    DefaultName = n1
    Unset = Unset
    Versions = {v1, v2}
    Parts = {"data"}
    Labels = {default}
    Default = default
    Other = other
    Cascades = {FALSE, TRUE}
    MaxUid = 2
    MaxChanges = 1
    None = None
PROPERTIES Corrects Converges
CHECK_DEADLOCK FALSE
