SPECIFICATION FairSpec
CONSTANTS
    Names = {n1, n2}
    DefaultName = n1
    Unset = Unset
    Versions = {v1}
    Parts = {}
    Labels = {default}
    Default = default
    Other = other
    Cascades = {FALSE}
    MaxUid = 1
    MaxChanges = 1
    None = None
PROPERTY RoutersGetReady
CHECK_DEADLOCK FALSE
