SPECIFICATION FairSpec
CONSTANTS
    Names = {n1, n2}
    DefaultName = n1
    Unset = Unset
    Versions = {v1}
    Parts = {}
    Labels = {default}
    Default = default
    Other = other
    Cascades = {FALSE, TRUE}
    MaxUid = 1
    MaxChanges = 2
    None = None
INVARIANT TypeOK
PROPERTIES Corrects Converges
CHECK_DEADLOCK FALSE
