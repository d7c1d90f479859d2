SPECIFICATION FairSpec
CONSTANTS
    Kinds = {"Certificate", "ServiceAccount", "MutatingWebhookConfiguration", "Deployment"}
    Names = {n1}
    DefaultName = n1
    Unset = Unset
    Versions = {v1, v2}
    Other = Other
    Cascades = {FALSE, TRUE}
    Renames = FALSE
    Unlabelled = {"MutatingWebhookConfiguration", "Deployment"}
    MaxUid = 2
    MaxChanges = 1
    None = None
INVARIANTS
    TypeOK
    NoOrphan
PROPERTIES
    Corrects
    Converges
CHECK_DEADLOCK FALSE
