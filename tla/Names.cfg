SPECIFICATION Spec
CONSTANTS
    Lower <- MCLower
    Others <- MCOthers
    Prefix <- MCPrefix
    LabelMaps <- MCAllLabels
    Namespaces <- MCNamespaces
    Lists <- MCLookalike
    Uids <- MCUids
    Pods = {p1, p2}
    MaxBase = 5
    HashLen = 2
    MaxContainer = 8
    None = None
INVARIANTS TypeOK OwnName PlainAccepted FoundAgain
CHECK_DEADLOCK FALSE
