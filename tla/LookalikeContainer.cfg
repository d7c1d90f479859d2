SPECIFICATION Spec
CONSTANTS
    Lower <- MCLower
    Others <- MCOthers
    Prefix <- MCPrefix
    LabelMaps <- MCLabels
    Namespaces <- MCNamespaces
    Lists <- MCLookalike
    Uids <- MCUids
    Pods = {p1, p2}
    MaxBase = 5
    HashLen = 2
    MaxContainer = 8
    None = None
INVARIANT NothingLeft
CHECK_DEADLOCK FALSE
