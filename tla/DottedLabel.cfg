SPECIFICATION Spec
CONSTANTS
    Lower <- MCLower
    Others <- MCOthers
    Prefix <- MCPrefix
    LabelMaps <- MCDotted
    Namespaces <- MCNamespaces
    Lists <- MCLists
    Uids <- MCUids
    Pods = {p1, p2}
    MaxBase = 5
    HashLen = 2
    MaxContainer = 8
    None = None
INVARIANT ValidatedFits
CHECK_DEADLOCK FALSE
