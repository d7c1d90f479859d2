SPECIFICATION FairSpec
CONSTANTS
    Creates = {c1, c2}
    Deletes = {d1}
    Pods = {p1}
    Misnamed = {}
    NoName = NoName
    None = None
PROPERTIES DeletionEnds DeletionBegins
CHECK_DEADLOCK FALSE
