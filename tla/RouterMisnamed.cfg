SPECIFICATION FairSpec
CONSTANTS
    Creates = {c1, c2}
    Deletes = {d1}
    Pods = {p1}
    Misnamed = {p1}
    NoName = NoName
    None = None
PROPERTY DeletionBegins
CHECK_DEADLOCK FALSE
