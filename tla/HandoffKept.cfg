SPECIFICATION FairSpec
CONSTANTS
    Controllers = {c1}
    Tokens = {t1, t2}
    Consumers = {webhook, router}
    Objects = {o1}
    Capacity = 1
    MaxChanges = 4
    MaxCrashes = 1
    None = None
INVARIANTS HandoffKept OneController
PROPERTIES TokenSpentForNeed NameKept LaterObjectsNamed
CHECK_DEADLOCK FALSE
