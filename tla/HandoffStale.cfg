SPECIFICATION FairSpec
CONSTANTS
    Controllers = {c1}
    Tokens = {t1, t2}
    Consumers = {webhook}
    Objects = {o1}
    Capacity = 1
    MaxChanges = 3
    MaxCrashes = 0
    None = None
PROPERTY EditsReachObjects
CHECK_DEADLOCK FALSE
