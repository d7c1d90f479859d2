SPECIFICATION FairSpec
CONSTANTS
    Deployers = {"helm"}
    Agents = {a1}
    Pods = {p1}
    AgentSelected = FALSE
    MaxCerts = 2
    MaxFaults = 0
PROPERTY StillServed
CHECK_DEADLOCK FALSE
