SPECIFICATION FairSpec
CONSTANTS
    Deployers = {"operator"}
    Agents = {a1}
    Pods = {p1}
    AgentSelected = FALSE
    MaxCerts = 1
    MaxFaults = 0
PROPERTY AgentServes
CHECK_DEADLOCK FALSE
