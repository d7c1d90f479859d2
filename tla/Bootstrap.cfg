SPECIFICATION FairSpec
CONSTANTS
    Deployers = {"helm", "operator"}
    Agents = {a1}
    Pods = {p1}
    AgentSelected = FALSE
    MaxCerts = 2
    MaxFaults = 2
INVARIANT TypeOK
PROPERTIES PodsServed RemovalUnblocks AskedLast
CHECK_DEADLOCK FALSE
