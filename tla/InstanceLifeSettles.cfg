SPECIFICATION FairSpec
CONSTANTS
    Nobody = Nobody
    h1 = h1
    p1 = p1
    n1 = n1
    n2 = n2
    Nodes = {n1, n2}
    Pollers = {p1}
    Handlers = {h1}
    Operations = {"stop", "node"}
    MaxRetries = 2
    Movable = TRUE
    FaultSets = {{"lost", "offline", "timeout", "server"}}
    MaxFaults = 1
PROPERTIES
    RetriesEnd
    StuckGetsDeployed
CHECK_DEADLOCK FALSE
