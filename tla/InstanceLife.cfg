SPECIFICATION Spec
CONSTANTS
    Nobody = Nobody
    r1 = r1
    r2 = r2
    n1 = n1
    Nodes = {n1}
    Pollers = {r1, r2}
    Handlers = {r1, r2}
    Operations = {"node", "forced", "stop", "start", "restart", "remove"}
    MaxRetries = 2
    Movable = FALSE
    FaultSets = {{"lost", "agent", "offline"}, {"timeout", "server", "offline"}}
    MaxFaults = 1
INVARIANTS
    RunningIsTrue
SYMMETRY Interchangeable
CHECK_DEADLOCK FALSE
