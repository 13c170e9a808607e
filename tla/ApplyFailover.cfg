SPECIFICATION ApplySpec
CONSTANTS
    n1 = n1
    n2 = n2
    web = web
    db = db
    Services = {web, db}
    Nodes = {n1, n2}
    Unscheduled = Unscheduled
    a1 = a1
    a2 = a2
    Appliers = {a1}
    Manifests <- MCManifests
    MaxApplies = 2
    MaxFaults = 1
INVARIANT SurvivorCompletes
CHECK_DEADLOCK FALSE
