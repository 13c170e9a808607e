SPECIFICATION FairParts
CONSTANTS
    a = a
    b = b
    Replicas = {a, b}
    FirstLeader = a
    NoReplica = NoReplica
    Polls = {1, 2}
    MaxOperations = 2
    i1 = i1
    i2 = i2
    s1 = s1
    Instances = {i1, i2}
    Syncs = {s1}
    Poll = poll
    MaxChanges = 3
INVARIANTS NothingSkipped RevisionsAgree GatewayAgrees
PROPERTIES EventsDelivered StatusConverges
CHECK_DEADLOCK FALSE
