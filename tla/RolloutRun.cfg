SPECIFICATION Spec
CONSTANTS
    NoGate = NoGate
    NoPlan = NoPlan
    i1 = i1
    i2 = i2
    p1 = p1
    p2 = p2
    Watched = {i1, i2}
    Job = job
    cp1 = cp1
    cp2 = cp2
    Replicas = {cp1, cp2}
    Host <- AbortsElsewhere
    Polls = {p1, p2}
    Aborts = {a1}
    Threads = {job, p1, p2, a1}
INVARIANTS
    SuccessMeansReadyTogether
    FailedDispatchBlocksSuccess
SYMMETRY Alike
CONSTRAINT Unsettled
CHECK_DEADLOCK FALSE
