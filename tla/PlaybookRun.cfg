SPECIFICATION FewerSpec
CONSTANTS
    NoGate = NoGate
    NoPlan = NoPlan
    r1 = r1
    r2 = r2
    r3 = r3
    r4 = r4
    Last = r4
    cp1 = cp1
    cp2 = cp2
    Replicas = {cp1, cp2}
    Job = job
    Threads = {job, r1, r2, r3, r4}
    Tasks = {1, 2, 3, 4, 5, 6, 7}
    Def <- GatedDef
    Playbook <- GatedPlaybook
    Host <- JobOnFirst
INVARIANTS
    GatesHold
    GatesAreResumable
    SuccessMeansStarted
PROPERTY
    RunSettles
    KeepsPromise
CHECK_DEADLOCK FALSE
