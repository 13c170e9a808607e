SPECIFICATION SpecParts
CONSTANTS
    Launch = Launch
    Polls = {p1, p2}
    Terminations = {t}
    Requests = {q1, q2}
    Sweeps = {w}
    MaxSteps = 4
    Builds = {b1, b2}
    Admins = {a1, a2}
    Runs = {r1, r2}
    Nodes = {n1, n2}
    Pinned = n1
    Sizes = {1}
    MaxWarm = 3
    MaxFaults = 1
    MaxPoolFaults = 1
INVARIANTS MachineKnown RegisteredSettles FreshIsOnline CloneKept IdleIsFree PoolBounded PoolFilled NothingLeft
PROPERTY NeverBack
SYMMETRY Symmetry
CHECK_DEADLOCK FALSE
