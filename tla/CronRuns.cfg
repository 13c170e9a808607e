SPECIFICATION FewerSpec
CONSTANTS
    Replicas = {cp1, cp2}
    MaxTicks = 3
    Jobs = {j1, j2}
    LastMinute = 2
    MaxRuns = 4
    MaxFaults = 1
CONSTRAINT OneMinute
INVARIANTS RunsOnce DueServed RunsTell
SYMMETRY Symmetry
CHECK_DEADLOCK FALSE
