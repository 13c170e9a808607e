SPECIFICATION FairSpec
CONSTANTS
    a = a
    b = b
    c = c
    Replicas = {a, b, c}
    NoOne = NoOne
    Expected <- Versions
    LeaderTable = 1
    MaxCrashes = 2
INVARIANTS ServesMigrated OneMigrator
PROPERTIES NeverReruns StartUpEnds
