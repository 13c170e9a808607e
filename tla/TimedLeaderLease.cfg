SPECIFICATION TimedSpec
CONSTANTS
    NoInstance = NoInstance
    Instances = {a, b}
    Mortal = {a}
    Slots = {s1}
    TTL = 3
    Latency = 1
    Gap = 2
    Spread = 0
    MaxClock = 7
    Skew <- NoSkew
CONSTRAINT EarlyRequests
INVARIANTS
    TypeOK
    AtMostOneLeaderPerTerm
    StaleLeaderBounded
    FailoverBounded
PROPERTY
    PunctualLeaderKept
