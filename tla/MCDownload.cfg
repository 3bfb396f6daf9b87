CONSTANTS
    b1 = b1
    b2 = b2
    Build = {b1, b2}
    Serves <- MCServes
    Modes <- MCModes
    MaxRuns = 2
    MaxFaults = 2
    GitUris = {2}
    Upstreams = {"good", "bad", "lacks", "down"}
    MaxBreaks = 1
SPECIFICATION GFairSpec
INVARIANTS
    SuccessUsable
    NeverPartial
PROPERTIES
    WrapperEnds
    FailureExhaustsUris
    CacheRefined
    GoodUpstreamDelivers
CHECK_DEADLOCK FALSE
