\* Any sequence of link metrics, emergencies and parameter changes.
SPECIFICATION FairSpec
CONSTANTS
    MaxMcs = 3
    Threshold <- Thresholds
    Link <- Links
    HysteresisDown = 2
    MinBetween = 2
    HoldFallback = 3
    HoldDown = 4
    FastDowngrade = FALSE
    ConfidenceLoops = 3
    MaxStep = 1
    Gap = {1, 2}
    None = None
    ByLatency = {0, 2, 3, 4, 7, 11, 15}
    ByFrame = {1, 5, 12, 40}
    Redundancy = {10, 15, 20, 25, 33, 40, 50}
    Capacity = {400, 3250, 19500, 52000}
    MaxRedundancy = 50
    MaxN = 15
    MinBitrate = 1000
    MaxBitrate = 24000
INVARIANTS
    TypeOK
    ClimbsSlowly
    ConfidenceIsEarned
    LeavesInTime
    
PROPERTIES
    Settles
