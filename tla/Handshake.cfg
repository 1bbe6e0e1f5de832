\* A link that loses, delays, duplicates and reorders, a drone that restarts and a clock that is set.
SPECIFICATION Spec
CONSTANTS
    LongResync = 5
    FastRetry = 3
    MaxRetries = 1
    MaxTrip = 2
    Period = 1
    Duplicates = TRUE
    Start = 3
    Step = 2
    None = None
    MaxTime = 12
    MaxLosses = 2
    MaxRestarts = 1
    MaxInFlight = 3
CHECK_DEADLOCK FALSE
INVARIANTS
    TypeOK
    RecoversFromOneLoss
    RttWithinPeriod
    HelloNeverFar
PROPERTIES
    SessionsGoForward
