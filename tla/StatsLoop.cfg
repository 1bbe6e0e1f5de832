\* The shipped burst and limit in units of 20 ms, a link that loses a K, and a pause that outlasts two fallback windows.
SPECIFICATION FairSpec
CONSTANTS
    Burst = 4
    SendGap = 1
    Limit = 10
    MaxDropped = 1
    Profile = {0, 1}
    Fallback = 3
    Pause = 7
INVARIANTS
    TypeOK
    LossAnswered
    OutageFallsBack
PROPERTIES
    DroneFollows
    CrashLoopEnds
