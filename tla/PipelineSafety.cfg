\* Every interleaving of the three threads; commands may fail or go unanswered, wfb_tx may restart.
SPECIFICATION Spec
CONSTANTS
    MayRestart = TRUE
    None = None
    Value <- MCValue
    GsProfile <- OneLevel
    OtherKind = {"keyframe", "hello"}
    FallbackProfile <- MCFallback
    BootDevice <- MCBoot
    AllowSetPower = TRUE
    Outcome = {"ok", "failed", "unacked"}
    Capacity <- MCCapacity
    PowerLimit <- MCPowerLimit
    MaxCount = 1
    ApplyWrap = 1
INVARIANTS
    TypeOK
    LatestJobWins
    SettledDevice
    OrderProtectsLink
