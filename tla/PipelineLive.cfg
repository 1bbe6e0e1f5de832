\* Fair threads; of the commands, any number fail or go unanswered.
SPECIFICATION FairSpec
CONSTANTS
    MayRestart = FALSE
    None = None
    Value <- MCValue
    GsProfile <- OneBitrate
    OtherKind = {}
    FallbackProfile <- MCFallback
    BootDevice <- MCBoot
    AllowSetPower = FALSE
    Outcome = {"ok", "failed", "unacked"}
    Capacity <- MCCapacity
    PowerLimit <- MCPowerLimit
    MaxCount = 1
    ApplyWrap = 1
PROPERTIES
    SilentGsEndsInFallback
    ImplementsLatestJob
