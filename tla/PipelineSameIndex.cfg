\* Two profiles under one index.
SPECIFICATION Spec
CONSTANTS
    MayRestart = FALSE
    None = None
    Value <- MCValue
    GsProfile <- TwoBitrates
    OtherKind = {}
    FallbackProfile <- MCFallback
    BootDevice <- MCBoot
    AllowSetPower = TRUE
    Outcome = {"ok"}
    Capacity <- MCCapacity
    PowerLimit <- MCPowerLimit
    MaxCount = 1
    ApplyWrap = 1
PROPERTIES
    DroppedIsActive
