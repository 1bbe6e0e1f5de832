\* The fallback thread dispatches between the tracking stores of the receive thread.
SPECIFICATION Spec
CONSTANTS
    MayRestart = FALSE
    None = None
    Value <- MCValue
    GsProfile <- OneLevel
    OtherKind = {}
    FallbackProfile <- MCFallback
    BootDevice <- MCBoot
    AllowSetPower = TRUE
    Outcome = {"ok"}
    Capacity <- MCCapacity
    PowerLimit <- MCPowerLimit
    MaxCount = 1
    ApplyWrap = 1
PROPERTIES
    DroppedIsActive
