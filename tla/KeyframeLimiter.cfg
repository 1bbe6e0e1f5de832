\* Both paths, every delay between clock reading, claim and request.
SPECIFICATION LimiterSpec
CONSTANTS
    Interval = 2
    BootTime = 2
    AllowGs = TRUE
    AllowDrop = TRUE
    None = None
    MaxTime = 9
INVARIANTS
    LimiterTypeOK
    RequestRate
    ClaimsAccounted
