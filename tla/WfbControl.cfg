\* A daemon slower than the timeout, or hanging for good.
SPECIFICATION FairSpec
CONSTANTS
    Setting = {s1, s2}
    ReqId = {1, 2, 3, 4, 5}
    QueueSize = 2
    DrainCap = 0
    MismatchCap = 1
    None = None
INVARIANTS
    TypeOK
    AckedInEffect
    SkippedWereOutstanding
PROPERTIES
    CallsReturn
