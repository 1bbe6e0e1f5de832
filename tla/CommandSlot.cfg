\* Commands and GETs of any duration, and commands that outlive the kill.
SPECIFICATION Spec
CONSTANTS
    Value = {v1, v2, v3}
    Timeout = 4
    MaxChunks = 4
    None = None
INVARIANTS
    TypeOK
    CallsBounded
    AckedStays
