\* Any changes, emergencies, losses, drone restarts and kills.
SPECIFICATION Spec
CONSTANTS
    Window = 2
    LogWindow = 3
    Params <- MCParams
    Param <- MCParam
    Losses = {0, 3}
    MaxLines = 4
INVARIANTS
    TypeOK
    LearnsFromOwnLines
    OneRecordPerChange
PROPERTIES
    RestartKeepsLearned
