\* Every interleaving of the TX monitor and the worker's API step; calls may fail.
SPECIFICATION FairSpec
CONSTANTS
    Bitrate <- MCBitrate
    Gop = {1, 2}
    BootSetting <- MCBoot
    Cut <- MCCut
    Outcome = {"ok", "failed", "unacked"}
    Gap = {1, 2}
    RestoreAfter = 2
    MaxUnseen = 1
INVARIANTS
    TypeOK
    NoCompounding
    EncoderWhereBelieved
PROPERTIES
    ReductionEnds
