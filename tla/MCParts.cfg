\* Every sequence of six timestamps, missing ones included; an encoder of
\* which all packets are taken; packets of three units; numbers of two and
\* eight bytes in a buffer that grows, by callers who pop no more than there
\* is; a ring of three records. A packet that was read is over.
SPECIFICATION PartsSpec
CONSTANTS
    Pts <- SmallPts
    NoPts <- Sentinel
    MaxJump = 2
    MinIncrement = 1
    Weight = 1
    Whole = 2
    MaxHistory = 3
    MaxPackets = 6
    Apis = {"all"}
    MaxFrames = 4
    MaxRequests = 2
    Contents <- SomeContents
    Units <- SomeUnits
    MaxUnits = 3
    Kinds = {"int16", "int64"}
    FirstCap = 3
    MaxBytes = 8
    MaxBoxes = 1
    Careful = TRUE
    mTotalLayers = 3
    Second = 2
    Amounts = {0, 1, 2}
    Start = 1
    MaxTime = 12
    MaxCount = 5
CHECK_DEADLOCK FALSE
INVARIANTS
    RegularUnchanged
    NothingLost
    FirstFound
    ValuesComeBack
    SpeedOfWindow
PROPERTIES
    StrictlyIncreasing
