\* A base that moves although the timestamps did not jump.
SPECIFICATION Spec
CONSTANTS
    Pts <- SmallPts
    NoPts <- Sentinel
    MaxJump = 2
    MinIncrement = 1
    Weight = 1
    Whole = 2
    MaxHistory = 3
    MaxPackets = 4
PROPERTIES
    OnlyJumpsRebase
