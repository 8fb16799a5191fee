\* Two openings, with reconnections; a destroyed or crashed decoder stops.
SPECIFICATION BSpec
CONSTANTS
    MaxOpens = 2
    MaxPackets = 4
INVARIANTS
    NothingLeftOver
    SoftwareFramesPaired
PROPERTIES
    FramesPaired
CHECK_DEADLOCK FALSE
