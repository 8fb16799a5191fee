\* Three sessions, three packets with any timestamps, two presets; an outputer
\* that is closed may rest for ever.
SPECIFICATION FairSSpec
CONSTANTS
    MaxPackets = 3
    MaxSessions = 3
    Presets <- TwoPresets
    Whole = 2
    MaxHistory = 2
    Pts <- FewPts
    NoPts <- Sentinel
CHECK_DEADLOCK FALSE
INVARIANTS
    ContextAlive
    SessionsTimed
PROPERTIES
    ImplementsStream
    CloseReturns
    EveryPacketWritten
