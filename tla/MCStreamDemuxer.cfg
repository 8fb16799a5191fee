SPECIFICATION FairSpec
CONSTANTS
    MaxOpens = 3
\* A destroyed demuxer does nothing more.
CHECK_DEADLOCK FALSE
INVARIANTS
    ObserverProtocol
PROPERTIES
    CloseReturns
    LiveReconnects
