SPECIFICATION FairSpec
CONSTANTS
    c1 = c1
    c2 = c2
    Clients <- TwoClients
    MaxTimers = 2
    MaxTime = 2
    Delays = {1}
    Skews = {1}
    Repeats <- AllRepeats
\* A stopped loop, and timers that are over, leave nothing to do.
CHECK_DEADLOCK FALSE
INVARIANTS
    MapIsValidHeap
    CalledAsAsked
    NoTimerForgotten
PROPERTIES
    EveryTimerServed
    StopEndsLoop
