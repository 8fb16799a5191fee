SPECIFICATION FairSpec
CONSTANTS
    QueueSize <- SmallQueues
    ThreadNum <- MoreThreads
    BatchNum = 2
    MaxPop = 2
    MaxFrames = 4
\* All frames done and the pipe not flushed, nobody has anything to do.
CHECK_DEADLOCK FALSE
INVARIANTS
    FramesAccounted
    LaterPoolsNeverEnd
    BatchesInOrder
    BackPressure
PROPERTIES
    FramesReachTheEnd
