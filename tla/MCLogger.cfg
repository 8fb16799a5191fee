SPECIFICATION FairSpec
CONSTANTS
    t1 = t1
    t2 = t2
    Threads <- TwoThreads
    Levels <- TwoLevels
    QueueSize = 2
    AbortOnFatal = TRUE
    MaxMessages = 3
    MaxSessions = 2
\* An aborted process does nothing more.
CHECK_DEADLOCK FALSE
INVARIANTS
    MessagesAccounted
    QueuedInOrder
    EarlyMessagesHandled
PROPERTIES
    DeinitReturns
