SPECIFICATION FairSpec
CONSTANTS
    p1 = p1
    p2 = p2
    c1 = c1
    c2 = c2
    Producers <- MCProducers
    Consumers <- MCConsumers
    Timed <- MCTimed
    Limit = 2
    DropFn = FALSE
    MinNum = 2
    MaxNum = 2
    MaxBatch = 2
    MaxItems = 2
    DropNums = {1}
    NoThread = NoThread
INVARIANTS
    PushWaitersJustified
    PopWaitersServed
    PopResult
PROPERTIES
    ImplementsChannel
    EveryCallReturns
