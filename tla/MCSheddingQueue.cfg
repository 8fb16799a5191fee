\* A full queue sheds every second item, for each limit from 1 to Limit.
SPECIFICATION SheddingSpec
CONSTANTS
    p1 = p1
    p2 = p2
    c1 = c1
    c2 = c2
    Producers <- MCProducers
    Consumers <- MCConsumers
    Timed <- MCTimed
    Limit = 4
    DropFn = TRUE
    MinNum = 1
    MaxNum = 2
    MaxBatch = 2
    MaxItems = 3
    DropNums = {}
    NoThread = NoThread
PROPERTIES
    ShedsAsPromised
