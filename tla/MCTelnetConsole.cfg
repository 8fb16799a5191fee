\* Every call and every command; the console may hang, and then it stops.
SPECIFICATION FairSpec
CONSTANTS
    Calls = {"init", "deinit", "on", "off", "command"}
    Commands = {"log", "level", "enable", "disable", "help", "exit"}
    MaxClients = 1
    MayStall = TRUE
    MaxConns = 2
    Sockets = {1, 2}
INVARIANTS
    PlacesServed
PROPERTIES
    NothingAfterDeinit
    CallsReturn
CHECK_DEADLOCK FALSE
