\* The telnet output disabled by a command, as test_telnet.cpp does.
SPECIFICATION FairSpec
CONSTANTS
    Calls = {"init", "command"}
    Commands = {"log", "level", "disable"}
    MaxClients = 1
    MayStall = FALSE
    MaxConns = 1
    Sockets = {1}
PROPERTIES
    TestCommandReturns
CHECK_DEADLOCK FALSE
