CONSTANTS
    Clients = {"own", "other"}
    Foreign = {"other"}
    Malformed <- MCMalformed
    ServerTls <- MCServerTls
    ClientTls <- MCClientTls
    Scenarios <- MCScenarios
    MaxCalls = 2
SPECIFICATION SysSpec
INVARIANTS
    ServesAsAsked
    ServedExactlyIfTrusting
PROPERTIES
    ShutdownCompletes
CHECK_DEADLOCK FALSE
