\* Liveness: two masters, round robin.
CONSTANTS
    NMASTERS = 2
    RROBIN = TRUE
    Accesses <- MCShort
    Pipelined <- MCPipelined
    SLOTS = 3
    InitialDBus = {"IDLE", "RESPONSE"}
SPECIFICATION LiveSpec
PROPERTIES
    EveryoneServed
