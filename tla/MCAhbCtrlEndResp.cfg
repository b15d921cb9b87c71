\* Comment: END_RESP goes to the slave of the transfer.
CONSTANTS
    NMASTERS = 2
    RROBIN = FALSE
    Accesses <- MCMixed
    Pipelined <- MCPipelined
    SLOTS = 3
    InitialDBus = {"IDLE"}
SPECIFICATION Spec
PROPERTIES
    EndRespToItsSlave
