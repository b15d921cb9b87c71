CONSTANTS
    Masters = {0, 1, 2}
    SlaveMap <- MCSlaveMap
    PnpArea <- MCPnpArea
    Accesses <- MCAccesses
SPECIFICATION Spec
INVARIANTS
    TypeOK
    OneTransfer
    DecodedByMap
PROPERTIES
    BusSpec
