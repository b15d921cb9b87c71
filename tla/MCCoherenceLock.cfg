\* HLOCK of a master that does not require it: the TLB adaptor between cache and bus.
CONSTANTS
    Masters = {0, 1}
    SlaveMap <- MCSlaveMap
    PnpArea = {}
    Accesses <- MCAccesses
    Lines = {0, 1}
    Words = {0, 1}
    Values = {0, 1}
    Cacheable = {0, 1}
    WAYS = 1
    WBSLOTS = 3
    FIFO = 1
    MMU = TRUE
    Instructions <- MCInstructions
    Modes <- MCModes
SPECIFICATION CSpec
INVARIANTS
    LockHasEnd
