\* The semaphore of mptest.c on two processors.
CONSTANTS
    Masters = {0, 1}
    SlaveMap <- MCSlaveMap
    PnpArea = {}
    Accesses <- MCAccesses
    Lines = {0}
    Words = {0}
    Values = {0, 1}
    Cacheable = {0}
    WAYS = 1
    WBSLOTS = 3
    FIFO = 1
    MMU = TRUE
    Instructions <- MCGetSem
    Modes <- MCNoModes
SPECIFICATION CSpec
INVARIANTS
    TestAndSet
