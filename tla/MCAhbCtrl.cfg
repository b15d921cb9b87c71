\* Two masters, one of them pipelined, fixed priorities.
CONSTANTS
    NMASTERS = 2
    RROBIN = FALSE
    Accesses <- MCAccesses
    Pipelined <- MCPipelined
    SLOTS = 3
    InitialDBus = {"IDLE", "RESPONSE"}
SPECIFICATION Spec
INVARIANTS
    TypeOK
    AddressPhaseExclusive
    DataPhaseExclusive
    SnoopedBeforeEnd
    RequestKept
    StallHasEnd
    NoUseAfterRelease
PROPERTIES
    LockedAtomic
    BusSpec
