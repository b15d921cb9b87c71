\* Two processors, extended lines cascaded to line 3.
CONSTANTS
    NCPU = 2
    EIRQ = 3
    Sources <- MCSources
    LevelVals <- MCLevels
    PendingVals <- MCPendings
    ForceVals <- MCForces
    ClearVals <- MCClears
    BroadcastVals <- MCBroadcasts
    MaskVals <- MCMasks
    ForceSets <- MCForceSets
    ForceClears <- MCForceClears
    EirIds <- MCEirIds
SPECIFICATION Spec
INVARIANTS
    TypeOK
    ForceCopiesAgree
    LineWasSent
    ServedOnce
    NothingForgotten
PROPERTIES
    PendingKeptUntilServed
    ForcedUntilOwnAck
