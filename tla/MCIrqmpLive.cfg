\* Liveness: two processors, two device lines, no extended lines, all lines on level 0.
CONSTANTS
    NCPU = 2
    EIRQ = 0
    Sources = {2, 4}
    LevelVals = {}
    PendingVals = {{2}}
    ForceVals = {}
    ClearVals = {{2}}
    BroadcastVals = {{5}}
    MaskVals = {{2, 4}, {4}}
    ForceSets = {{4}}
    ForceClears = {{}}
    EirIds = {}
SPECIFICATION LiveSpec
PROPERTIES
    TopServed
