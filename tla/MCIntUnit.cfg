SPECIFICATION RunSpec
\* The processor may stop, see StopsOnlyOvertaken.
CHECK_DEADLOCK FALSE
CONSTANTS
    WIDTH = 24
    MSB = 8388608
    NUM_REG_WIN = 4
    Program <- MCProgram
    Ram <- MCRam
    ENTRY_POINT = 0
    IrqLevels = {1, 15}
    MaxIrq = 1
    UserProgram <- MCUserProgram
    UserData <- MCUserData
    USER_ENTRY = 12288
    USER_END = 12340
INVARIANTS
    TypeOK
    Transparent
PROPERTIES
    UserConfined
    
    Terminates
