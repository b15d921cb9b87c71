CONSTANTS
    NTimers = 2
    SMAX = 3
    IRQ = 8
    SI = TRUE
    WDOG = 1
    WRAP = 1001
    Junk = {2}
    Writes <- MCWrites
    HORIZON = 24
    MAXWRITES = 3
SPECIFICATION Spec
INVARIANTS
    TypeOK
    Scheduled
PROPERTIES
    UnderflowPeriod
