CONSTANTS
    WIDTH = 6
    MSB = 32
SPECIFICATION Spec
INVARIANTS
    TypeOK
    BranchesCompare
    CarryChains
    StepsMultiply
    DivisionSaturates
