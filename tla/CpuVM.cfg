\* Short programs, and longer ones around a branch.
SPECIFICATION Spec
CONSTANTS
    WordBytes = 2
    FloatBits = 12
    REGISTER_SIZE = 2
    MEMORY_SIZE = 3
    GRAPHICS_SIZE = 2
    Programs <- MCPrograms
    Inputs <- MCInputs
    Garbage <- MCGarbage
    MaxOps = 6
CHECK_DEADLOCK FALSE
INVARIANTS
    TypeOK
    WellFormedIsRobust
    FetchIsProgram
    ForwardProgramsEnd
    JumpsStayAligned
    ResetForgetsTheRest
