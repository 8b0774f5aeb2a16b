SPECIFICATION Spec
CONSTANTS
    MAXINDEXRK = 3
    LFIELDS_PER_FLUSH = 2
    MAXSTACK = 30
    LUAI_MAXVARS = 12
    LUAI_MAXUPVALUES = 4
    STACKSIZE = 80
    BASIC_CI_SIZE = 4
    LUAI_MAXCALLS = 8
    LUAI_MAXCSTACK = 6
    LUAI_MAXCCALLS = 7
    MAXTAGLOOP = 3
    MaxDepth = 6
    Chunks <- TheChunks
    Chunk <- TheChunk
    Program <- TheProgram
    Refused <- TheRefused
INVARIANTS StackConsistent CodeAccepted AssertionsHold FlagsTrue
PROPERTY RunsAsWritten
