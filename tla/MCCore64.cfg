\* RV64 with 'M', bytes of one bit: registers of 8 bits.
CONSTANTS
    RV64 = TRUE
    M_EXT = TRUE
    ByteMod = 2
    ByteBits = 1
    RAM_START = 32
    RAM_SIZE = 12
    ROM_SIZE = 16
    MAX_CYCLES = 20
    CsrLatency = 0
    Alphabet <- RV64Alphabet
    Programs <- RV64Programs
    Images <- MCImages
    Decode <- MCDecode
    ALU <- MCALU
    ALUW <- MCALUW
    MUL_DIV <- MCMUL_DIV
    MUL_DIVW <- MCMUL_DIVW
SPECIFICATION PipeSpec
INVARIANTS
    HostAccessInBounds
PROPERTIES
    HartSpec
    StallsSuffice
CHECK_DEADLOCK FALSE
