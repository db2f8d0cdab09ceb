\* As MCCore32, for programs that end near the limit: RV32 without 'M', bytes of two bits: registers of 8 bits.
CONSTANTS
    RV64 = FALSE
    M_EXT = FALSE
    ByteMod = 4
    ByteBits = 2
    RAM_START = 32
    RAM_SIZE = 8
    ROM_SIZE = 16
    MAX_CYCLES = 8
    Alphabet <- RV32Alphabet
    Programs <- LimitPrograms
    Images <- MCImages
    Decode <- MCDecode
    ALU <- MCALU
    ALUW <- MCALUW
    MUL_DIV <- MCMUL_DIV
    MUL_DIVW <- MCMUL_DIVW
SPECIFICATION Spec
INVARIANTS
    LimitMeansNoExit
CHECK_DEADLOCK FALSE
