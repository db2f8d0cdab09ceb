\* As core_rv32, and a branch has to wait for a counter as for any other result.
CONSTANTS
    RV64 = FALSE
    M_EXT = FALSE
    ByteMod = 4
    ByteBits = 2
    RAM_START = 32
    RAM_SIZE = 8
    ROM_SIZE = 16
    MAX_CYCLES = 20
    CsrLatency = 1
    Alphabet <- RV32Alphabet
    Programs <- CsrPrograms
    Images <- MCImages
    Decode <- MCDecode
    ALU <- MCALU
    ALUW <- MCALUW
    MUL_DIV <- MCMUL_DIV
    MUL_DIVW <- MCMUL_DIVW
SPECIFICATION PipeSpec
PROPERTY
    StallsSuffice
CHECK_DEADLOCK FALSE
