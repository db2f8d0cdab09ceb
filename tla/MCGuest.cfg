\* RV32 without 'M', bytes of six values: registers of 1296, pages of 16.
CONSTANTS
    RV64 = FALSE
    M_EXT = FALSE
    ByteMod = 6
    RAM_START = 296
    RAM_SIZE = 56
    ROM_SIZE = 296
    MAX_CYCLES = 2000
    GP_OFFSET = 8
    Layouts <- MCLayouts
    ImageOf <- MCImageOf
    Images <- MCImages
    Decode <- MCDecode
    ALU <- MCALU
    ALUW <- MCALUW
    MUL_DIV <- MCMUL_DIV
    MUL_DIVW <- MCMUL_DIVW
SPECIFICATION GuestSpec
INVARIANTS
    MemoryReady
    CountersNotTorn
    OutputDelivered
PROPERTIES
    StartUpSpec
    CounterLoops
    GuestExits
CHECK_DEADLOCK FALSE
