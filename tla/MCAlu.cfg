\* RV64 with bytes of one bit: registers of 8 bits, words of 4.
CONSTANTS
    RV64 = TRUE
    M_EXT = TRUE
    ByteMod = 2
    ByteBits = 1
    RAM_START = 32
    RAM_SIZE = 8
    ROM_SIZE = 16
    MAX_CYCLES = 8
SPECIFICATION Spec
INVARIANTS
    ArithmeticShift
    DivisionIsEuclidean
    ProductHalves
    SoftwareProductAgrees
    WordResults
