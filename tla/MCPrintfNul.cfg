SPECIFICATION Spec
CONSTANTS
    NUL = NUL
    Fill = old
    NULL = NULL
    Char <- MCChar
    Sizes = {6}
    Cells <- MCCells
    PRINTF_MAX_POSSIBLE_BUFFER_SIZE = 127
    Calls <- NulCalls
    CharMod = 16
    ShortMod = 64
    LongMod = 256
    LongLongMod = 65536
    PtrSize = 1
    SizeFlag = "INT"
    IntmaxFlag = "LONG_LONG"
    PRINTF_INTEGER_BUFFER_SIZE = 8
CHECK_DEADLOCK FALSE
INVARIANT NoNulPut
