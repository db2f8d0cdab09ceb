SPECIFICATION GadgetSpec
CONSTANTS
    NUL = NUL
    Fill = old
    Char = {a, NUL, old}
    PRINTF_MAX_POSSIBLE_BUFFER_SIZE = 3
    Sizes <- MCSizes
    Cells <- MCCells
    MaxText = 9
CONSTRAINT ShortText
CHECK_DEADLOCK FALSE
PROPERTY OutputSpec
INVARIANT GadgetTypeOK
