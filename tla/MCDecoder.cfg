CONSTANT RV64 = TRUE
SPECIFICATION Spec
INVARIANTS
    DecoderInvertsAssembler
    ImmediatesFromFormat
CHECK_DEADLOCK FALSE
