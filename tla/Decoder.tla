--------------------------------- MODULE Decoder ---------------------------------
(***************************************************************************)
(* The fields of an instruction word: the GET_ macros of inc/riscv.h, and  *)
(* the choice among them that the cases of process_instr make.  It is the  *)
(* program's value of the constant Decode of Isa, at full width: a uint32_t *)
(* is the set of the positions of its one bits, so that masks, shifts and  *)
(* unions of the macros are operations on sets.                            *)
(***************************************************************************)
EXTENDS Integers, FiniteSetsExt

CONSTANT RV64      \* the word opcodes are compiled in

ASSUME RV64Assumption == RV64 \in BOOLEAN

Positions == 0 .. 31
uint32_t  == SUBSET Positions

\* w >> k and w << k of an uint32_t.
Shr(w, k) == {b \in Positions : b + k \in w}
Shl(w, k) == {b \in Positions : b - k \in w}

\* SRAW for a shift that is not zero: the or of a logical shift and a mask.
SRAW(w, sh) == Shr(w, sh) \cup (IF 31 \in w THEN (32 - sh) .. 31 ELSE {})

-----------------------------------------------------------------------------
GET_OPCODE(w) == w \cap 0 .. 6
GET_RS1(w)    == Shr(w \cap 15 .. 19, 15)
GET_RS2(w)    == Shr(w \cap 20 .. 24, 20)
GET_RD(w)     == Shr(w \cap 7 .. 11, 7)
GET_FUNCT3(w) == Shr(w \cap 12 .. 14, 12)
GET_IMM12(w)  == Shr(w \cap 20 .. 31, 20)

CHECK_FUNCT7_BIT0(w) == 25 \in w
CHECK_FUNCT7_BIT5(w) == 30 \in w

GET_SIMM12(w) == SRAW(w \cap 20 .. 31, 20)
GET_SIMM20(w) == w \cap 12 .. 31

\* Mutant: the bit of the sign is taken for bit 11 of a branch as of a load.
BranchImmUnscrambled(w) ==
    SRAW((w \cap {31}) \cup Shr(w \cap {31}, 1) \cup Shr(w \cap 25 .. 30, 1)
           \cup Shl(w \cap 8 .. 11, 12), 19)

GET_BRANCH_IMM(w) ==
    SRAW((w \cap {31}) \cup Shl(w \cap {7}, 23) \cup Shr(w \cap 25 .. 30, 1)
           \cup Shl(w \cap 8 .. 11, 12), 19)

\* Mutant: bit 11 of a jump is shifted by one place too many.
JalImmShifted(w) ==
    SRAW((w \cap {31}) \cup Shl(w \cap 12 .. 19, 11) \cup Shl(w \cap {20}, 3)
           \cup Shr(w \cap 21 .. 30, 9), 11)

GET_JAL_IMM(w) ==
    SRAW((w \cap {31}) \cup Shl(w \cap 12 .. 19, 11) \cup Shl(w \cap {20}, 2)
           \cup Shr(w \cap 21 .. 30, 9), 11)

GET_STORE_IMM(w) == SRAW((w \cap 25 .. 31) \cup Shl(w \cap 7 .. 11, 13), 20)

-----------------------------------------------------------------------------
\* The value of an unsigned field, and of an int32_t; the sum stays within the
\* width because the weight of bit 31 is negative.
Unsigned(s) == MapThenSumSet(LAMBDA b : 2 ^ b, s)
Int32(s) == IF 31 \in s THEN (Unsigned(s \ {31}) - 2 ^ 30) - 2 ^ 30 ELSE Unsigned(s)

\* The cases of the switch over the opcode.
OpcodeName(n) ==
    CASE n = 51  -> "OP_RTYPE"
      [] n = 19  -> "OP_IMM"
      [] n = 59 /\ RV64 -> "OP_RTYPEW"
      [] n = 27 /\ RV64 -> "OP_IMMW"
      [] n = 3   -> "OP_LOAD"
      [] n = 35  -> "OP_STORE"
      [] n = 99  -> "OP_BRANCH"
      [] n = 15  -> "OP_FENCE"
      [] n = 23  -> "OP_AUIPC"
      [] n = 55  -> "OP_LUI"
      [] n = 111 -> "OP_JAL"
      [] n = 103 -> "OP_JALR"
      [] n = 115 -> "OP_SYS"
      [] OTHER   -> "OP_OTHER"

\* The macro that each case uses for its immediate.
ImmediateBits(name, w) ==
    CASE name \in {"OP_IMM", "OP_IMMW", "OP_LOAD", "OP_JALR"} -> GET_SIMM12(w)
      [] name = "OP_STORE"  -> GET_STORE_IMM(w)
      [] name = "OP_BRANCH" -> GET_BRANCH_IMM(w)
      [] name \in {"OP_AUIPC", "OP_LUI"} -> GET_SIMM20(w)
      [] name = "OP_JAL"    -> GET_JAL_IMM(w)
      [] OTHER -> {}

\* The fields of a word; the immediate is an sreg_t.
Fields(w) ==
    LET name == OpcodeName(Unsigned(GET_OPCODE(w)))
    IN  [opcode |-> name,
         funct3 |-> Unsigned(GET_FUNCT3(w)),
         rs1    |-> Unsigned(GET_RS1(w)),
         rs2    |-> Unsigned(GET_RS2(w)),
         rd     |-> Unsigned(GET_RD(w)),
         imm    |-> Int32(ImmediateBits(name, w)),
         uimm   |-> Unsigned(GET_IMM12(w)),
         bit0   |-> CHECK_FUNCT7_BIT0(w),
         bit5   |-> CHECK_FUNCT7_BIT5(w)]

-----------------------------------------------------------------------------
(* The instruction formats of the architecture *)

\* Where bit k of the immediate of a format is in the word; -1 for a zero bit.
\* Bits above the immediate repeat its sign, bit 31 of the word.
ImmI == [k \in Positions |-> IF k < 11 THEN k + 20 ELSE 31]
ImmS == [k \in Positions |-> IF k < 5 THEN k + 7 ELSE IF k < 11 THEN k + 20 ELSE 31]
ImmB == [k \in Positions |-> IF k = 0 THEN -1 ELSE IF k < 5 THEN k + 7
                             ELSE IF k < 11 THEN k + 20 ELSE IF k = 11 THEN 7 ELSE 31]
ImmU == [k \in Positions |-> IF k < 12 THEN -1 ELSE k]
ImmJ == [k \in Positions |-> IF k = 0 THEN -1 ELSE IF k < 11 THEN k + 20
                             ELSE IF k = 11 THEN 20 ELSE IF k < 20 THEN k ELSE 31]

Scattered(imm, w) == {k \in Positions : imm[k] \in w \cap Positions}

\* The macros that put an immediate together, bit 11 of a branch and of a jump
\* included, read every bit from where the format has it, in every word.
ImmediatesScattered(w) ==
    /\ GET_SIMM12(w) = Scattered(ImmI, w)
    /\ GET_STORE_IMM(w) = Scattered(ImmS, w)
    /\ GET_BRANCH_IMM(w) = Scattered(ImmB, w)
    /\ GET_SIMM20(w) = Scattered(ImmU, w)
    /\ GET_JAL_IMM(w) = Scattered(ImmJ, w)

=============================================================================
