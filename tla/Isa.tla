----------------------------------- MODULE Isa -----------------------------------
(***************************************************************************)
(* The instruction set as process_instr (src/cpu/core.c) sees it: decoded  *)
(* instructions, and the arithmetic unit.  Both are parameters here.       *)
(*                                                                         *)
(*  - Decode maps a 32-bit word to its fields, as the GET_ macros of       *)
(*    inc/riscv.h do.  The instances checked by TLC have words of few      *)
(*    values and decode them with a table, the alphabet of a run.          *)
(*  - ALU, ALUW, MUL_DIV and MUL_DIVW compute what the switches over aluop *)
(*    and funct3 assign to the target register.  Alu.tla translates them.  *)
(*                                                                         *)
(* What is proved about Core holds for every decoder and every arithmetic  *)
(* unit that return values of the right type.                              *)
(***************************************************************************)
EXTENDS Bus

CONSTANTS
    Decode(_),           \* word -> Instruction
    ALU(_, _, _),        \* aluop, operand, operand -> reg_t
    ALUW(_, _, _),       \* the same for the word instructions of RV64
    MUL_DIV(_, _, _),    \* funct3, operand, operand -> reg_t
    MUL_DIVW(_, _, _)

\* OP_OTHER stands for every opcode that falls to the default case, which on
\* RV32 includes the two word opcodes.
Opcodes == {"OP_RTYPE", "OP_IMM", "OP_LOAD", "OP_STORE", "OP_BRANCH", "OP_FENCE",
            "OP_AUIPC", "OP_LUI", "OP_JAL", "OP_JALR", "OP_SYS", "OP_OTHER"}
             \cup (IF RV64 THEN {"OP_RTYPEW", "OP_IMMW"} ELSE {})

\* The fields of an instruction word: the immediate of its format as a reg_t,
\* the unsigned 12-bit field of OP_SYS, and bits 0 and 5 of funct7.
Instruction == [opcode : Opcodes, funct3 : 0 .. 7, rs1 : Reg, rs2 : Reg, rd : Reg,
                imm : Word, uimm : 0 .. 4095, bit0 : BOOLEAN, bit5 : BOOLEAN]

\* The values of aluop and funct3 that the switches have a case for.
ALU_SRL == 5
ALU_SRA == 13
AluOps     == 0 .. 8 \cup {ALU_SRA}
AluOpsW    == {0, 1, 5, 8, 13}
ImmOpsW    == {0, 1, 5}
MulDivOps  == 0 .. 7
MulDivOpsW == {0, 4, 5, 6, 7}

ASSUME DecodeAssumption == \A w \in 0 .. WordMod - 1 : Decode(w) \in Instruction

ASSUME AluAssumption ==
    \A a, b \in Word :
        /\ \A op \in AluOps    : ALU(op, a, b) \in Word
        /\ \A op \in MulDivOps : M_EXT => MUL_DIV(op, a, b) \in Word
        /\ RV64 => /\ \A op \in AluOpsW    : ALUW(op, a, b) \in Word
                   /\ \A op \in MulDivOpsW : M_EXT => MUL_DIVW(op, a, b) \in Word

-----------------------------------------------------------------------------
\* aluop of a register instruction, and of an immediate one, whose bit 5 only
\* tells the two right shifts apart.
RegAluop(i) == (IF i.bit5 THEN 8 ELSE 0) + i.funct3
ImmAluop(i) == IF i.bit5 /\ i.funct3 = ALU_SRL THEN ALU_SRA ELSE i.funct3

\* What OP_RTYPE and OP_RTYPEW assign to regfile[rd], of old value old, when the
\* sources hold a and b: the default cases leave it alone.
RTypeResult(i, a, b, old) ==
    IF M_EXT /\ i.bit0 THEN MUL_DIV(i.funct3, a, b)
    ELSE IF RegAluop(i) \in AluOps THEN ALU(RegAluop(i), a, b)
    ELSE old
RTypeWResult(i, a, b, old) ==
    IF M_EXT /\ i.bit0
    THEN IF i.funct3 \in MulDivOpsW THEN MUL_DIVW(i.funct3, a, b) ELSE old
    ELSE IF RegAluop(i) \in AluOpsW THEN ALUW(RegAluop(i), a, b)
    ELSE old

\* The same for OP_IMM and OP_IMMW.
ImmResult(i, a) == ALU(ImmAluop(i), a, i.imm)
ImmWResult(i, a, old) ==
    IF i.funct3 \in ImmOpsW THEN ALUW(ImmAluop(i), a, i.imm) ELSE old

\* The condition of OP_BRANCH; two values of funct3 have no case.
BranchTaken(i, a, b) ==
    \/ i.funct3 = 0 /\ a = b
    \/ i.funct3 = 1 /\ a # b
    \/ i.funct3 = 4 /\ Signed(a) < Signed(b)
    \/ i.funct3 = 5 /\ Signed(a) >= Signed(b)
    \/ i.funct3 = 6 /\ a < b
    \/ i.funct3 = 7 /\ a >= b

=============================================================================
