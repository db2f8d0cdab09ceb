-------------------------------- MODULE MCDecoder --------------------------------
(***************************************************************************)
(* An assembler writes an instruction down in the format of its opcode,    *)
(* and the decoder reads it.                                               *)
(***************************************************************************)
EXTENDS Decoder

VARIABLES source, word      \* the instruction, and its word once assembled

BitsOf(n) == {k \in 0 .. 30 : (n \div 2 ^ k) % 2 = 1} \cup (IF n < 0 THEN {31} ELSE {})

At(n, place) == {b + place : b \in BitsOf(n)}

\* An immediate put in its places.
Placed(n, imm) == {imm[k] : k \in BitsOf(n)} \ {-1}

Formats == [R |-> {"OP_RTYPE", "OP_RTYPEW"}, I |-> {"OP_IMM", "OP_IMMW", "OP_LOAD", "OP_JALR"},
            S |-> {"OP_STORE"}, B |-> {"OP_BRANCH"}, U |-> {"OP_LUI", "OP_AUIPC"},
            J |-> {"OP_JAL"}, C |-> {"OP_SYS"}, N |-> {"OP_FENCE", "OP_OTHER"}]
FormatOf(op) == CHOOSE f \in DOMAIN Formats : op \in Formats[f]

\* The fields that a format has.
FieldsOf == [R |-> {"funct3", "rs1", "rs2", "rd", "bit0", "bit5"}, I |-> {"funct3", "rs1", "rd", "imm"},
             S |-> {"funct3", "rs1", "rs2", "imm"}, B |-> {"funct3", "rs1", "rs2", "imm"},
             U |-> {"rd", "imm"}, J |-> {"rd", "imm"}, C |-> {"funct3", "rs1", "rd", "uimm"}, N |-> {}]

CodeOf == [OP_RTYPE |-> 51, OP_IMM |-> 19, OP_RTYPEW |-> 59, OP_IMMW |-> 27, OP_LOAD |-> 3,
           OP_STORE |-> 35, OP_BRANCH |-> 99, OP_FENCE |-> 15, OP_AUIPC |-> 23, OP_LUI |-> 55,
           OP_JAL |-> 111, OP_JALR |-> 103, OP_SYS |-> 115, OP_OTHER |-> 47]

Assemble(i) ==
    LET f == FormatOf(i.opcode)
        has(name, bits) == IF name \in FieldsOf[f] THEN bits ELSE {}
    IN  UNION {At(CodeOf[i.opcode], 0),
               has("rd", At(i.rd, 7)), has("funct3", At(i.funct3, 12)),
               has("rs1", At(i.rs1, 15)), has("rs2", At(i.rs2, 20)),
               has("bit0", IF i.bit0 THEN {25} ELSE {}), has("bit5", IF i.bit5 THEN {30} ELSE {}),
               has("uimm", At(i.uimm, 20)),
               CASE f = "I" -> Placed(i.imm, ImmI)
                 [] f = "S" -> Placed(i.imm, ImmS)
                 [] f = "B" -> Placed(i.imm, ImmB)
                 [] f = "U" -> Placed(i.imm, ImmU)
                 [] f = "J" -> Placed(i.imm, ImmJ)
                 [] OTHER   -> {}}

-----------------------------------------------------------------------------
Ins(op, f3, d, s1, s2, n, u, b0, b5) ==
    [opcode |-> op, funct3 |-> f3, rd |-> d, rs1 |-> s1, rs2 |-> s2, imm |-> n, uimm |-> u,
     bit0 |-> b0, bit5 |-> b5]

Reg == 0 .. 31

\* Every register in every place, every 12-bit immediate of each format that has
\* one, and for the longer ones each bit alone, the runs of ones, and their signs.
Runs(lo, hi) == UNION {{2 ^ k, -(2 ^ k), 2 ^ k - 2 ^ lo, 2 ^ lo - 2 ^ k} : k \in lo .. hi - 1}
                  \cup {2 ^ j - 2 ^ k : j \in lo .. hi - 1, k \in lo .. hi - 1}
Program ==
    {Ins(op, f3, d, s1, s2, 0, 0, b0, b5) :
        op \in Formats.R, f3 \in {0, 5, 7}, d \in Reg, s1 \in {0, 11, 21}, s2 \in {10, 31},
        b0 \in BOOLEAN, b5 \in BOOLEAN}
    \cup {Ins("OP_RTYPE", 2, 10, s1, s2, 0, 0, FALSE, FALSE) : s1 \in Reg, s2 \in Reg}
    \cup {Ins(op, 4, 21, 10, 27, n, 0, FALSE, FALSE) :
        op \in {"OP_IMM", "OP_LOAD", "OP_STORE"}, n \in -2048 .. 2047}
    \cup {Ins(op, 1, 26, 9, 0, n, 0, FALSE, FALSE) :
        op \in {"OP_IMMW", "OP_JALR"}, n \in Runs(0, 11) \cup {-2048}}
    \cup {Ins("OP_BRANCH", 5, 0, 22, 13, 2 * n, 0, FALSE, FALSE) : n \in -2048 .. 2047}
    \cup {Ins("OP_JAL", 0, d, 0, 0, n, 0, FALSE, FALSE) :
        d \in {0, 1, 31}, n \in Runs(1, 20) \cup {-(2 ^ 20)}}
    \cup {Ins(op, 0, d, 0, 0, n, 0, FALSE, FALSE) :
        op \in Formats.U, d \in {0, 17}, n \in Runs(12, 31) \cup {(-(2 ^ 30)) - (2 ^ 30)}}
    \cup {Ins("OP_SYS", f3, 6, 18, 0, 0, u, FALSE, FALSE) :
        f3 \in 0 .. 7, u \in {0, 1, 2816, 2818, 2944, 2946, 3072, 3074, 3200, 3202, 4095}}
    \cup {Ins(op, 0, 0, 0, 0, 0, 0, FALSE, FALSE) : op \in Formats.N}

Init == source \in Program /\ word = {}
Next == word = {} /\ word' = Assemble(source) /\ UNCHANGED source
Spec == Init /\ [][Next]_<<source, word>>

-----------------------------------------------------------------------------
\* The macros of inc/riscv.h, and the choice among them in process_instr, invert
\* the assembler: every field that a format has, and the signed immediate that
\* it scatters over the word, come back.
DecoderInvertsAssembler ==
    word # {} =>
        LET got == Fields(word)
        IN  /\ got.opcode = source.opcode
            /\ \A f \in FieldsOf[FormatOf(source.opcode)] : got[f] = source[f]

\* The immediates of the word, whatever its format, are read bit by bit from
\* where the formats have them (GET_SIMM12 to GET_STORE_IMM).
ImmediatesFromFormat == ImmediatesScattered(word)

=============================================================================
