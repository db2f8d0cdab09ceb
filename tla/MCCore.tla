---------------------------------- MODULE MCCore ----------------------------------
(***************************************************************************)
(* Instances of Core for TLC.  A run fixes an alphabet of instructions; the *)
(* word k, stored little-endian in the ROM, is the k-th of them, and every  *)
(* other word has an unknown opcode.  The images are all programs up to a   *)
(* length over some parts of the alphabet, so TLC runs every one of them.   *)
(***************************************************************************)
EXTENDS Core, Asm

CONSTANTS ByteBits, Alphabet, Programs

Arith == INSTANCE Alu
MCALU(op, a, b)      == Arith!alu(op, a, b)
MCALUW(op, a, b)     == Arith!aluw(op, a, b)
MCMUL_DIV(op, a, b)  == Arith!muldiv(op, a, b)
MCMUL_DIVW(op, a, b) == Arith!muldivw(op, a, b)

MCDecode(w) == IF w \in DOMAIN Alphabet THEN Alphabet[w] ELSE Unknown

MCImages == {Encode(p) : p \in Programs}

\* All programs of 1 to n words of a set.
Over(words, n) == UNION {[1 .. k -> words] : k \in 1 .. n}

-----------------------------------------------------------------------------
(* Alphabets and programs *)

\* RV32, words 1 .. 12: control flow, calls of the environment, counters.
Control ==
    <<Addi(10, 0, 10), Addi(10, 10, 1), Sys(0, 0, 0, 0), Sys(0, 0, 0, 1),
      Op("OP_JAL", 0, 1, 0, -4), Op("OP_JALR", 0, 10, 10, 0), Op("OP_JALR", 0, 1, 1, -2),
      Br(1, 10, 1, -4), Br(5, 10, 0, 8), Sys(2, 10, 0, 3072), Sys(1, 0, 10, 2818),
      Op("OP_AUIPC", 0, 1, 0, 16)>>

\* RV32, words 13 .. 24: memory, and jumps into what was stored there.
Memory ==
    <<Op("OP_LUI", 0, 5, 0, 32), Addi(5, 5, 3), Addi(6, 0, 13), Sw(2, 6, 5, 0),
      Sw(1, 5, 5, 1), Lw(2, 6, 5, 0), Lw(0, 6, 5, 1), Lw(5, 5, 6, -1),
      Br(0, 6, 5, -4), Op("OP_JALR", 0, 0, 5, 0), Op("OP_JAL", 0, 0, 0, -8),
      R(0, 6, 5, 6)>>

\* RV32, words 25 .. 33: the rest of the opcodes and of their default cases.
Rest ==
    <<Op("OP_FENCE", 0, 0, 0, 0), Sys(4, 1, 1, 0), Bit5(R(5, 6, 6, 10)),
      Bit5(R(1, 6, 6, 10)), Lw(3, 6, 5, 0), Sw(3, 6, 5, 0), Sys(6, 0, 1, 3200),
      Br(2, 0, 0, 8), Sys(0, 0, 6, 288)>>

RV32Alphabet == Control \o Memory \o Rest
RV32Programs ==
    Over(1 .. 12, 3) \cup Over(13 .. 24, 3) \cup Over(25 .. 32, 2)
      \cup Over({13, 14, 16, 18, 21, 23}, 4) \cup [1 .. 5 -> {5, 16}]
      \cup [1 .. 3 -> {18, 33}]

\* Calls of the environment after some cycles of work.
LimitPrograms == [1 .. 4 -> {1, 2, 3, 9}]

\* RV64, words 1 .. 15: wide memory accesses, word arithmetic and the M extension.
RV64Alphabet ==
    <<Op("OP_LUI", 0, 5, 0, 32), Addi(5, 5, 3), Sw(3, 6, 5, 0), Lw(3, 6, 5, 1),
      Lw(6, 6, 5, 0), Lw(2, 5, 6, -1), RW(0, 6, 6, 5), Op("OP_IMMW", 0, 6, 6, -1),
      Bit0(RW(0, 6, 6, 6)), Bit0(R(4, 6, 5, 6)), Br(6, 6, 5, -4), Op("OP_JAL", 0, 1, 0, -8),
      Sys(2, 6, 0, 3200), Bit5(RW(1, 6, 5, 5)), Op("OP_JALR", 0, 1, 5, 2)>>
RV64Programs == Over(1 .. 15, 3) \cup Over({1, 3, 4, 6, 8}, 4)

=============================================================================
