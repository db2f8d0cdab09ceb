----------------------------------- MODULE Asm -----------------------------------
(***************************************************************************)
(* Programs for the instances of Core: instructions by their mnemonic and   *)
(* operands, and the bytes of a sequence of words.                          *)
(***************************************************************************)
EXTENDS Isa, Sequences

Unknown == [opcode |-> "OP_OTHER", funct3 |-> 0, rs1 |-> 0, rs2 |-> 0, rd |-> 0,
            imm |-> 0, uimm |-> 0, bit0 |-> FALSE, bit5 |-> FALSE]

R(f3, d, s1, s2)   == [Unknown EXCEPT !.opcode = "OP_RTYPE", !.funct3 = f3, !.rd = d,
                                      !.rs1 = s1, !.rs2 = s2]
RW(f3, d, s1, s2)  == [R(f3, d, s1, s2) EXCEPT !.opcode = "OP_RTYPEW"]
Bit0(i)            == [i EXCEPT !.bit0 = TRUE]
Bit5(i)            == [i EXCEPT !.bit5 = TRUE]
Op(op, f3, d, s1, n) == [Unknown EXCEPT !.opcode = op, !.funct3 = f3, !.rd = d,
                                        !.rs1 = s1, !.imm = Wrap(n)]
Addi(d, s1, n)     == Op("OP_IMM", 0, d, s1, n)
Lw(f3, d, s1, n)   == Op("OP_LOAD", f3, d, s1, n)
Sw(f3, s2, s1, n)  == [Op("OP_STORE", f3, 0, s1, n) EXCEPT !.rs2 = s2]
Br(f3, s1, s2, n)  == [Op("OP_BRANCH", f3, 0, s1, n) EXCEPT !.rs2 = s2]
Sys(f3, d, s1, u)  == [Op("OP_SYS", f3, d, s1, 0) EXCEPT !.uimm = u]

\* The bytes of a program, a sequence of words.
Encode(program) ==
    [n \in 1 .. 4 * Len(program) |->
        (program[(n + 3) \div 4] \div Scale((n - 1) % 4)) % ByteMod]

=============================================================================
