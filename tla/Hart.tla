---------------------------------- MODULE Hart ----------------------------------
(***************************************************************************)
(* What a guest program is promised: a RISC-V hart without a clock.  There *)
(* are 31 registers, x0 reads as zero, memory is one partial map of bytes, *)
(* and an access takes place only if every byte it names is mapped.  There *)
(* is no pipeline and no cycle counter: a counter read may return anything *)
(* and the host may stop the hart between any two instructions.  Core is   *)
(* shown to implement this, so its timing model has no effect on a program *)
(* but through those two.                                                  *)
(***************************************************************************)
EXTENDS Isa, Sequences

VARIABLES
    mem,      \* address -> byte, over the mapped addresses
    x,        \* the registers x1 .. x31
    pc,
    mode,     \* "reset", "running" or "halted"
    out       \* the bytes printed

hartVars == <<mem, x, pc, mode, out>>

RomAddrs == 0 .. ROM_SIZE - 1
RamAddrs == RAM_START .. RAM_START + RAM_SIZE - 1
Mapped   == RomAddrs \cup RamAddrs

Init ==
    /\ mem = [m \in Mapped |-> 0]
    /\ x = [r \in Reg \ {0} |-> 0]
    /\ pc = 0
    /\ mode = "reset"
    /\ out = <<>>

X(r) == IF r = 0 THEN 0 ELSE x[r]

-----------------------------------------------------------------------------
\* The bytes of an access, in one region or the access is void.
Width(op) == CASE op \in {MEM_B, MEM_BU} -> 1
               [] op \in {MEM_H, MEM_HU} -> 2
               [] op \in {MEM_W, MEM_WU} -> 4
               [] op = MEM_D -> 8
Span(addr, op) == addr .. addr + Width(op) - 1
CanLoad(addr, op)  == /\ op \in LoadOps
                      /\ Span(addr, op) \subseteq RomAddrs \/ Span(addr, op) \subseteq RamAddrs
CanStore(addr, op) == op \in StoreOps /\ Span(addr, op) \subseteq RamAddrs

\* The value loaded: bytes of rising addresses weigh more, and the signed widths
\* are sign-extended.  The bytes are those of Bus, at addresses instead of indices.
LoadValue(addr, op) == Loaded(mem, addr, op)

Word32 == IF CanLoad(pc, MEM_W) THEN LoadValue(pc, MEM_W) % WordMod ELSE 0

I == Decode(Word32)
A == X(I.rs1)
B == X(I.rs2)
Ea == Wrap(A + I.imm)
Next4 == Wrap(pc + 4)

\* The value an instruction gives its target register.
Value(counter) ==
    LET old == X(I.rd)
    IN  CASE I.opcode = "OP_RTYPE"  -> RTypeResult(I, A, B, old)
          [] I.opcode = "OP_RTYPEW" -> RTypeWResult(I, A, B, old)
          [] I.opcode = "OP_IMM"    -> ImmResult(I, A)
          [] I.opcode = "OP_IMMW"   -> ImmWResult(I, A, old)
          [] I.opcode = "OP_LOAD"   ->
                 IF CanLoad(Ea, I.funct3) THEN LoadValue(Ea, I.funct3) ELSE old
          [] I.opcode = "OP_AUIPC"  -> Wrap(pc + I.imm)
          [] I.opcode = "OP_LUI"    -> I.imm
          [] I.opcode \in {"OP_JAL", "OP_JALR"} -> Next4
          [] I.opcode = "OP_SYS"    -> IF I.funct3 \in {0, 4} THEN old ELSE counter
          [] OTHER -> old

Target ==
    CASE I.opcode = "OP_JAL"  -> Wrap(pc + I.imm)
      [] I.opcode = "OP_JALR" -> Ea - (Ea % 2)
      [] I.opcode = "OP_BRANCH" /\ BranchTaken(I, A, B) -> Wrap(pc + I.imm)
      [] OTHER -> Next4

\* The registers after a write of val to rd: only x1 .. x31 can change, and only
\* for the formats that have a target.
Written(val) ==
    IF I.rd = 0 \/ I.opcode \in {"OP_STORE", "OP_BRANCH", "OP_FENCE", "OP_OTHER"} THEN x
    ELSE [x EXCEPT ![I.rd] = val]

Stored ==
    IF I.opcode = "OP_STORE" /\ CanStore(Ea, I.funct3)
    THEN [m \in Mapped |-> IF m \in Span(Ea, I.funct3)
                           THEN (B \div Scale(m - Ea)) % ByteMod ELSE mem[m]]
    ELSE mem

IsEnv    == I.opcode = "OP_SYS" /\ I.funct3 = 0
Exits    == IsEnv /\ (I.uimm = 1 \/ X(A0) = E_EXIT)
Prints   == IsEnv /\ I.uimm # 1 /\ X(A0) = E_CHAR

-----------------------------------------------------------------------------
\* The reset puts some image in the ROM; the hart may also never start.
Start ==
    /\ mode = "reset"
    /\ mem' \in [Mapped -> Byte]
    /\ \A m \in RamAddrs : mem'[m] = mem[m]
    /\ mode' = "running"
    /\ UNCHANGED <<x, pc, out>>

\* One instruction, all of whose effects depend on the state before it.
Step ==
    /\ mode = "running"
    /\ Word32 # 0
    /\ \E counter \in Word : x' = Written(Value(counter))
    /\ mem' = Stored
    /\ pc' = Target
    /\ mode' = IF Exits THEN "halted" ELSE "running"
    /\ out' = IF Prints THEN Append(out, X(A1) % ByteMod) ELSE out

Halt ==
    /\ mode # "halted"
    /\ mode' = "halted"
    /\ UNCHANGED <<mem, x, pc, out>>

Next == Start \/ Step \/ Halt

Spec == Init /\ [][Next]_hartVars

=============================================================================
