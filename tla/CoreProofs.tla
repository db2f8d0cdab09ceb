------------------------------- MODULE CoreProofs -------------------------------
(***************************************************************************)
(* Theorems about Core, for every decoder, arithmetic unit, image, memory  *)
(* size and cycle limit that the assumptions of Arch, Isa and Core allow.  *)
(* The last part shows that Core implements Hart: one lemma for each       *)
(* variable of Hart that an instruction changes, then one for each group   *)
(* of actions of Core.  The instance H has its own copies of the operators *)
(* of Isa; the first lemmas of that part say that they are the same.       *)
(***************************************************************************)
EXTENDS Core, TLAPS

-----------------------------------------------------------------------------
(* Arithmetic *)

\* A remainder is below its divisor: every % of the model is one by a positive
\* number.
LEMMA ModInRange ==
    ASSUME NEW n \in Int, NEW m \in Nat, m > 0
    PROVE  n % m \in 0 .. m - 1
  OBVIOUS

\* Two digits of base m make a number below m * m.
LEMMA TwoDigits ==
    ASSUME NEW m \in Nat, m > 0, NEW hi \in 0 .. m - 1, NEW lo \in 0 .. m - 1
    PROVE  hi * m + lo \in 0 .. m * m - 1
  <1>1. hi * m <= (m - 1) * m
    OBVIOUS
  <1>2. (m - 1) * m = m * m - m
    OBVIOUS
  <1>3. hi * m >= 0 /\ hi * m \in Int /\ m * m \in Int
    OBVIOUS
  <1> QED BY <1>1, <1>2, <1>3

\* A square is at least its root.
LEMMA SquareGrows ==
    ASSUME NEW m \in Nat, m >= 2
    PROVE  m * m \in Nat /\ m * m >= 2 * m
  OBVIOUS

\* The moduli of the machine grow with the widths they belong to.
LEMMA Moduli ==
    /\ ByteMod \in Nat /\ HalfMod \in Nat /\ WordMod \in Nat /\ RegMod \in Nat
    /\ 2 <= ByteMod /\ ByteMod <= HalfMod /\ HalfMod <= WordMod /\ WordMod <= RegMod
    /\ 11 < RegMod
    /\ RV64 => RegMod = WordMod * WordMod
  <1>1. ByteMod \in Nat /\ ByteMod >= 2 /\ RegMod > 11 /\ RV64 \in BOOLEAN
    BY ArchAssumption
  <1>2. HalfMod \in Nat /\ HalfMod >= 2 * ByteMod
    BY <1>1, SquareGrows DEF HalfMod
  <1>3. WordMod \in Nat /\ WordMod >= 2 * HalfMod
    BY <1>1, <1>2, SquareGrows DEF WordMod
  <1>4. WordMod * WordMod \in Nat /\ WordMod * WordMod >= 2 * WordMod
    BY <1>1, <1>2, <1>3, SquareGrows
  <1> QED BY <1>1, <1>2, <1>3, <1>4 DEF RegMod

\* The conversion to reg_t gives a reg_t.
LEMMA WrapType ==
    ASSUME NEW n \in Int
    PROVE  Wrap(n) \in Word
  BY Moduli, ModInRange DEF Wrap, Word

\* So does a sign extension.
LEMMA SignExtendType ==
    ASSUME NEW n \in Int, NEW m \in Int
    PROVE  SignExtend(n, m) \in Word
  BY WrapType DEF SignExtend

-----------------------------------------------------------------------------
(* The bus *)

\* An access that a check of inc/bus.h lets through names only elements of the
\* array it goes to, whatever the address and the width: the distance the bus
\* checks is the one that the accessors use.
LEMMA AccessInBounds ==
    ASSUME NEW addr \in Word, NEW op, NEW ops \in {LoadOps, StoreOps}
    PROVE  InBounds(addr, op, ops)
  <1>1. Reach(op) \in {0, 1, 3, 7}
    BY DEF Reach
  <1>2. op \in ops => LastByte(op) = Reach(op)
    BY ArchAssumption
    DEF LoadOps, StoreOps, LastByte, Reach, MEM_B, MEM_BU, MEM_H, MEM_HU, MEM_W, MEM_WU, MEM_D
  <1>3. addr \in Nat /\ RAM_START \in Nat /\ RAM_SIZE \in Nat /\ ROM_SIZE \in Nat
    BY Moduli, ArchAssumption DEF Word
  <1>4. RamTouched(addr, op, ops) \subseteq RamCells
    BY <1>1, <1>2, <1>3 DEF RamTouched, InRam, RamCells
  <1>5. RomTouched(addr, op, ops) \subseteq RomCells
    BY <1>1, <1>2, <1>3 DEF RomTouched, InRom, RomCells
  <1> QED BY <1>4, <1>5 DEF InBounds

\* The numbers read from consecutive elements of an array of n bytes.
LEMMA LittleEndianType ==
    ASSUME NEW n \in Nat, NEW mem \in [0 .. n - 1 -> Byte], NEW p \in Nat
    PROVE  /\ p < n => mem[p] \in 0 .. ByteMod - 1
           /\ p + 1 < n => HalfAt(mem, p) \in 0 .. HalfMod - 1
           /\ p + 3 < n => WordAt(mem, p) \in 0 .. WordMod - 1
           /\ p + 7 < n => DwordAt(mem, p) \in 0 .. WordMod * WordMod - 1
  <1>1. ASSUME NEW q \in Nat, q < n
        PROVE  mem[q] \in 0 .. ByteMod - 1
    BY <1>1 DEF Byte
  <1>2. ASSUME NEW q \in Nat, q + 1 < n
        PROVE  HalfAt(mem, q) \in 0 .. HalfMod - 1
    <2>1. mem[q] \in 0 .. ByteMod - 1 /\ mem[q + 1] \in 0 .. ByteMod - 1
      BY <1>1, <1>2
    <2> QED BY <2>1, Moduli, TwoDigits DEF HalfAt, HalfMod
  <1>3. ASSUME NEW q \in Nat, q + 3 < n
        PROVE  WordAt(mem, q) \in 0 .. WordMod - 1
    <2>1. HalfAt(mem, q) \in 0 .. HalfMod - 1 /\ HalfAt(mem, q + 2) \in 0 .. HalfMod - 1
      BY <1>2, <1>3
    <2> QED BY <2>1, Moduli, TwoDigits DEF WordAt, WordMod
  <1>4. ASSUME p + 7 < n
        PROVE  DwordAt(mem, p) \in 0 .. WordMod * WordMod - 1
    <2>1. WordAt(mem, p) \in 0 .. WordMod - 1 /\ WordAt(mem, p + 4) \in 0 .. WordMod - 1
      BY <1>3, <1>4
    <2> QED BY <2>1, Moduli, TwoDigits DEF DwordAt
  <1> QED BY <1>1, <1>2, <1>3, <1>4

\* The arms of Loaded, one by one.
LEMMA LoadedCases ==
    ASSUME NEW mem, NEW p, NEW op
    PROVE  /\ op = MEM_B  => Loaded(mem, p, op) = SignExtend(mem[p], ByteMod)
           /\ op = MEM_BU => Loaded(mem, p, op) = mem[p]
           /\ op = MEM_H  => Loaded(mem, p, op) = SignExtend(HalfAt(mem, p), HalfMod)
           /\ op = MEM_HU => Loaded(mem, p, op) = HalfAt(mem, p)
           /\ op = MEM_W  => Loaded(mem, p, op) = SignExtend(WordAt(mem, p), WordMod)
           /\ op = MEM_WU => Loaded(mem, p, op) = WordAt(mem, p)
           /\ op = MEM_D  => Loaded(mem, p, op) = DwordAt(mem, p)
  BY DEF Loaded, MEM_B, MEM_BU, MEM_H, MEM_HU, MEM_W, MEM_WU, MEM_D

\* A load whose bytes are all in the array gives a register value.
LEMMA LoadedType ==
    ASSUME NEW n \in Nat, NEW mem \in [0 .. n - 1 -> Byte], NEW p \in Nat,
           NEW op \in LoadOps, p + Reach(op) < n
    PROVE  Loaded(mem, p, op) \in Word
  <1>1. CASE op \in {MEM_B, MEM_BU}
    <2>1. Reach(op) = 0
      BY <1>1 DEF Reach, MEM_B, MEM_BU, MEM_H, MEM_HU, MEM_W, MEM_WU, MEM_D
    <2>2. mem[p] \in 0 .. ByteMod - 1
      BY <2>1, LittleEndianType
    <2>3. mem[p] \in Int /\ ByteMod \in Int /\ mem[p] \in Word
      BY <2>2, Moduli DEF Word
    <2>4. SignExtend(mem[p], ByteMod) \in Word
      BY <2>3, SignExtendType
    <2> QED BY <1>1, <2>3, <2>4, LoadedCases
  <1>2. CASE op \in {MEM_H, MEM_HU}
    <2>1. Reach(op) = 1
      BY <1>2 DEF Reach
    <2>2. HalfAt(mem, p) \in 0 .. HalfMod - 1
      BY <2>1, LittleEndianType
    <2>3. HalfAt(mem, p) \in Int /\ HalfMod \in Int /\ HalfAt(mem, p) \in Word
      BY <2>2, Moduli DEF Word
    <2>4. SignExtend(HalfAt(mem, p), HalfMod) \in Word
      BY <2>3, SignExtendType
    <2> QED BY <1>2, <2>3, <2>4, LoadedCases
  <1>3. CASE op \in {MEM_W, MEM_WU}
    <2>1. Reach(op) = 3
      BY <1>3, ArchAssumption
      DEF Reach, LoadOps, MEM_B, MEM_BU, MEM_H, MEM_HU, MEM_W, MEM_WU, MEM_D
    <2>2. WordAt(mem, p) \in 0 .. WordMod - 1
      BY <2>1, LittleEndianType
    <2>3. WordAt(mem, p) \in Int /\ WordMod \in Int /\ WordAt(mem, p) \in Word
      BY <2>2, Moduli DEF Word
    <2>4. SignExtend(WordAt(mem, p), WordMod) \in Word
      BY <2>3, SignExtendType
    <2> QED BY <1>3, <2>3, <2>4, LoadedCases
  <1>4. CASE op = MEM_D
    <2>1. RV64 /\ Reach(op) = 7
      BY <1>4, ArchAssumption
      DEF Reach, LoadOps, MEM_B, MEM_BU, MEM_H, MEM_HU, MEM_W, MEM_WU, MEM_D
    <2>2. DwordAt(mem, p) \in 0 .. WordMod * WordMod - 1
      BY <2>1, LittleEndianType
    <2>3. DwordAt(mem, p) \in Word
      BY <2>1, <2>2, Moduli DEF Word
    <2> QED BY <1>4, <2>3
            DEF Loaded, MEM_B, MEM_BU, MEM_H, MEM_HU, MEM_W, MEM_WU, MEM_D
  <1> QED BY <1>1, <1>2, <1>3, <1>4 DEF LoadOps

\* bus_read returns a register value: what it loads, or what the target held.
LEMMA BusReadType ==
    ASSUME NEW rom_ \in [RomCells -> Byte], NEW ram_ \in [RamCells -> Byte],
           NEW addr \in Word, NEW op, NEW val \in Word
    PROVE  bus_read(rom_, ram_, addr, op, val) \in Word
  <1>1. /\ addr \in Nat /\ RAM_START \in Nat /\ RAM_SIZE \in Nat /\ ROM_SIZE \in Nat
        /\ Reach(op) \in 0 .. 7
    BY Moduli, ArchAssumption DEF Word, Reach
  <1>2. CASE op \in LoadOps /\ InRam(addr, op)
    <2>1. addr - RAM_START \in Nat /\ (addr - RAM_START) + Reach(op) < RAM_SIZE
      BY <1>1, <1>2 DEF InRam
    <2>2. Loaded(ram_, addr - RAM_START, op) \in Word
      BY <1>1, <1>2, <2>1, LoadedType DEF RamCells
    <2> QED BY <1>2, <2>2 DEF bus_read
  <1>3. CASE op \in LoadOps /\ ~ InRam(addr, op) /\ InRom(addr, op)
    <2>1. addr + Reach(op) < ROM_SIZE
      BY <1>1, <1>3 DEF InRom
    <2>2. Loaded(rom_, addr, op) \in Word
      BY <1>1, <1>3, <2>1, LoadedType DEF RomCells
    <2> QED BY <1>3, <2>2 DEF bus_read
  <1>4. CASE op \notin LoadOps \/ (~ InRam(addr, op) /\ ~ InRom(addr, op))
    BY <1>4 DEF bus_read
  <1> QED BY <1>2, <1>3, <1>4

\* bus_write leaves an array of bytes.
LEMMA BusWriteType ==
    ASSUME NEW ram_ \in [RamCells -> Byte], NEW addr \in Word, NEW op, NEW val \in Word
    PROVE  bus_write(ram_, addr, op, val) \in [RamCells -> Byte]
  <1> DEFINE p == addr - RAM_START
             written == IF op \in StoreOps /\ InRam(addr, op) THEN p .. p + Reach(op) ELSE {}
  <1>1. /\ addr \in Nat /\ RAM_START \in Nat /\ val \in Nat
        /\ Reach(op) \in 0 .. 7
    BY Moduli, ArchAssumption DEF Word, Reach
  <1>2. ASSUME NEW c \in RamCells, c \in written
        PROVE  (val \div Scale(c - p)) % ByteMod \in Byte
    <2>1. c - p \in 0 .. 7
      BY <1>1, <1>2 DEF RamCells
    <2>2. Scale(c - p) \in Nat /\ Scale(c - p) > 0
      <3>1. /\ HalfMod * ByteMod \in Nat /\ HalfMod * ByteMod > 0
            /\ WordMod * ByteMod \in Nat /\ WordMod * ByteMod > 0
            /\ WordMod * HalfMod \in Nat /\ WordMod * HalfMod > 0
        BY Moduli
      <3>2. WordMod * HalfMod * ByteMod \in Nat /\ WordMod * HalfMod * ByteMod > 0
        BY <3>1, Moduli
      <3>3. \A k \in 0 .. 7 : Scale(k) \in {1, ByteMod, HalfMod, HalfMod * ByteMod, WordMod,
                                            WordMod * ByteMod, WordMod * HalfMod,
                                            WordMod * HalfMod * ByteMod}
        BY DEF Scale
      <3> HIDE DEF p
      <3> QED BY <2>1, <3>1, <3>2, <3>3, Moduli
    <2>3. val \div Scale(c - p) \in Int
      BY <1>1, <2>2
    <2> QED BY <2>3, Moduli, ModInRange DEF Byte
  <1>3. bus_write(ram_, addr, op, val) =
           [c \in RamCells |-> IF c \in written
                               THEN (val \div Scale(c - p)) % ByteMod ELSE ram_[c]]
    BY DEF bus_write
  <1> HIDE DEF p, written
  <1> QED BY <1>2, <1>3

\* An access costs at most one extra cycle.
LEMMA AccessStall ==
    ASSUME NEW addr, NEW op
    PROVE  ReadStall(addr, op) \in {0, 1} /\ WriteStall(addr, op) \in {0, 1}
  BY DEF ReadStall, WriteStall, PERF_MODEL_MEMORY

\* The hazards of one instruction cost at most one cycle, three for a branch.
LEMMA HazardStall ==
    ASSUME NEW p, NEW i
    PROVE  /\ PERF_MODEL_HAZARD(p, i) \in {0, 1}
           /\ PERF_MODEL_BRANCH_HAZARD(p, i) \in 0 .. 3
  BY DEF PERF_MODEL_HAZARD, PERF_MODEL_BRANCH_HAZARD, StallIf

-----------------------------------------------------------------------------
(* Type correctness *)

\* What the fetch delivers has the fields of an instruction.
LEMMA FetchType ==
    ASSUME TypeOK
    PROVE  Fetched \in 0 .. WordMod - 1 /\ I \in Instruction /\ FetchStall \in {0, 1}
  <1>1. 0 \in Word
    BY Moduli DEF Word
  <1>2. bus_read(rom, ram, pc, MEM_W, 0) \in Int
    BY <1>1, BusReadType, Moduli DEF TypeOK, Word
  <1>3. Fetched \in 0 .. WordMod - 1
    BY <1>2, ModInRange, Moduli DEF Fetched
  <1> QED BY <1>3, DecodeAssumption, AccessStall DEF I, FetchStall

\* The operands and the addresses made from them are register values.
LEMMA OperandTypes ==
    ASSUME TypeOK
    PROVE  /\ Rs1 \in Word /\ Rs2 \in Word /\ Address \in Word
           /\ NextPc \in Word /\ JumpTarget \in Word
           /\ I.rd \in Reg /\ regfile[I.rd] \in Word /\ I.imm \in Word
  <1>1. I.rs1 \in Reg /\ I.rs2 \in Reg /\ I.rd \in Reg /\ I.imm \in Word
    BY FetchType DEF Instruction
  <1>2. Rs1 \in Word /\ Rs2 \in Word /\ regfile[I.rd] \in Word
    BY <1>1 DEF TypeOK, Rs1, Rs2
  <1>3. Rs1 + I.imm \in Int /\ pc + 4 \in Int /\ pc + I.imm \in Int
    BY <1>1, <1>2, Moduli DEF TypeOK, Word
  <1>4. Address \in Word /\ NextPc \in Word /\ JumpTarget \in Word
    BY <1>3, WrapType DEF Address, NextPc, JumpTarget
  <1> QED BY <1>1, <1>2, <1>4

\* The local `instr` is an instr_t.
LEMMA InstrType ==
    ASSUME TypeOK
    PROVE  instr \in instr_t
  <1>1. I.rs1 \in Reg /\ I.rs2 \in Reg /\ I.rd \in Reg
    BY FetchType DEF Instruction
  <1>2. 0 \in Reg
    BY DEF Reg
  <1> QED BY <1>1, <1>2 DEF instr, instr_t

\* Whatever the arithmetic instructions assign is a register value.
LEMMA ResultTypes ==
    ASSUME TypeOK
    PROVE  /\ I.opcode = "OP_RTYPE" => RTypeResult(I, Rs1, Rs2, regfile[I.rd]) \in Word
           /\ I.opcode = "OP_IMM" => ImmResult(I, Rs1) \in Word
           /\ I.opcode = "OP_RTYPEW" => RTypeWResult(I, Rs1, Rs2, regfile[I.rd]) \in Word
           /\ I.opcode = "OP_IMMW" => ImmWResult(I, Rs1, regfile[I.rd]) \in Word
  <1>1. /\ Rs1 \in Word /\ Rs2 \in Word /\ I.imm \in Word /\ regfile[I.rd] \in Word
        /\ I.funct3 \in 0 .. 7 /\ I.opcode \in Opcodes
    BY OperandTypes, FetchType DEF Instruction
  <1>2. I.opcode \in {"OP_RTYPEW", "OP_IMMW"} => RV64
    BY <1>1 DEF Opcodes
  <1>3. I.funct3 \in MulDivOps
    BY <1>1 DEF MulDivOps
  <1>4. ImmAluop(I) \in AluOps
    BY <1>1 DEF ImmAluop, AluOps, ALU_SRL, ALU_SRA
  <1>5. I.funct3 \in ImmOpsW => ImmAluop(I) \in AluOpsW
    BY DEF ImmAluop, ImmOpsW, AluOpsW, ALU_SRL, ALU_SRA
  <1>6. RTypeResult(I, Rs1, Rs2, regfile[I.rd]) \in Word
    BY <1>1, <1>3, AluAssumption DEF RTypeResult
  <1>7. ImmResult(I, Rs1) \in Word
    BY <1>1, <1>4, AluAssumption DEF ImmResult
  <1>8. RV64 => RTypeWResult(I, Rs1, Rs2, regfile[I.rd]) \in Word
    BY <1>1, AluAssumption DEF RTypeWResult
  <1>9. RV64 => ImmWResult(I, Rs1, regfile[I.rd]) \in Word
    BY <1>1, <1>5, AluAssumption DEF ImmWResult
  <1> QED BY <1>2, <1>6, <1>7, <1>8, <1>9

\* A counter read by a CSR instruction is a register value.
LEMMA CsrType ==
    ASSUME TypeOK, NEW csr
    PROVE  read_csr(csr) \in Word
  <1>1. mcycle \in Nat /\ minstret \in Nat /\ FetchStall \in {0, 1} /\ SysHazard \in {0, 1}
    BY FetchType, HazardStall DEF TypeOK, SysHazard, Hazard
  <1>2. McycleAtRead \in Nat
    BY <1>1 DEF McycleAtRead
  <1>3. McycleAtRead \div RegMod \in Int /\ minstret \div RegMod \in Int
    BY <1>1, <1>2, Moduli
  <1>4. /\ Wrap(McycleAtRead) \in Word /\ Wrap(McycleAtRead \div RegMod) \in Word
        /\ Wrap(minstret) \in Word /\ Wrap(minstret \div RegMod) \in Word
    BY <1>1, <1>2, <1>3, WrapType
  <1>5. 0 \in Word
    BY Moduli DEF Word
  <1> QED BY <1>4, <1>5 DEF read_csr

\* The part of the state that Commit sets keeps its type, and only the loop runs it.
LEMMA CommitType ==
    ASSUME TypeOK, NEW stalls \in 0 .. 4, NEW regs \in [Reg -> Word], NEW next_pc \in Word,
           Commit(stalls, regs, next_pc)
    PROVE  /\ rom' \in [RomCells -> Byte]
           /\ regfile' \in [Reg -> Word] /\ regfile'[0] = 0
           /\ pc' \in Word
           /\ mcycle' \in Nat /\ minstret' \in Nat
           /\ perf_model' \in perf_model_t
           /\ phase' \in {"boot", "loop"} \cup Outcomes
  <1>1. regfile' \in [Reg -> Word] /\ regfile'[0] = 0
    <2>1. 0 \in Word /\ 0 \in Reg
      BY Moduli DEF Word, Reg
    <2> QED BY <2>1 DEF Commit
  <1>2. mcycle' \in Nat /\ minstret' \in Nat
    BY FetchType DEF Commit, TypeOK
  <1>3. perf_model' \in perf_model_t
    <2>1. instr \in instr_t /\ perf_model \in perf_model_t
      BY InstrType DEF TypeOK
    <2> QED BY <2>1 DEF Commit, PERF_MODEL_CYCLE, perf_model_t, instr_t
  <1> QED BY <1>1, <1>2, <1>3 DEF Commit, TypeOK

\* A register write keeps the register file's type.
LEMMA WriteRdType ==
    ASSUME TypeOK, NEW val \in Word
    PROVE  WriteRd(val) \in [Reg -> Word]
  BY OperandTypes DEF WriteRd, TypeOK

\* What every instruction does besides its own effect: it commits, with at most
\* four stalls of its own, registers and a pc of the right type.
LEMMA InstrCommits ==
    ASSUME TypeOK, Instr
    PROVE  /\ phase = "loop" /\ LoopGuard /\ Fetched # 0
           /\ \E stalls \in 0 .. 4, regs \in [Reg -> Word], next_pc \in Word :
                 Commit(stalls, regs, next_pc)
  <1>1. ASSUME NEW stalls \in 0 .. 4, NEW regs \in [Reg -> Word], NEW next_pc \in Word,
               Commit(stalls, regs, next_pc), NEW op, Executing(op)
        PROVE  /\ phase = "loop" /\ LoopGuard /\ Fetched # 0
               /\ \E s \in 0 .. 4, r \in [Reg -> Word], n \in Word : Commit(s, r, n)
    BY <1>1 DEF Executing
  <1>2. /\ Hazard \in {0, 1} /\ BranchHazard \in 0 .. 3 /\ SysHazard \in {0, 1}
        /\ Hazard \in 0 .. 4 /\ SysHazard \in 0 .. 4
    BY HazardStall DEF Hazard, BranchHazard, SysHazard
  <1>3. /\ ReadStall(Address, I.funct3) \in {0, 1}
        /\ WriteStall(Address, I.funct3) \in {0, 1}
    BY AccessStall
  <1>4. /\ NextPc \in Word /\ JumpTarget \in Word /\ I.imm \in Word /\ Address \in Word
        /\ regfile \in [Reg -> Word] /\ regfile[I.rd] \in Word
    BY OperandTypes DEF TypeOK
  <1>5. CASE RType
    <2>1. WriteRd(RTypeResult(I, Rs1, Rs2, regfile[I.rd])) \in [Reg -> Word]
      BY <1>5, ResultTypes, WriteRdType DEF RType, Executing
    <2> QED BY <1>1, <1>2, <1>4, <1>5, <2>1 DEF RType
  <1>6. CASE Imm
    <2>1. WriteRd(ImmResult(I, Rs1)) \in [Reg -> Word]
      BY <1>6, ResultTypes, WriteRdType DEF Imm, Executing
    <2> QED BY <1>1, <1>2, <1>4, <1>6, <2>1 DEF Imm
  <1>7. CASE RTypeW
    <2>1. WriteRd(RTypeWResult(I, Rs1, Rs2, regfile[I.rd])) \in [Reg -> Word]
      BY <1>7, ResultTypes, WriteRdType DEF RTypeW, Executing
    <2> QED BY <1>1, <1>2, <1>4, <1>7, <2>1 DEF RTypeW
  <1>8. CASE ImmW
    <2>1. WriteRd(ImmWResult(I, Rs1, regfile[I.rd])) \in [Reg -> Word]
      BY <1>8, ResultTypes, WriteRdType DEF ImmW, Executing
    <2> QED BY <1>1, <1>2, <1>4, <1>8, <2>1 DEF ImmW
  <1>9. CASE Load
    <2>1. bus_read(rom, ram, Address, I.funct3, regfile[I.rd]) \in Word
      BY <1>4, BusReadType DEF TypeOK
    <2>2. Hazard + ReadStall(Address, I.funct3) \in 0 .. 4
      BY <1>2, <1>3
    <2> QED BY <1>1, <1>4, <1>9, <2>1, <2>2, WriteRdType DEF Load
  <1>10. CASE Store
    <2>1. Hazard + WriteStall(Address, I.funct3) \in 0 .. 4
      BY <1>2, <1>3
    <2> QED BY <1>1, <1>4, <1>10, <2>1 DEF Store
  <1>11. CASE Branch
    <2>1. BranchHazard \in 0 .. 4 /\ BranchHazard + PERF_MODEL_BRANCH_TAKEN \in 0 .. 4
      BY <1>2 DEF PERF_MODEL_BRANCH_TAKEN
    <2> QED BY <1>1, <1>4, <1>11, <2>1 DEF Branch
  <1>12. CASE Nop
    BY <1>1, <1>4, <1>12 DEF Nop
  <1>13. CASE Auipc
    <2>1. WriteRd(JumpTarget) \in [Reg -> Word]
      BY <1>4, WriteRdType
    <2> QED BY <1>1, <1>4, <1>13, <2>1 DEF Auipc
  <1>14. CASE Lui
    <2>1. WriteRd(I.imm) \in [Reg -> Word]
      BY <1>4, WriteRdType
    <2> QED BY <1>1, <1>4, <1>14, <2>1 DEF Lui
  <1>15. CASE Jal
    <2>1. WriteRd(NextPc) \in [Reg -> Word]
      BY <1>4, WriteRdType
    <2> QED BY <1>1, <1>4, <1>15, <2>1 DEF Jal, PERF_MODEL_BRANCH_TAKEN
  <1>16. CASE Jalr
    <2>1. BranchHazard + PERF_MODEL_BRANCH_TAKEN \in 0 .. 4
      BY <1>2 DEF PERF_MODEL_BRANCH_TAKEN
    <2>2. Address - (Address % 2) \in Word
      BY <1>4, Moduli DEF Word
    <2> QED BY <1>1, <1>4, <1>16, <2>1, <2>2, WriteRdType DEF Jalr
  <1>17. CASE Ebreak
    BY <1>1, <1>2, <1>4, <1>17 DEF Ebreak
  <1>18. CASE Ecall
    BY <1>1, <1>2, <1>4, <1>18 DEF Ecall
  <1>19. CASE Csr
    <2>1. WriteRd(read_csr(I.uimm)) \in [Reg -> Word]
      BY CsrType, WriteRdType
    <2> QED BY <1>1, <1>2, <1>4, <1>19, <2>1 DEF Csr
  <1>20. CASE SysOther
    BY <1>1, <1>2, <1>4, <1>20 DEF SysOther
  <1> QED BY <1>5, <1>6, <1>7, <1>8, <1>9, <1>10, <1>11, <1>12, <1>13, <1>14, <1>15,
             <1>16, <1>17, <1>18, <1>19, <1>20 DEF Instr

\* The variables that an instruction sets beside its commit.
LEMMA InstrEffects ==
    ASSUME TypeOK, Instr
    PROVE  /\ ram' \in [RamCells -> Byte]
           /\ instr_loop' \in BOOLEAN
           /\ out' \in Seq(Byte)
  <1>1. ram \in [RamCells -> Byte] /\ instr_loop \in BOOLEAN /\ out \in Seq(Byte)
    BY DEF TypeOK
  <1>2. CASE Store
    <2>1. bus_write(ram, Address, I.funct3, Rs2) \in [RamCells -> Byte]
      BY <1>1, OperandTypes, BusWriteType
    <2> QED BY <1>1, <1>2, <2>1 DEF Store
  <1>3. CASE Ecall
    <2>1. regfile[A1] \in Int
      BY Moduli DEF TypeOK, A1, Reg, Word
    <2>2. regfile[A1] % ByteMod \in Byte
      BY <2>1, Moduli, ModInRange DEF Byte
    <2>3. Append(out, regfile[A1] % ByteMod) \in Seq(Byte)
      BY <1>1, <2>2
    <2>4. (regfile[A0] # E_EXIT) \in BOOLEAN
      OBVIOUS
    <2> QED BY <1>1, <1>3, <2>3, <2>4 DEF Ecall
  <1>4. CASE Ebreak
    BY <1>1, <1>4 DEF Ebreak
  <1>5. CASE ~ (Store \/ Ecall \/ Ebreak)
    BY <1>1, <1>5
    DEF Instr, RType, Imm, RTypeW, ImmW, Load, Branch, Nop, Auipc, Lui, Jal, Jalr, Csr,
        SysOther
  <1> QED BY <1>2, <1>3, <1>4, <1>5

\* The zeroed machine is well typed.
LEMMA TypeInit == Init => TypeOK
  <1> SUFFICES ASSUME Init PROVE TypeOK
    OBVIOUS
  <1>1. 0 \in Byte /\ 0 \in Word /\ 0 \in Reg
    BY Moduli DEF Byte, Word, Reg
  <1>2. PerfZero \in perf_model_t
    BY <1>1 DEF PerfZero, perf_model_t
  <1>3. << >> \in Seq(Byte)
    OBVIOUS
  <1> QED BY <1>1, <1>2, <1>3 DEF Init, TypeOK

\* Every step keeps it well typed.
LEMMA TypeNext == TypeOK /\ [Next]_vars => TypeOK'
  <1> SUFFICES ASSUME TypeOK, [Next]_vars
               PROVE  TypeOK'
    OBVIOUS
  <1>1. CASE Usage
    BY <1>1 DEF Usage, TypeOK, Outcomes, memory, counters
  <1>2. CASE OpenFails
    BY <1>2 DEF OpenFails, TypeOK, Outcomes, memory, counters
  <1>3. CASE LoadRom
    <2>1. PICK image \in Images :
             rom' = [c \in RomCells |-> IF c < Len(image) THEN image[c + 1] ELSE 0]
      BY <1>3 DEF LoadRom
    <2>2. image \in Seq(Byte)
      BY ImagesAssumption
    <2>3. ASSUME NEW c \in RomCells
          PROVE  (IF c < Len(image) THEN image[c + 1] ELSE 0) \in Byte
      <3>1. 0 \in Byte
        BY Moduli DEF Byte
      <3>2. CASE c < Len(image)
        <4>1. c + 1 \in 1 .. Len(image)
          BY <2>2, <3>2, ArchAssumption DEF RomCells
        <4> QED BY <2>2, <3>2, <4>1
      <3> QED BY <3>1, <3>2
    <2>4. rom' \in [RomCells -> Byte]
      BY <2>1, <2>3
    <2> QED BY <1>3, <2>4 DEF LoadRom, TypeOK, counters
  <1>4. CASE ZeroInstr
    BY <1>4, FetchType DEF ZeroInstr, TypeOK, Outcomes, memory
  <1>5. CASE Report
    BY <1>5 DEF Report, TypeOK, Outcomes, memory, counters
  <1>6. CASE Instr
    <2>1. PICK stalls \in 0 .. 4, regs \in [Reg -> Word], next_pc \in Word :
             Commit(stalls, regs, next_pc)
      BY <1>6, InstrCommits
    <2> QED BY <1>6, <2>1, CommitType, InstrEffects DEF TypeOK
  <1>7. CASE UNCHANGED vars
    BY <1>7 DEF vars, TypeOK
  <1> QED BY <1>1, <1>2, <1>3, <1>4, <1>5, <1>6, <1>7 DEF Next, Loop

\* Every reachable state of the emulator has values of the C types: no register,
\* no address and no byte ever leaves its width, and x0 is zero at every fetch.
THEOREM TypeCorrect == Spec => []TypeOK
  BY TypeInit, TypeNext, PTL DEF Spec

-----------------------------------------------------------------------------
(* The safety invariants *)

\* A well-typed state has no access outside the host's arrays before it.
LEMMA TypedAccess == TypeOK => HostAccessInBounds
  <1> SUFFICES ASSUME TypeOK PROVE HostAccessInBounds
    OBVIOUS
  <1>1. pc \in Word /\ Address \in Word
    BY OperandTypes DEF TypeOK
  <1>2. InBounds(pc, MEM_W, LoadOps) /\ InBounds(Address, I.funct3, LoadOps)
    BY <1>1, AccessInBounds
  <1>3. InBounds(Address, I.funct3, StoreOps)
    BY <1>1, AccessInBounds
  <1> QED BY <1>2, <1>3 DEF HostAccessInBounds, InBounds

\* No guest, through any jump target or pointer, makes the emulator index cpu.rom or
\* cpu.ram outside their bounds.
THEOREM HostMemorySafe == Spec => []HostAccessInBounds
  BY TypeCorrect, TypedAccess, PTL

\* The cost of one instruction, and the guard it ran under.
LEMMA InstrCost ==
    ASSUME TypeOK, Instr
    PROVE  /\ phase = "loop" /\ phase' = phase /\ mcycle < MAX_CYCLES
           /\ minstret' = minstret + 1
           /\ mcycle' \in mcycle + 1 .. mcycle + 6
  <1>1. PICK stalls \in 0 .. 4, regs \in [Reg -> Word], next_pc \in Word :
           Commit(stalls, regs, next_pc)
    BY InstrCommits
  <1>2. FetchStall \in {0, 1} /\ mcycle \in Nat
    BY FetchType DEF TypeOK
  <1>3. phase = "loop" /\ mcycle < MAX_CYCLES
    BY InstrCommits DEF LoopGuard
  <1> QED BY <1>1, <1>2, <1>3 DEF Commit

\* The budget is inductive for typed states: one instruction adds one to minstret
\* and one to six to a mcycle that was below the limit.
LEMMA BudgetNext == TypeOK /\ CycleBudget /\ [Next]_vars => CycleBudget'
  <1> SUFFICES ASSUME TypeOK, CycleBudget, [Next]_vars
               PROVE  CycleBudget'
    OBVIOUS
  <1>1. mcycle \in Nat /\ minstret \in Nat /\ MAX_CYCLES \in Nat
    BY ArchAssumption DEF TypeOK
  <1>2. CASE Usage \/ OpenFails \/ LoadRom \/ Report
    <2>1. UNCHANGED <<mcycle, minstret>>
      BY <1>2 DEF Usage, OpenFails, LoadRom, Report, counters
    <2>2. phase \in {"boot", "loop"} /\ phase' # "zero_instr"
      BY <1>2 DEF Usage, OpenFails, LoadRom, Report
    <2> QED BY <1>1, <2>1, <2>2 DEF CycleBudget
  <1>3. CASE ZeroInstr
    <2>1. FetchStall \in {0, 1}
      BY FetchType
    <2>2. /\ phase = "loop" /\ phase' = "zero_instr" /\ mcycle < MAX_CYCLES
          /\ mcycle' = mcycle + FetchStall /\ minstret' = minstret
      BY <1>3 DEF ZeroInstr, LoopGuard
    <2> QED BY <1>1, <2>1, <2>2 DEF CycleBudget
  <1>4. CASE Instr
    BY <1>1, <1>4, InstrCost DEF CycleBudget
  <1>5. CASE UNCHANGED vars
    BY <1>5 DEF vars, CycleBudget
  <1> QED BY <1>2, <1>3, <1>4, <1>5 DEF Next, Loop

\* The counters stay within one to six cycles an instruction, and the limit of the
\* main loop is overshot by less than one instruction.
THEOREM CyclesBounded == Spec => []CycleBudget
  <1>1. Init => CycleBudget
    BY ArchAssumption DEF Init, CycleBudget
  <1> QED BY <1>1, TypeCorrect, BudgetNext, PTL DEF Spec

\* OutcomeExplained is inductive with the fact that process_instr has returned
\* nothing before the loop.
OutcomeInv == OutcomeExplained /\ (phase = "boot" => instr_loop)

LEMMA OutcomeNext == TypeOK /\ OutcomeInv /\ [Next]_vars => OutcomeInv'
  <1> SUFFICES ASSUME TypeOK, OutcomeInv, [Next]_vars
               PROVE  OutcomeInv'
    OBVIOUS
  <1>1. CASE Usage \/ OpenFails \/ LoadRom
    BY <1>1 DEF Usage, OpenFails, LoadRom, OutcomeInv, OutcomeExplained
  <1>2. CASE ZeroInstr
    <2>1. UNCHANGED <<rom, ram, pc>>
      BY <1>2 DEF ZeroInstr, memory
    <2>2. Fetched' = Fetched
      BY <2>1 DEF Fetched, bus_read
    <2> QED BY <1>2, <2>2 DEF ZeroInstr, LoopGuard, OutcomeInv, OutcomeExplained
  <1>3. CASE Report
    <2>1. UNCHANGED <<mcycle, instr_loop>>
      BY <1>3 DEF Report, counters
    <2>2. mcycle \in Nat /\ MAX_CYCLES \in Nat
      BY ArchAssumption DEF TypeOK
    <2> QED BY <1>3, <2>1, <2>2 DEF Report, LoopGuard, OutcomeInv, OutcomeExplained
  <1>4. CASE Instr
    <2>1. phase' = "loop" /\ minstret' > 0
      BY <1>4, InstrCost DEF TypeOK
    <2> QED BY <2>1 DEF OutcomeInv, OutcomeExplained
  <1>5. CASE UNCHANGED vars
    <2>1. Fetched' = Fetched
      BY <1>5 DEF vars, Fetched, bus_read
    <2> QED BY <1>5, <2>1 DEF vars, OutcomeInv, OutcomeExplained
  <1> QED BY <1>1, <1>2, <1>3, <1>4, <1>5 DEF Next, Loop

\* The way main ends says what happened to the guest, but for the report of the
\* limit, which is also given to a guest that exits as it reaches the limit.
THEOREM OutcomesExplained == Spec => []OutcomeExplained
  <1>1. Init => OutcomeInv
    BY DEF Init, OutcomeInv, OutcomeExplained
  <1>2. OutcomeInv => OutcomeExplained
    BY DEF OutcomeInv
  <1> QED BY <1>1, <1>2, TypeCorrect, OutcomeNext, PTL DEF Spec

-----------------------------------------------------------------------------
(* The operators of H are those of Core *)

\* The ranges of the C types.
LEMMA SameModuli ==
    /\ H!Byte = Byte /\ H!Word = Word /\ H!Reg = Reg
    /\ H!HalfMod = HalfMod /\ H!WordMod = WordMod /\ H!RegMod = RegMod
  BY DEF H!Byte, H!Word, H!Reg, H!HalfMod, H!WordMod, H!RegMod,
         Byte, Word, Reg, HalfMod, WordMod, RegMod

\* The widths of an access.
LEMMA SameWidths ==
    /\ H!LoadOps = LoadOps /\ H!StoreOps = StoreOps
    /\ H!MEM_B = MEM_B /\ H!MEM_H = MEM_H /\ H!MEM_W = MEM_W /\ H!MEM_D = MEM_D
    /\ H!MEM_BU = MEM_BU /\ H!MEM_HU = MEM_HU /\ H!MEM_WU = MEM_WU
  BY DEF H!LoadOps, H!StoreOps, H!MEM_B, H!MEM_H, H!MEM_W, H!MEM_D, H!MEM_BU, H!MEM_HU,
         H!MEM_WU, LoadOps, StoreOps, MEM_B, MEM_H, MEM_W, MEM_D, MEM_BU, MEM_HU, MEM_WU

\* The arithmetic unit and the condition of a branch.
LEMMA SameOps ==
    ASSUME NEW i, NEW a, NEW b, NEW old
    PROVE  /\ H!RTypeResult(i, a, b, old) = RTypeResult(i, a, b, old)
           /\ H!RTypeWResult(i, a, b, old) = RTypeWResult(i, a, b, old)
           /\ H!ImmResult(i, a) = ImmResult(i, a)
           /\ H!ImmWResult(i, a, old) = ImmWResult(i, a, old)
           /\ H!BranchTaken(i, a, b) <=> BranchTaken(i, a, b)
  <1>1. /\ H!AluOps = AluOps /\ H!AluOpsW = AluOpsW /\ H!ImmOpsW = ImmOpsW
        /\ H!MulDivOps = MulDivOps /\ H!MulDivOpsW = MulDivOpsW
    BY DEF H!AluOps, H!AluOpsW, H!ImmOpsW, H!MulDivOps, H!MulDivOpsW, H!ALU_SRA,
           AluOps, AluOpsW, ImmOpsW, MulDivOps, MulDivOpsW, ALU_SRA
  <1>2. H!RegAluop(i) = RegAluop(i) /\ H!ImmAluop(i) = ImmAluop(i)
    BY DEF H!RegAluop, H!ImmAluop, RegAluop, ImmAluop, H!ALU_SRA, H!ALU_SRL, ALU_SRA, ALU_SRL
  <1>3. H!Signed(a) = Signed(a) /\ H!Signed(b) = Signed(b)
    BY SameModuli DEF H!Signed, Signed
  <1>4. H!BranchTaken(i, a, b) <=> BranchTaken(i, a, b)
    BY <1>3 DEF H!BranchTaken, BranchTaken
  <1> QED BY <1>1, <1>2, <1>4
          DEF H!RTypeResult, H!RTypeWResult, H!ImmResult, H!ImmWResult,
              RTypeResult, RTypeWResult, ImmResult, ImmWResult

\* The conversions.
LEMMA SameArithmetic ==
    ASSUME NEW n, NEW m
    PROVE  H!Wrap(n) = Wrap(n) /\ H!SignExtend(n, m) = SignExtend(n, m)
  BY SameModuli DEF H!Wrap, Wrap, H!SignExtend, SignExtend

\* The weight of a byte.
LEMMA SameScale ==
    ASSUME NEW k
    PROVE  H!Scale(k) = Scale(k)
  BY SameModuli DEF H!Scale, Scale

-----------------------------------------------------------------------------
(* The bus and the one memory of Hart *)

\* The memory that the refinement mapping shows to Hart.
Joined == [m \in RomCells \cup (RAM_START .. RAM_START + RAM_SIZE - 1) |->
              IF m \in RomCells THEN rom[m] ELSE ram[m - RAM_START]]

\* The local `range` of bus_read and bus_write is the width less one.
LEMMA ReachWidth ==
    ASSUME NEW op \in LoadOps \cup StoreOps
    PROVE  H!Width(op) = Reach(op) + 1 /\ Reach(op) \in {0, 1, 3, 7}
  BY ArchAssumption, SameWidths
  DEF H!Width, Reach, LoadOps, StoreOps, MEM_B, MEM_H, MEM_W, MEM_D, MEM_BU, MEM_HU, MEM_WU

\* The two comparisons of inc/bus.h say that every byte of the access is mapped, in
\* one region: none straddles the end of the ROM or of the RAM.
LEMMA SpanInRegion ==
    ASSUME NEW addr \in Word, NEW op \in LoadOps \cup StoreOps
    PROVE  /\ H!Span(addr, op) = addr .. addr + Reach(op)
           /\ H!Span(addr, op) \subseteq H!RamAddrs <=> InRam(addr, op)
           /\ H!Span(addr, op) \subseteq H!RomAddrs <=> InRom(addr, op)
  <1>1. /\ addr \in Nat /\ RAM_START \in Nat /\ RAM_SIZE \in Nat /\ ROM_SIZE \in Nat
        /\ RAM_START >= ROM_SIZE
    BY Moduli, ArchAssumption DEF Word
  <1>2. H!Span(addr, op) = addr .. addr + Reach(op) /\ Reach(op) \in {0, 1, 3, 7}
    BY <1>1, ReachWidth DEF H!Span
  <1>3. addr \in H!Span(addr, op) /\ addr + Reach(op) \in H!Span(addr, op)
    BY <1>1, <1>2
  <1>4. H!Span(addr, op) \subseteq H!RamAddrs <=> InRam(addr, op)
    BY <1>1, <1>2, <1>3 DEF H!RamAddrs, InRam
  <1>5. H!Span(addr, op) \subseteq H!RomAddrs <=> InRom(addr, op)
    BY <1>1, <1>2, <1>3 DEF H!RomAddrs, InRom, InRam
  <1> QED BY <1>2, <1>4, <1>5

\* So the bus reads what Hart can load,
LEMMA CanLoadIsMapped ==
    ASSUME NEW addr \in Word, NEW op
    PROVE  H!CanLoad(addr, op) <=> op \in LoadOps /\ (InRam(addr, op) \/ InRom(addr, op))
  BY SpanInRegion, SameWidths DEF H!CanLoad

\* and writes what Hart can store.
LEMMA CanStoreIsMapped ==
    ASSUME NEW addr \in Word, NEW op
    PROVE  H!CanStore(addr, op) <=> op \in StoreOps /\ InRam(addr, op)
  BY SpanInRegion, SameWidths DEF H!CanStore

\* f holds from p on the n + 1 bytes that g holds from q on.
SameBytes(f, p, g, q, n) == \A k \in 0 .. n : f[p + k] = g[q + k]

\* Two arrays that hold the same bytes from p and from q on give the same number.
LEMMA SameNumbers ==
    ASSUME NEW f, NEW g, NEW p \in Int, NEW q \in Int
    PROVE  /\ SameBytes(f, p, g, q, 1) => H!HalfAt(f, p) = HalfAt(g, q)
           /\ SameBytes(f, p, g, q, 3) => H!WordAt(f, p) = WordAt(g, q)
           /\ SameBytes(f, p, g, q, 7) => H!DwordAt(f, p) = DwordAt(g, q)
  <1>1. ASSUME NEW r \in Int, NEW s \in Int, f[r] = g[s], f[r + 1] = g[s + 1]
        PROVE  H!HalfAt(f, r) = HalfAt(g, s)
    BY <1>1 DEF H!HalfAt, HalfAt
  <1>2. ASSUME NEW r \in Int, NEW s \in Int, f[r] = g[s], f[r + 1] = g[s + 1],
               f[r + 2] = g[s + 2], f[r + 3] = g[s + 3]
        PROVE  H!WordAt(f, r) = WordAt(g, s)
    <2>1. H!HalfAt(f, r) = HalfAt(g, s)
      BY <1>1, <1>2
    <2>2. f[(r + 2) + 1] = g[(s + 2) + 1] /\ r + 2 \in Int /\ s + 2 \in Int
      BY <1>2
    <2>3. H!HalfAt(f, r + 2) = HalfAt(g, s + 2)
      BY <1>1, <1>2, <2>2
    <2> QED BY <2>1, <2>3, SameModuli DEF H!WordAt, WordAt
  <1>3. ASSUME SameBytes(f, p, g, q, 1)
        PROVE  H!HalfAt(f, p) = HalfAt(g, q)
    <2>1. f[p + 0] = g[q + 0] /\ f[p + 1] = g[q + 1] /\ p + 0 = p /\ q + 0 = q
      BY <1>3 DEF SameBytes
    <2> QED BY <1>1, <2>1
  <1>4. ASSUME SameBytes(f, p, g, q, 3)
        PROVE  H!WordAt(f, p) = WordAt(g, q)
    <2>1. /\ f[p + 0] = g[q + 0] /\ f[p + 1] = g[q + 1] /\ f[p + 2] = g[q + 2]
          /\ f[p + 3] = g[q + 3] /\ p + 0 = p /\ q + 0 = q
      BY <1>4 DEF SameBytes
    <2> QED BY <1>2, <2>1
  <1>5. ASSUME SameBytes(f, p, g, q, 7)
        PROVE  H!DwordAt(f, p) = DwordAt(g, q)
    <2>1. H!WordAt(f, p) = WordAt(g, q)
      <3>1. SameBytes(f, p, g, q, 3)
        BY <1>5 DEF SameBytes
      <3> QED BY <1>4, <3>1
    <2>2. /\ f[p + 4] = g[q + 4] /\ f[p + 5] = g[q + 5] /\ f[p + 6] = g[q + 6]
          /\ f[p + 7] = g[q + 7]
      BY <1>5 DEF SameBytes
    <2>3. /\ f[(p + 4) + 1] = g[(q + 4) + 1] /\ f[(p + 4) + 2] = g[(q + 4) + 2]
          /\ f[(p + 4) + 3] = g[(q + 4) + 3] /\ p + 4 \in Int /\ q + 4 \in Int
      BY <2>2
    <2>4. H!WordAt(f, p + 4) = WordAt(g, q + 4)
      BY <1>2, <2>2, <2>3
    <2> QED BY <2>1, <2>4, SameModuli DEF H!DwordAt, DwordAt
  <1> QED BY <1>3, <1>4, <1>5

\* So they give the same value to a load of any width.
LEMMA SameLoad ==
    ASSUME NEW f, NEW g, NEW p \in Int, NEW q \in Int, NEW op \in LoadOps,
           SameBytes(f, p, g, q, Reach(op))
    PROVE  H!Loaded(f, p, op) = Loaded(g, q, op)
  <1>1. CASE op \in {MEM_B, MEM_BU}
    <2>1. Reach(op) = 0
      BY <1>1 DEF Reach, MEM_B, MEM_BU, MEM_H, MEM_HU, MEM_W, MEM_WU, MEM_D
    <2>2. f[p + 0] = g[q + 0] /\ p + 0 = p /\ q + 0 = q
      BY <2>1 DEF SameBytes
    <2> QED BY <1>1, <2>2, SameWidths, SameArithmetic, SameModuli
            DEF H!Loaded, Loaded, MEM_B, MEM_BU, MEM_H, MEM_HU, MEM_W, MEM_WU, MEM_D
  <1>2. CASE op \in {MEM_H, MEM_HU}
    <2>1. Reach(op) = 1
      BY <1>2 DEF Reach
    <2>2. SameBytes(f, p, g, q, 1)
      BY <2>1
    <2>3. H!HalfAt(f, p) = HalfAt(g, q)
      BY <2>2, SameNumbers
    <2> QED BY <1>2, <2>3, SameWidths, SameArithmetic, SameModuli
            DEF H!Loaded, Loaded, MEM_B, MEM_BU, MEM_H, MEM_HU, MEM_W, MEM_WU, MEM_D
  <1>3. CASE op \in {MEM_W, MEM_WU}
    <2>1. Reach(op) = 3
      BY <1>3, ArchAssumption
      DEF Reach, LoadOps, MEM_B, MEM_BU, MEM_H, MEM_HU, MEM_W, MEM_WU, MEM_D
    <2>2. SameBytes(f, p, g, q, 3)
      BY <2>1
    <2>3. H!WordAt(f, p) = WordAt(g, q)
      BY <2>2, SameNumbers
    <2> QED BY <1>3, <2>3, SameWidths, SameArithmetic, SameModuli
            DEF H!Loaded, Loaded, MEM_B, MEM_BU, MEM_H, MEM_HU, MEM_W, MEM_WU, MEM_D
  <1>4. CASE op = MEM_D
    <2>1. Reach(op) = 7
      BY <1>4, ArchAssumption
      DEF Reach, LoadOps, MEM_B, MEM_BU, MEM_H, MEM_HU, MEM_W, MEM_WU, MEM_D
    <2>2. SameBytes(f, p, g, q, 7)
      BY <2>1
    <2>3. H!DwordAt(f, p) = DwordAt(g, q)
      BY <2>2, SameNumbers
    <2> QED BY <1>4, <2>3, SameWidths, SameArithmetic, SameModuli
            DEF H!Loaded, Loaded, MEM_B, MEM_BU, MEM_H, MEM_HU, MEM_W, MEM_WU, MEM_D
  <1> QED BY <1>1, <1>2, <1>3, <1>4, ArchAssumption DEF LoadOps

\* What Hart loads from its one memory is what the bus reads from the array.
LEMMA LoadValueIsRead ==
    ASSUME NEW addr \in Word, NEW op, NEW val
    PROVE  bus_read(rom, ram, addr, op, val)
             = IF H!CanLoad(addr, op) THEN H!LoadValue(addr, op) ELSE val
  <1>1. /\ addr \in Int /\ RAM_START \in Nat /\ RAM_SIZE \in Nat /\ ROM_SIZE \in Nat
        /\ RAM_START >= ROM_SIZE /\ addr >= 0
    BY Moduli, ArchAssumption DEF Word
  <1>2. H!LoadValue(addr, op) = H!Loaded(Joined, addr, op)
    BY DEF H!LoadValue, Joined
  <1>3. CASE op \in LoadOps /\ InRam(addr, op)
    <2>1. Reach(op) \in Nat /\ addr >= RAM_START /\ addr + Reach(op) < RAM_START + RAM_SIZE
      BY <1>1, <1>3, ReachWidth DEF InRam
    <2>2. ASSUME NEW k \in 0 .. Reach(op)
          PROVE  Joined[addr + k] = ram[(addr - RAM_START) + k]
      <3>1. addr + k \in RAM_START .. RAM_START + RAM_SIZE - 1 /\ addr + k \notin RomCells
        BY <1>1, <2>1 DEF RomCells
      <3>2. (addr + k) - RAM_START = (addr - RAM_START) + k
        BY <1>1, <2>1
      <3> QED BY <3>1, <3>2 DEF Joined
    <2>3. SameBytes(Joined, addr, ram, addr - RAM_START, Reach(op))
      BY <2>2 DEF SameBytes
    <2>4. H!Loaded(Joined, addr, op) = Loaded(ram, addr - RAM_START, op)
      BY <1>1, <1>3, <2>3, SameLoad
    <2> QED BY <1>2, <1>3, <2>4, CanLoadIsMapped DEF bus_read
  <1>4. CASE op \in LoadOps /\ ~ InRam(addr, op) /\ InRom(addr, op)
    <2>1. Reach(op) \in Nat /\ addr + Reach(op) < ROM_SIZE
      BY <1>1, <1>4, ReachWidth DEF InRom
    <2>2. ASSUME NEW k \in 0 .. Reach(op)
          PROVE  Joined[addr + k] = rom[addr + k]
      <3>1. addr + k \in RomCells
        BY <1>1, <2>1 DEF RomCells
      <3> QED BY <3>1 DEF Joined
    <2>3. SameBytes(Joined, addr, rom, addr, Reach(op))
      BY <2>2 DEF SameBytes
    <2>4. H!Loaded(Joined, addr, op) = Loaded(rom, addr, op)
      BY <1>1, <1>4, <2>3, SameLoad
    <2> QED BY <1>2, <1>4, <2>4, CanLoadIsMapped DEF bus_read
  <1>5. CASE op \notin LoadOps \/ (~ InRam(addr, op) /\ ~ InRom(addr, op))
    BY <1>5, CanLoadIsMapped DEF bus_read
  <1> QED BY <1>3, <1>4, <1>5

\* Hart fetches and decodes the instruction that the emulator does,
LEMMA SameFetch ==
    ASSUME TypeOK
    PROVE  H!Word32 = Fetched /\ H!I = I
  <1>1. pc \in Word /\ MEM_W \in LoadOps /\ H!MEM_W = MEM_W /\ H!WordMod = WordMod
    BY SameModuli, SameWidths DEF TypeOK, LoadOps
  <1>2. WordMod \in Nat /\ WordMod > 0
    BY Moduli
  <1>3. 0 % WordMod = 0
    BY <1>2
  <1>4. H!Word32 = Fetched
    BY <1>1, <1>3, LoadValueIsRead DEF H!Word32, Fetched
  <1> QED BY <1>4 DEF H!I, I

\* and reads the same operands.
LEMMA SameOperands ==
    ASSUME TypeOK
    PROVE  /\ \A r \in Reg : H!X(r) = regfile[r]
           /\ H!A = Rs1 /\ H!B = Rs2 /\ H!Ea = Address /\ H!Next4 = NextPc
           /\ H!Wrap(pc + I.imm) = JumpTarget
  <1>1. ASSUME NEW r \in Reg
        PROVE  H!X(r) = regfile[r]
    BY DEF H!X, TypeOK
  <1>2. I.rs1 \in Reg /\ I.rs2 \in Reg
    BY FetchType DEF Instruction
  <1>3. H!A = Rs1 /\ H!B = Rs2
    BY <1>1, <1>2, SameFetch DEF H!A, H!B, Rs1, Rs2
  <1> QED BY <1>1, <1>3, SameFetch, SameArithmetic
          DEF H!Ea, H!Next4, Address, NextPc, JumpTarget

-----------------------------------------------------------------------------
(* The effects of an instruction, one variable of Hart at a time *)

\* The registers that the refinement mapping shows to Hart.
Shown == [r \in Reg \ {0} |-> regfile[r]]

\* The formats without a target register.
NoTarget == {"OP_STORE", "OP_BRANCH", "OP_FENCE", "OP_OTHER"}

\* The value that Hart gives the target, by opcode.
LEMMA ValueCases ==
    ASSUME TypeOK, NEW counter
    PROVE  /\ I.opcode = "OP_RTYPE" =>
                 H!Value(counter) = RTypeResult(I, Rs1, Rs2, regfile[I.rd])
           /\ I.opcode = "OP_RTYPEW" =>
                 H!Value(counter) = RTypeWResult(I, Rs1, Rs2, regfile[I.rd])
           /\ I.opcode = "OP_IMM" => H!Value(counter) = ImmResult(I, Rs1)
           /\ I.opcode = "OP_IMMW" => H!Value(counter) = ImmWResult(I, Rs1, regfile[I.rd])
           /\ I.opcode = "OP_LOAD" =>
                 H!Value(counter) = bus_read(rom, ram, Address, I.funct3, regfile[I.rd])
           /\ I.opcode = "OP_AUIPC" => H!Value(counter) = JumpTarget
           /\ I.opcode = "OP_LUI" => H!Value(counter) = I.imm
           /\ I.opcode \in {"OP_JAL", "OP_JALR"} => H!Value(counter) = NextPc
           /\ I.opcode = "OP_SYS" =>
                 H!Value(counter) = IF I.funct3 \in {0, 4} THEN regfile[I.rd] ELSE counter
  <1>1. H!I = I /\ H!X(I.rd) = regfile[I.rd] /\ H!A = Rs1 /\ H!B = Rs2 /\ H!Ea = Address
    BY SameFetch, SameOperands, OperandTypes
  <1>2. H!Next4 = NextPc /\ H!Wrap(pc + I.imm) = JumpTarget /\ Address \in Word
    BY SameOperands, OperandTypes
  <1>3. bus_read(rom, ram, Address, I.funct3, regfile[I.rd])
          = IF H!CanLoad(Address, I.funct3) THEN H!LoadValue(Address, I.funct3)
            ELSE regfile[I.rd]
    BY <1>2, LoadValueIsRead
  <1>4. /\ H!RTypeResult(I, Rs1, Rs2, regfile[I.rd]) = RTypeResult(I, Rs1, Rs2, regfile[I.rd])
        /\ H!RTypeWResult(I, Rs1, Rs2, regfile[I.rd]) = RTypeWResult(I, Rs1, Rs2, regfile[I.rd])
        /\ H!ImmResult(I, Rs1) = ImmResult(I, Rs1)
        /\ H!ImmWResult(I, Rs1, regfile[I.rd]) = ImmWResult(I, Rs1, regfile[I.rd])
    BY SameOps
  <1> QED BY <1>1, <1>2, <1>3, <1>4 DEF H!Value

\* The pc that Hart goes to.
LEMMA TargetCases ==
    ASSUME TypeOK
    PROVE  /\ I.opcode = "OP_JAL" => H!Target = JumpTarget
           /\ I.opcode = "OP_JALR" => H!Target = Address - (Address % 2)
           /\ I.opcode = "OP_BRANCH" =>
                 H!Target = IF BranchTaken(I, Rs1, Rs2) THEN JumpTarget ELSE NextPc
           /\ I.opcode \notin {"OP_JAL", "OP_JALR", "OP_BRANCH"} => H!Target = NextPc
  <1>1. /\ H!I = I /\ H!A = Rs1 /\ H!B = Rs2 /\ H!Ea = Address
        /\ H!Next4 = NextPc /\ H!Wrap(pc + I.imm) = JumpTarget
    BY SameFetch, SameOperands
  <1>2. H!BranchTaken(I, Rs1, Rs2) <=> BranchTaken(I, Rs1, Rs2)
    BY SameOps
  <1> QED BY <1>1, <1>2 DEF H!Target

\* regfile with val in rd and x0 cleared is the register file of Hart with val
\* written to rd.
LEMMA WriteIsWritten ==
    ASSUME TypeOK, NEW val, I.opcode \notin NoTarget,
           regfile' = [WriteRd(val) EXCEPT ![0] = 0]
    PROVE  Shown' = H!Written(val)
  <1>1. I.rd \in Reg /\ regfile \in [Reg -> Word] /\ Reg' = Reg
    BY OperandTypes DEF TypeOK, Reg
  <1>2. H!Written(val) = IF I.rd = 0 THEN Shown ELSE [Shown EXCEPT ![I.rd] = val]
    BY SameFetch DEF H!Written, NoTarget, Shown
  <1>3. Shown' = [r \in Reg \ {0} |-> regfile'[r]]
    BY <1>1 DEF Shown
  <1>4. CASE I.rd = 0
    BY <1>1, <1>2, <1>3, <1>4 DEF WriteRd, Shown
  <1>5. CASE I.rd # 0
    BY <1>1, <1>2, <1>3, <1>5 DEF WriteRd, Shown
  <1> QED BY <1>4, <1>5

\* A register file left alone is a write of the old value, or no write.
LEMMA KeepIsWritten ==
    ASSUME TypeOK, NEW val, I.opcode \in NoTarget \/ I.rd = 0 \/ val = regfile[I.rd],
           regfile' = [regfile EXCEPT ![0] = 0]
    PROVE  Shown' = H!Written(val)
  <1>1. I.rd \in Reg /\ regfile \in [Reg -> Word] /\ Reg' = Reg
    BY OperandTypes DEF TypeOK, Reg
  <1>2. H!Written(val) = IF I.rd = 0 \/ I.opcode \in NoTarget THEN Shown
                         ELSE [Shown EXCEPT ![I.rd] = val]
    BY SameFetch DEF H!Written, NoTarget, Shown
  <1>3. Shown' = Shown
    BY <1>1 DEF Shown
  <1>4. CASE I.rd = 0 \/ I.opcode \in NoTarget
    BY <1>2, <1>3, <1>4
  <1>5. CASE I.rd # 0 /\ val = regfile[I.rd]
    <2>1. [Shown EXCEPT ![I.rd] = val] = Shown
      BY <1>1, <1>5 DEF Shown
    <2> QED BY <1>2, <1>3, <2>1
  <1> QED BY <1>4, <1>5

\* The store of Hart changes the cells of its one memory that bus_write changes in
\* cpu.ram.
LEMMA StoreIsStored ==
    ASSUME TypeOK, I.opcode = "OP_STORE", rom' = rom,
           ram' = bus_write(ram, Address, I.funct3, Rs2)
    PROVE  Joined' = H!Stored
  <1> DEFINE op == I.funct3
             p == Address - RAM_START
             stores == op \in StoreOps /\ InRam(Address, op)
             written == IF stores THEN p .. p + Reach(op) ELSE {}
  <1>1. /\ Address \in Word /\ Address \in Int /\ RAM_START \in Nat /\ RAM_SIZE \in Nat
        /\ ROM_SIZE \in Nat /\ RAM_START >= ROM_SIZE
    BY OperandTypes, Moduli, ArchAssumption DEF Word
  <1>2. Joined' = [m \in H!Mapped |-> IF m \in RomCells THEN rom[m] ELSE ram'[m - RAM_START]]
    BY DEF Joined, H!Mapped, H!RomAddrs, H!RamAddrs, RomCells
  <1>3. H!Stored = IF stores
                   THEN [m \in H!Mapped |-> IF m \in H!Span(Address, op)
                                            THEN (Rs2 \div Scale(m - Address)) % ByteMod
                                            ELSE Joined[m]]
                   ELSE Joined
    <2>1. H!Stored = IF H!I.opcode = "OP_STORE" /\ H!CanStore(H!Ea, H!I.funct3)
                     THEN [m \in H!Mapped |-> IF m \in H!Span(H!Ea, H!I.funct3)
                                              THEN (H!B \div H!Scale(m - H!Ea)) % ByteMod
                                              ELSE Joined[m]]
                     ELSE Joined
      BY DEF H!Stored, Joined
    <2>2. H!I = I /\ H!Ea = Address /\ H!B = Rs2
      BY SameFetch, SameOperands
    <2>3. H!CanStore(Address, op) <=> stores
      BY <1>1, CanStoreIsMapped
    <2>4. \A m : H!Scale(m - Address) = Scale(m - Address)
      BY SameScale
    <2> HIDE DEF stores
    <2> QED BY <2>1, <2>2, <2>3, <2>4
  <1>4. ram' = [c \in RamCells |-> IF c \in written THEN (Rs2 \div Scale(c - p)) % ByteMod
                                   ELSE ram[c]]
    BY DEF bus_write
  <1>5. ASSUME NEW m \in H!Mapped, m \notin RomCells
        PROVE  m \in Int /\ m - RAM_START \in RamCells
    BY <1>1, <1>5 DEF H!Mapped, H!RomAddrs, H!RamAddrs, RomCells, RamCells
  <1>6. Joined = [m \in H!Mapped |-> IF m \in RomCells THEN rom[m] ELSE ram[m - RAM_START]]
    BY DEF Joined, H!Mapped, H!RomAddrs, H!RamAddrs, RomCells
  <1>7. CASE ~ stores
    <2>1. \A m \in H!Mapped : m \notin RomCells => ram'[m - RAM_START] = ram[m - RAM_START]
      BY <1>4, <1>5, <1>7
    <2> QED BY <1>2, <1>3, <1>6, <1>7, <2>1
  <1>8. CASE stores
    <2>1. /\ H!Span(Address, op) = Address .. Address + Reach(op)
          /\ Reach(op) \in Nat /\ Address >= RAM_START
      BY <1>1, <1>8, SpanInRegion, ReachWidth DEF InRam
    <2>2. ASSUME NEW m \in H!Mapped, m \in RomCells
          PROVE  m \notin H!Span(Address, op)
      BY <1>1, <2>1, <2>2 DEF RomCells
    <2>3. ASSUME NEW m \in H!Mapped, m \notin RomCells
          PROVE  /\ m \in H!Span(Address, op) <=> m - RAM_START \in written
                 /\ (m - RAM_START) - p = m - Address
      BY <1>1, <1>5, <1>8, <2>1, <2>3
    <2>4. ASSUME NEW m \in H!Mapped, m \notin RomCells
          PROVE  ram'[m - RAM_START] = IF m \in H!Span(Address, op)
                                       THEN (Rs2 \div Scale(m - Address)) % ByteMod
                                       ELSE ram[m - RAM_START]
      <3> HIDE DEF p, written
      <3> QED BY <1>4, <1>5, <2>3, <2>4
    <2>5. ASSUME NEW m \in H!Mapped
          PROVE  (IF m \in RomCells THEN rom[m] ELSE ram'[m - RAM_START])
                   = IF m \in H!Span(Address, op)
                     THEN (Rs2 \div Scale(m - Address)) % ByteMod ELSE Joined[m]
      BY <1>6, <2>2, <2>4
    <2> QED BY <1>2, <1>3, <1>8, <2>5
  <1> QED BY <1>7, <1>8

\* Every other instruction leaves the memory alone.
LEMMA NoStore ==
    ASSUME TypeOK, I.opcode # "OP_STORE", rom' = rom, ram' = ram
    PROVE  Joined' = H!Stored
  BY SameFetch DEF H!Stored, Joined

-----------------------------------------------------------------------------
(* The steps *)

\* When Hart stops and when it prints.
LEMMA EnvCases ==
    ASSUME TypeOK
    PROVE  /\ H!Exits <=> /\ I.opcode = "OP_SYS" /\ I.funct3 = 0
                          /\ I.uimm = 1 \/ regfile[A0] = E_EXIT
           /\ H!Prints <=> /\ I.opcode = "OP_SYS" /\ I.funct3 = 0
                           /\ I.uimm # 1 /\ regfile[A0] = E_CHAR
           /\ H!X(H!A1) = regfile[A1]
  <1>1. H!X(H!A0) = regfile[A0] /\ H!X(H!A1) = regfile[A1]
    BY SameOperands DEF H!A0, H!A1, A0, A1, Reg
  <1>2. H!E_EXIT = E_EXIT /\ H!E_CHAR = E_CHAR
    BY DEF H!E_EXIT, H!E_CHAR, E_EXIT, E_CHAR
  <1> QED BY <1>1, <1>2, SameFetch DEF H!Exits, H!Prints, H!IsEnv

\* What is left to show of an instruction once its registers, memory and target are
\* those of Hart.
LEMMA StepIsHartStep ==
    ASSUME TypeOK, phase = "loop", instr_loop, Fetched # 0, phase' = "loop",
           NEW counter \in Word, Shown' = H!Written(H!Value(counter)),
           Joined' = H!Stored, pc' = H!Target,
           instr_loop' <=> ~ H!Exits,
           out' = IF H!Prints THEN Append(out, regfile[A1] % ByteMod) ELSE out
    PROVE  H!Step
  <1>1. \E c \in H!Word : [r \in Reg \ {0} |-> regfile[r]]' = H!Written(H!Value(c))
    BY SameModuli DEF Shown
  <1>2. [m \in RomCells \cup (RAM_START .. RAM_START + RAM_SIZE - 1) |->
            IF m \in RomCells THEN rom[m] ELSE ram[m - RAM_START]]' = H!Stored
    BY DEF Joined
  <1>3. out' = IF H!Prints THEN Append(out, H!X(H!A1) % ByteMod) ELSE out
    BY EnvCases
  <1>4. H!Word32 # 0
    BY SameFetch
  <1> QED BY <1>1, <1>2, <1>3, <1>4 DEF H!Step

\* An instruction that is no environment call.
LEMMA QuietStep ==
    ASSUME TypeOK, LoopGuard, phase = "loop", Fetched # 0, phase' = "loop",
           I.opcode # "OP_SYS" \/ I.funct3 # 0,
           NEW counter \in Word, Shown' = H!Written(H!Value(counter)),
           Joined' = H!Stored, pc' = H!Target, UNCHANGED <<instr_loop, out>>
    PROVE  H!Step
  <1>1. instr_loop /\ ~ H!Exits /\ ~ H!Prints
    BY EnvCases DEF LoopGuard
  <1>2. instr_loop' <=> ~ H!Exits
    BY <1>1
  <1>3. out' = IF H!Prints THEN Append(out, regfile[A1] % ByteMod) ELSE out
    BY <1>1
  <1> QED BY <1>1, <1>2, <1>3, StepIsHartStep

\* The instructions that write the result of a computation to rd and go on.
LEMMA ComputeStep ==
    ASSUME TypeOK, RType \/ Imm \/ RTypeW \/ ImmW \/ Load \/ Auipc \/ Lui
    PROVE  H!Step
  <1>1. 0 \in Word
    BY Moduli DEF Word
  <1>2. ASSUME NEW stalls, NEW val, Commit(stalls, WriteRd(val), NextPc),
               val = H!Value(0), LoopGuard, phase = "loop", Fetched # 0,
               I.opcode \notin NoTarget, I.opcode \notin {"OP_SYS", "OP_JAL", "OP_JALR"},
               UNCHANGED <<ram, instr_loop, out>>
        PROVE  H!Step
    <2>1. regfile' = [WriteRd(val) EXCEPT ![0] = 0] /\ pc' = NextPc /\ rom' = rom
          /\ phase' = "loop"
      BY <1>2 DEF Commit
    <2>2. Shown' = H!Written(H!Value(0))
      BY <1>2, <2>1, WriteIsWritten
    <2>3. Joined' = H!Stored
      BY <1>2, <2>1, NoStore DEF NoTarget
    <2>4. pc' = H!Target
      BY <1>2, <2>1, TargetCases DEF NoTarget
    <2> QED BY <1>1, <1>2, <2>1, <2>2, <2>3, <2>4, QuietStep
  <1>3. CASE RType
    BY <1>2, <1>3, ValueCases DEF RType, Executing, NoTarget
  <1>4. CASE Imm
    BY <1>2, <1>4, ValueCases DEF Imm, Executing, NoTarget
  <1>5. CASE RTypeW
    BY <1>2, <1>5, ValueCases DEF RTypeW, Executing, NoTarget
  <1>6. CASE ImmW
    BY <1>2, <1>6, ValueCases DEF ImmW, Executing, NoTarget
  <1>7. CASE Load
    BY <1>2, <1>7, ValueCases DEF Load, Executing, NoTarget
  <1>8. CASE Auipc
    BY <1>2, <1>8, ValueCases DEF Auipc, Executing, NoTarget
  <1>9. CASE Lui
    BY <1>2, <1>9, ValueCases DEF Lui, Executing, NoTarget
  <1> QED BY <1>3, <1>4, <1>5, <1>6, <1>7, <1>8, <1>9

\* The two jumps, which also write rd.
LEMMA JumpStep ==
    ASSUME TypeOK, Jal \/ Jalr
    PROVE  H!Step
  <1>1. 0 \in Word
    BY Moduli DEF Word
  <1>2. /\ LoopGuard /\ phase = "loop" /\ Fetched # 0 /\ phase' = "loop" /\ rom' = rom
        /\ I.opcode \in {"OP_JAL", "OP_JALR"} /\ UNCHANGED <<ram, instr_loop, out>>
        /\ regfile' = [WriteRd(NextPc) EXCEPT ![0] = 0]
    BY DEF Jal, Jalr, Executing, Commit
  <1>3. pc' = H!Target
    BY TargetCases DEF Jal, Jalr, Executing, Commit
  <1>4. H!Value(0) = NextPc
    BY <1>2, ValueCases
  <1>5. Shown' = H!Written(H!Value(0))
    BY <1>2, <1>4, WriteIsWritten DEF NoTarget
  <1>6. Joined' = H!Stored
    BY <1>2, NoStore
  <1> QED BY <1>1, <1>2, <1>3, <1>5, <1>6, QuietStep

\* The instructions without a target register.
LEMMA NoTargetStep ==
    ASSUME TypeOK, Store \/ Branch \/ Nop
    PROVE  H!Step
  <1>1. 0 \in Word
    BY Moduli DEF Word
  <1>2. /\ LoopGuard /\ phase = "loop" /\ Fetched # 0 /\ phase' = "loop" /\ rom' = rom
        /\ I.opcode \in NoTarget /\ UNCHANGED <<instr_loop, out>>
        /\ regfile' = [regfile EXCEPT ![0] = 0]
    BY DEF Store, Branch, Nop, Executing, Commit, NoTarget
  <1>3. Shown' = H!Written(H!Value(0))
    BY <1>2, KeepIsWritten
  <1>4. Joined' = H!Stored
    <2>1. CASE Store
      BY <1>2, <2>1, StoreIsStored DEF Store, Executing
    <2>2. CASE Branch \/ Nop
      <3>1. I.opcode # "OP_STORE" /\ ram' = ram
        BY <2>2 DEF Branch, Nop, Executing
      <3> QED BY <1>2, <3>1, NoStore
    <2> QED BY <2>1, <2>2
  <1>5. pc' = H!Target
    <2>1. CASE Branch
      BY <2>1, TargetCases DEF Branch, Executing, Commit
    <2>2. CASE Store \/ Nop
      <3>1. pc' = NextPc /\ I.opcode \notin {"OP_JAL", "OP_JALR", "OP_BRANCH"}
        BY <2>2 DEF Store, Nop, Executing, Commit
      <3> QED BY <3>1, TargetCases
    <2> QED BY <2>1, <2>2
  <1>6. I.opcode # "OP_SYS"
    BY <1>2 DEF NoTarget
  <1> QED BY <1>1, <1>2, <1>3, <1>4, <1>5, <1>6, QuietStep

\* ecall and ebreak, the only instructions that stop the hart or print.
LEMMA EnvironmentStep ==
    ASSUME TypeOK, Ebreak \/ Ecall
    PROVE  H!Step
  <1>1. 0 \in Word
    BY Moduli DEF Word
  <1>2. /\ instr_loop /\ phase = "loop" /\ Fetched # 0 /\ phase' = "loop" /\ rom' = rom
        /\ I.opcode = "OP_SYS" /\ I.funct3 = 0 /\ ram' = ram /\ pc' = NextPc
        /\ regfile' = [regfile EXCEPT ![0] = 0]
    BY DEF Ebreak, Ecall, Executing, Commit, LoopGuard
  <1>3. H!Value(0) = regfile[I.rd]
    BY <1>2, ValueCases
  <1>4. Shown' = H!Written(H!Value(0))
    BY <1>2, <1>3, KeepIsWritten
  <1>5. Joined' = H!Stored
    BY <1>2, NoStore
  <1>6. pc' = H!Target
    BY <1>2, TargetCases
  <1>7. instr_loop' <=> ~ H!Exits
    BY <1>2, EnvCases DEF Ebreak, Ecall
  <1>8. out' = IF H!Prints THEN Append(out, regfile[A1] % ByteMod) ELSE out
    BY <1>2, EnvCases DEF Ebreak, Ecall
  <1> QED BY <1>1, <1>2, <1>4, <1>5, <1>6, <1>7, <1>8, StepIsHartStep

\* The CSR instructions: the counter they read is any value to Hart, which has no
\* clock.
LEMMA CsrStep ==
    ASSUME TypeOK, Csr \/ SysOther
    PROVE  H!Step
  <1> DEFINE counter == read_csr(I.uimm)
  <1>1. counter \in Word
    BY CsrType
  <1>2. /\ LoopGuard /\ phase = "loop" /\ Fetched # 0 /\ phase' = "loop" /\ rom' = rom
        /\ I.opcode = "OP_SYS" /\ I.funct3 # 0 /\ UNCHANGED <<ram, instr_loop, out>>
        /\ pc' = NextPc
    BY DEF Csr, SysOther, Executing, Commit
  <1> HIDE DEF counter
  <1>3. Shown' = H!Written(H!Value(counter))
    <2>1. CASE SysOther
      <3>1. H!Value(counter) = regfile[I.rd] /\ regfile' = [regfile EXCEPT ![0] = 0]
        BY <1>2, <2>1, ValueCases DEF SysOther, Commit
      <3> QED BY <3>1, KeepIsWritten
    <2>2. CASE Csr
      <3>1. H!Value(counter) = counter
        BY <1>2, <2>2, ValueCases DEF Csr
      <3>2. CASE I.funct3 \in {1, 5} /\ I.rd = 0
        <4>1. regfile' = [regfile EXCEPT ![0] = 0]
          BY <2>2, <3>2 DEF Csr, Commit
        <4> QED BY <3>2, <4>1, KeepIsWritten
      <3>3. CASE ~ (I.funct3 \in {1, 5} /\ I.rd = 0)
        <4>1. regfile' = [WriteRd(counter) EXCEPT ![0] = 0]
          BY <2>2, <3>3 DEF Csr, Commit, counter
        <4> QED BY <1>2, <3>1, <4>1, WriteIsWritten DEF NoTarget
      <3> QED BY <3>2, <3>3
    <2> QED BY <2>1, <2>2
  <1>4. Joined' = H!Stored
    BY <1>2, NoStore
  <1>5. pc' = H!Target
    BY <1>2, TargetCases
  <1> QED BY <1>1, <1>2, <1>3, <1>4, <1>5, QuietStep

\* main before its loop: the image goes to the ROM, and an early return stops a hart
\* that never started.
LEMMA BootStep ==
    ASSUME TypeOK, OutcomeInv, Usage \/ OpenFails \/ LoadRom, TypeOK'
    PROVE  H!Start \/ H!Halt
  <1> DEFINE mapped == RomCells \cup (RAM_START .. RAM_START + RAM_SIZE - 1)
  <1>1. phase = "boot" /\ instr_loop /\ instr_loop' = instr_loop /\ ram' = ram /\ pc' = pc
        /\ regfile' = regfile /\ out' = out
    BY DEF Usage, OpenFails, LoadRom, OutcomeInv, memory, counters
  <1>2. CASE LoadRom
    <2>1. phase' = "loop"
      BY <1>2 DEF LoadRom
    <2>2. rom' \in [RomCells -> Byte] /\ ram' \in [RamCells -> Byte]
      BY DEF TypeOK
    <2>3. ASSUME NEW m \in mapped, m \notin RomCells
          PROVE  m - RAM_START \in RamCells
      BY <2>3, ArchAssumption DEF RomCells, RamCells
    <2>4. Joined' = [m \in mapped |-> IF m \in RomCells THEN rom'[m] ELSE ram'[m - RAM_START]]
      BY DEF Joined, RomCells
    <2>5. H!Mapped = mapped /\ H!RamAddrs = RAM_START .. RAM_START + RAM_SIZE - 1
      BY DEF H!Mapped, H!RomAddrs, H!RamAddrs, RomCells
    <2>6. Joined' \in [H!Mapped -> H!Byte]
      BY <2>2, <2>3, <2>4, <2>5, SameModuli
    <2>7. ASSUME NEW m \in H!RamAddrs
          PROVE  Joined'[m] = Joined[m]
      <3>1. m \in mapped /\ m \notin RomCells
        BY <2>5, <2>7, ArchAssumption DEF RomCells
      <3> QED BY <1>1, <2>4, <3>1 DEF Joined
    <2> QED BY <1>1, <2>1, <2>6, <2>7 DEF H!Start, Joined
  <1>3. CASE Usage \/ OpenFails
    <2>1. rom' = rom /\ phase' \in {"usage", "open_failed"}
      BY <1>3 DEF Usage, OpenFails, memory
    <2> QED BY <1>1, <2>1 DEF H!Halt
  <1> QED BY <1>2, <1>3

\* main leaves its loop: a running hart is stopped, a stopped one stays as it is.
LEMMA EndStep ==
    ASSUME TypeOK, ZeroInstr \/ Report
    PROVE  H!Halt \/ UNCHANGED H!hartVars
  <1>1. /\ phase = "loop" /\ phase' \in Outcomes /\ instr_loop' = instr_loop /\ rom' = rom
        /\ ram' = ram /\ pc' = pc /\ regfile' = regfile /\ out' = out
    BY DEF ZeroInstr, Report, Outcomes, memory, counters
  <1>2. phase' # "boot" /\ phase' # "loop"
    BY <1>1 DEF Outcomes
  <1> QED BY <1>1, <1>2 DEF H!Halt, H!hartVars

\* Every step of the emulator is a step of the hart or leaves it alone.
LEMMA HartNext ==
    ASSUME TypeOK, TypeOK', OutcomeInv, [Next]_vars
    PROVE  [H!Next]_H!hartVars
  <1>1. CASE Instr
    BY <1>1, ComputeStep, JumpStep, NoTargetStep, EnvironmentStep, CsrStep DEF Instr, H!Next
  <1>2. CASE Usage \/ OpenFails \/ LoadRom
    BY <1>2, BootStep DEF H!Next
  <1>3. CASE ZeroInstr \/ Report
    BY <1>3, EndStep DEF H!Next
  <1>4. CASE UNCHANGED vars
    BY <1>4 DEF vars, H!hartVars
  <1> QED BY <1>1, <1>2, <1>3, <1>4 DEF Next, Loop

\* The zeroed machine is the hart before its reset.
LEMMA HartInit == Init => H!Init
  <1> SUFFICES ASSUME Init PROVE H!Init
    OBVIOUS
  <1>1. [m \in RomCells \cup (RAM_START .. RAM_START + RAM_SIZE - 1) |->
            IF m \in RomCells THEN rom[m] ELSE ram[m - RAM_START]] = [m \in H!Mapped |-> 0]
    <2>1. H!Mapped = RomCells \cup (RAM_START .. RAM_START + RAM_SIZE - 1)
      BY DEF H!Mapped, H!RomAddrs, H!RamAddrs, RomCells
    <2>2. ASSUME NEW m \in H!Mapped
          PROVE  (IF m \in RomCells THEN rom[m] ELSE ram[m - RAM_START]) = 0
      <3>1. m \notin RomCells => m - RAM_START \in RamCells
        BY <2>1, <2>2, ArchAssumption DEF RomCells, RamCells
      <3> QED BY <3>1 DEF Init
    <2> QED BY <2>1, <2>2
  <1> QED BY <1>1 DEF Init, H!Init, H!Reg, Reg

\* A guest cannot tell the emulator from a RISC-V hart without a clock: the array
\* indices, the slot of x0, the fetch through bus_read, the pipeline model and the
\* counters of src/cpu leave no trace but in the counters it reads and in when it
\* is stopped.
THEOREM HartImplemented == Spec => HartSpec
  <1>1. Init => OutcomeInv
    BY DEF Init, OutcomeInv, OutcomeExplained
  <1>2. TypeOK /\ TypeOK' /\ OutcomeInv /\ [Next]_vars => [H!Next]_H!hartVars
    BY HartNext
  <1> QED BY <1>1, <1>2, HartInit, TypeCorrect, OutcomeNext, PTL DEF Spec, HartSpec, H!Spec

=============================================================================
