---------------------------------- MODULE Core ----------------------------------
(***************************************************************************)
(* The emulator: main (src/main.c) around process_instr (src/cpu/core.c).  *)
(* It is one sequential program.  Before the loop it may fail or load an   *)
(* image; after that each instruction action is one whole iteration of     *)
(* the main loop: the fetch over the bus, the case of process_instr for    *)
(* the opcode with every cycle it charges, and the commit at its end.      *)
(***************************************************************************)
EXTENDS Isa, Perf, Sequences

CONSTANT Images       \* the files that may be given as a ROM, as sequences of bytes

ASSUME ImagesAssumption == Images \subseteq Seq(Byte)

VARIABLES
    rom, ram,             \* cpu.rom and cpu.ram
    regfile, pc,          \* cpu.regfile and cpu.pc
    mcycle, minstret,     \* the counters of src/cpu/csr.c
    perf_model,
    phase,                \* where main is: before, in, or past its loop
    instr_loop,           \* what process_instr returned
    out                   \* the bytes given to putchar

memory   == <<rom, ram>>
counters == <<mcycle, minstret, perf_model>>
vars == <<rom, ram, regfile, pc, mcycle, minstret, perf_model, phase, instr_loop, out>>

\* How main can end: its three early returns and its two reports.
Outcomes == {"usage", "open_failed", "zero_instr", "total_cycles", "cycle_limit"}

\* 64-bit counters stay far below their width: the limit stops them.
Init ==
    /\ rom = [c \in RomCells |-> 0]
    /\ ram = [c \in RamCells |-> 0]
    /\ regfile = [r \in Reg |-> 0]
    /\ pc = 0
    /\ mcycle = 4
    /\ minstret = 0
    /\ perf_model = PerfZero
    /\ phase = "boot"
    /\ instr_loop = TRUE
    /\ out = <<>>

-----------------------------------------------------------------------------
(* main, before and after its loop *)

\* argc # 2
Usage ==
    /\ phase = "boot"
    /\ phase' = "usage"
    /\ UNCHANGED <<memory, regfile, pc, counters, instr_loop, out>>

\* fopen fails
OpenFails ==
    /\ phase = "boot"
    /\ phase' = "open_failed"
    /\ UNCHANGED <<memory, regfile, pc, counters, instr_loop, out>>

\* fread fills the ROM from its start and drops what does not fit.
LoadRom ==
    /\ phase = "boot"
    /\ \E image \in Images :
          rom' = [c \in RomCells |-> IF c < Len(image) THEN image[c + 1] ELSE 0]
    /\ phase' = "loop"
    /\ UNCHANGED <<ram, regfile, pc, counters, instr_loop, out>>

\* The condition of the while loop.
LoopGuard == instr_loop /\ mcycle < MAX_CYCLES

\* The instruction word at pc: bus_val starts as 0 and is truncated to 32 bits.
Fetched    == bus_read(rom, ram, pc, MEM_W, 0) % WordMod
FetchStall == ReadStall(pc, MEM_W)

\* A zero word ends the program without a report; the cycles are counted.
ZeroInstr ==
    /\ phase = "loop"
    /\ LoopGuard
    /\ Fetched = 0
    /\ mcycle' = mcycle + FetchStall
    /\ phase' = "zero_instr"
    /\ UNCHANGED <<memory, regfile, pc, minstret, perf_model, instr_loop, out>>

\* Mutant: the report takes the limit itself for a total.
ReportAtLimit ==
    /\ phase = "loop"
    /\ ~ LoopGuard
    /\ phase' = IF mcycle <= MAX_CYCLES THEN "total_cycles" ELSE "cycle_limit"
    /\ UNCHANGED <<memory, regfile, pc, counters, instr_loop, out>>

\* Mutant: main does not leave the loop at the limit.
ReportTotalOnly ==
    /\ phase = "loop"
    /\ ~ instr_loop
    /\ phase' = "total_cycles"
    /\ UNCHANGED <<memory, regfile, pc, counters, instr_loop, out>>

\* The loop ends, and the report looks at the counter alone.
Report ==
    /\ phase = "loop"
    /\ ~ LoopGuard
    /\ phase' = IF mcycle < MAX_CYCLES THEN "total_cycles" ELSE "cycle_limit"
    /\ UNCHANGED <<memory, regfile, pc, counters, instr_loop, out>>

-----------------------------------------------------------------------------
(* process_instr *)

I == Decode(Fetched)

\* The local `instr` once its case has filled it: fields a case does not assign
\* stay 0 or false, and OP_SYS never sets is_reg_write.
instr ==
    [rs1 |-> IF I.opcode \in {"OP_RTYPE", "OP_RTYPEW", "OP_IMM", "OP_IMMW", "OP_LOAD",
                              "OP_STORE", "OP_BRANCH", "OP_JALR", "OP_SYS"}
             THEN I.rs1 ELSE 0,
     rs2 |-> IF I.opcode \in {"OP_RTYPE", "OP_RTYPEW", "OP_STORE", "OP_BRANCH"}
             THEN I.rs2 ELSE 0,
     rd  |-> IF I.opcode \notin {"OP_STORE", "OP_BRANCH", "OP_FENCE", "OP_OTHER"}
             THEN I.rd ELSE 0,
     is_reg_write |-> I.opcode \notin {"OP_STORE", "OP_BRANCH", "OP_FENCE", "OP_OTHER",
                                       "OP_SYS"},
     is_mem_load  |-> I.opcode = "OP_LOAD"]

Rs1 == regfile[I.rs1]
Rs2 == regfile[I.rs2]

\* The address of a load, of a store and of the target of JALR.
Address == Wrap(Rs1 + I.imm)

Hazard       == PERF_MODEL_HAZARD(perf_model, instr)
BranchHazard == PERF_MODEL_BRANCH_HAZARD(perf_model, instr)

NextPc     == Wrap(pc + 4)
JumpTarget == Wrap(pc + I.imm)

\* The fetch has produced a word of one of the given opcodes.
Executing(op) ==
    /\ phase = "loop"
    /\ LoopGuard
    /\ Fetched # 0
    /\ I.opcode = op

\* Mutant: x0 is not cleared.
CommitKeepsX0(stalls, regs, next_pc) ==
    /\ mcycle' = mcycle + FetchStall + stalls + 1
    /\ minstret' = minstret + 1
    /\ perf_model' = PERF_MODEL_CYCLE(perf_model, instr)
    /\ pc' = next_pc
    /\ regfile' = regs
    /\ UNCHANGED <<rom, phase>>

\* Mutant: only the stalls are counted.
CommitStallsOnly(stalls, regs, next_pc) ==
    /\ mcycle' = mcycle + FetchStall + stalls
    /\ minstret' = minstret + 1
    /\ perf_model' = PERF_MODEL_CYCLE(perf_model, instr)
    /\ pc' = next_pc
    /\ regfile' = [regs EXCEPT ![0] = 0]
    /\ UNCHANGED <<rom, phase>>

\* The common end: regs is regfile as the case leaves it.
Commit(stalls, regs, next_pc) ==
    /\ mcycle' = mcycle + FetchStall + stalls + 1
    /\ minstret' = minstret + 1
    /\ perf_model' = PERF_MODEL_CYCLE(perf_model, instr)
    /\ pc' = next_pc
    /\ regfile' = [regs EXCEPT ![0] = 0]
    /\ UNCHANGED <<rom, phase>>

\* regfile with val in the target register.
WriteRd(val) == [regfile EXCEPT ![I.rd] = val]

RType ==
    /\ Executing("OP_RTYPE")
    /\ Commit(Hazard, WriteRd(RTypeResult(I, Rs1, Rs2, regfile[I.rd])), NextPc)
    /\ UNCHANGED <<ram, instr_loop, out>>

Imm ==
    /\ Executing("OP_IMM")
    /\ Commit(Hazard, WriteRd(ImmResult(I, Rs1)), NextPc)
    /\ UNCHANGED <<ram, instr_loop, out>>

RTypeW ==
    /\ Executing("OP_RTYPEW")
    /\ Commit(Hazard, WriteRd(RTypeWResult(I, Rs1, Rs2, regfile[I.rd])), NextPc)
    /\ UNCHANGED <<ram, instr_loop, out>>

ImmW ==
    /\ Executing("OP_IMMW")
    /\ Commit(Hazard, WriteRd(ImmWResult(I, Rs1, regfile[I.rd])), NextPc)
    /\ UNCHANGED <<ram, instr_loop, out>>

\* The bus writes through a pointer to regfile[rd].
Load ==
    /\ Executing("OP_LOAD")
    /\ Commit(Hazard + ReadStall(Address, I.funct3),
              WriteRd(bus_read(rom, ram, Address, I.funct3, regfile[I.rd])), NextPc)
    /\ UNCHANGED <<ram, instr_loop, out>>

Store ==
    /\ Executing("OP_STORE")
    /\ ram' = bus_write(ram, Address, I.funct3, Rs2)
    /\ Commit(Hazard + WriteStall(Address, I.funct3), regfile, NextPc)
    /\ UNCHANGED <<instr_loop, out>>

Branch ==
    /\ Executing("OP_BRANCH")
    /\ IF BranchTaken(I, Rs1, Rs2)
       THEN Commit(BranchHazard + PERF_MODEL_BRANCH_TAKEN, regfile, JumpTarget)
       ELSE Commit(BranchHazard, regfile, NextPc)
    /\ UNCHANGED <<ram, instr_loop, out>>

\* FENCE does nothing, and an unknown opcode only prints a warning.
Nop ==
    /\ Executing("OP_FENCE") \/ Executing("OP_OTHER")
    /\ Commit(0, regfile, NextPc)
    /\ UNCHANGED <<ram, instr_loop, out>>

Auipc ==
    /\ Executing("OP_AUIPC")
    /\ Commit(0, WriteRd(JumpTarget), NextPc)
    /\ UNCHANGED <<ram, instr_loop, out>>

Lui ==
    /\ Executing("OP_LUI")
    /\ Commit(0, WriteRd(I.imm), NextPc)
    /\ UNCHANGED <<ram, instr_loop, out>>

Jal ==
    /\ Executing("OP_JAL")
    /\ Commit(PERF_MODEL_BRANCH_TAKEN, WriteRd(NextPc), JumpTarget)
    /\ UNCHANGED <<ram, instr_loop, out>>

\* Mutant: the link register is written before the target is read.
JalrLinkFirst ==
    /\ Executing("OP_JALR")
    /\ LET linked == WriteRd(NextPc)
           ea == Wrap(linked[I.rs1] + I.imm)
       IN  Commit(BranchHazard + PERF_MODEL_BRANCH_TAKEN, linked, ea - (ea % 2))
    /\ UNCHANGED <<ram, instr_loop, out>>

\* The target is read before the link register is written, and is made even.
Jalr ==
    /\ Executing("OP_JALR")
    /\ Commit(BranchHazard + PERF_MODEL_BRANCH_TAKEN, WriteRd(NextPc),
              Address - (Address % 2))
    /\ UNCHANGED <<ram, instr_loop, out>>

-----------------------------------------------------------------------------
(* OP_SYS *)

\* The two immediate forms and the two unused ones have bit 2 of funct3 set.
IsImm == I.funct3 >= 4

\* Only the register forms check for a hazard.
SysHazard == IF IsImm THEN 0 ELSE Hazard

Ebreak ==
    /\ Executing("OP_SYS") /\ I.funct3 = 0
    /\ I.uimm = 1
    /\ instr_loop' = FALSE
    /\ Commit(SysHazard, regfile, NextPc)
    /\ UNCHANGED <<ram, out>>

\* Any other value of the immediate is an environment call.
Ecall ==
    /\ Executing("OP_SYS") /\ I.funct3 = 0
    /\ I.uimm # 1
    /\ instr_loop' = (regfile[A0] # E_EXIT)
    /\ out' = IF regfile[A0] = E_CHAR THEN Append(out, regfile[A1] % ByteMod) ELSE out
    /\ Commit(SysHazard, regfile, NextPc)
    /\ UNCHANGED ram

\* The cycles of the fetch and of the hazard are in the counter when a CSR
\* instruction reads it; the cycle of the instruction itself is not.
McycleAtRead == mcycle + FetchStall + SysHazard

read_csr(csr) ==
    CASE csr \in {2816, 3072} -> Wrap(McycleAtRead)
      [] csr \in {2818, 3074} -> Wrap(minstret)
      [] csr \in {2944, 3200} /\ ~ RV64 -> Wrap(McycleAtRead \div RegMod)
      [] csr \in {2946, 3202} /\ ~ RV64 -> Wrap(minstret \div RegMod)
      [] OTHER -> 0

\* The six CSR instructions: write_csr is empty, so what is left of them is the
\* read.  CSRRW with rd = x0 does not read, and x0 is cleared at the commit.
Csr ==
    /\ Executing("OP_SYS") /\ I.funct3 \notin {0, 4}
    /\ Commit(SysHazard,
              IF I.funct3 \in {1, 5} /\ I.rd = 0 THEN regfile
              ELSE WriteRd(read_csr(I.uimm)), NextPc)
    /\ UNCHANGED <<ram, instr_loop, out>>

\* funct3 = 4 has no case.
SysOther ==
    /\ Executing("OP_SYS") /\ I.funct3 = 4
    /\ Commit(SysHazard, regfile, NextPc)
    /\ UNCHANGED <<ram, instr_loop, out>>

-----------------------------------------------------------------------------
Instr ==
    \/ RType \/ Imm \/ RTypeW \/ ImmW \/ Load \/ Store \/ Branch \/ Nop
    \/ Auipc \/ Lui \/ Jal \/ Jalr \/ Ebreak \/ Ecall \/ Csr \/ SysOther

\* One evaluation of the loop of main.
Loop == Instr \/ ZeroInstr \/ Report

Next == Usage \/ OpenFails \/ LoadRom \/ Loop

\* A sequential program: the host keeps it running once it is in its loop.
Spec == Init /\ [][Next]_vars /\ WF_vars(Loop)

-----------------------------------------------------------------------------
(* Properties *)

\* Every variable has its C type; regfile[0] is zero between instructions.
TypeOK ==
    /\ rom \in [RomCells -> Byte]
    /\ ram \in [RamCells -> Byte]
    /\ regfile \in [Reg -> Word] /\ regfile[0] = 0
    /\ pc \in Word
    /\ mcycle \in Nat /\ minstret \in Nat
    /\ perf_model \in perf_model_t
    /\ phase \in {"boot", "loop"} \cup Outcomes
    /\ instr_loop \in BOOLEAN
    /\ out \in Seq(Byte)

\* The checks of inc/bus.h keep the accessors of inc/cpu.h, which index the host
\* arrays cpu.rom and cpu.ram without a check, inside those arrays: for the fetch
\* at any pc a guest can jump to, for the address of the load or store fetched,
\* and for every width.
InBounds(addr, op, ops) ==
    /\ RamTouched(addr, op, ops) \subseteq RamCells
    /\ RomTouched(addr, op, ops) \subseteq RomCells
HostAccessInBounds ==
    phase = "loop" =>
        /\ InBounds(pc, MEM_W, LoadOps)
        /\ I.opcode = "OP_LOAD" => InBounds(Address, I.funct3, LoadOps)
        /\ I.opcode = "OP_STORE" => RamTouched(Address, I.funct3, StoreOps) \subseteq RamCells

\* The two counters of src/cpu/csr.c stay in step: every retired instruction has
\* cost at least its own cycle and at most five stalls more (an unaligned fetch,
\* the three of a branch behind loads, and the flush), and the one that reaches
\* the limit of the main loop is the last, so the overshoot is bounded.
CycleBudget ==
    LET fetches == minstret + (IF phase = "zero_instr" THEN 1 ELSE 0)
    IN  /\ 4 + minstret <= mcycle
        /\ mcycle <= 4 + 6 * fetches
        /\ mcycle > 4 => mcycle < MAX_CYCLES + 6

\* What an outcome says of the run: a report of the total is given only for a
\* guest that stopped itself, below the limit; the silent return happens only to
\* a guest still running, at a pc that holds no instruction.
OutcomeExplained ==
    /\ phase = "total_cycles" => ~ instr_loop /\ mcycle < MAX_CYCLES
    /\ phase = "zero_instr" => instr_loop /\ Fetched = 0
    /\ phase = "cycle_limit" => mcycle >= MAX_CYCLES
    /\ phase = "loop" /\ ~ instr_loop => minstret > 0

\* The message of src/main.c:61, read as it stands: a program reported to have hit
\* the limit "without exiting" has not exited.
LimitMeansNoExit == phase = "cycle_limit" => instr_loop

\* The loop of main ends for every image: no instruction is free of charge, so an
\* endless program runs into the limit.
Terminates == phase = "loop" ~> phase \in Outcomes

\* The architectural state of the emulator implements Hart: addresses instead of
\* arrays, no slot for x0, and no clock.
H == INSTANCE Hart WITH
        mem <- [m \in RomCells \cup (RAM_START .. RAM_START + RAM_SIZE - 1) |->
                   IF m \in RomCells THEN rom[m] ELSE ram[m - RAM_START]],
        x <- [r \in Reg \ {0} |-> regfile[r]],
        mode <- IF phase = "boot" THEN "reset"
                ELSE IF phase = "loop" /\ instr_loop THEN "running" ELSE "halted"

HartSpec == H!Spec

=============================================================================
