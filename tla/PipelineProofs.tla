----------------------------- MODULE PipelineProofs -----------------------------
(***************************************************************************)
(* The timing model of inc/perf.h against the pipeline: two instructions   *)
(* of memory are enough for every program, decoder and arithmetic unit.    *)
(***************************************************************************)
EXTENDS Pipeline, CoreProofs

-----------------------------------------------------------------------------
(* The pipeline beside the emulator *)

\* The history variable does not restrict the emulator.
LEMMA PipeStepIsStep == [PipeNext]_pipeVars => [Next]_vars
  BY DEF PipeNext, PipeInstr, PipeRest, Next, Loop, Instr, pipeVars

\* So what holds of Core holds beside the pipeline.
LEMMA PipeImplementsCore == PipeSpec => Spec
  <1>1. PipeInit => Init
    BY DEF PipeInit
  <1> QED BY <1>1, PipeStepIsStep, PTL DEF PipeSpec, Spec

-----------------------------------------------------------------------------
(* What an instruction leaves in perf_model, and what it is charged *)

\* The formats that set is_reg_write.
Writes == I.opcode \notin {"OP_STORE", "OP_BRANCH", "OP_FENCE", "OP_OTHER", "OP_SYS"}

\* PERF_MODEL_CYCLE shifts the history by one instruction.
LEMMA Remembered ==
    ASSUME TypeOK, Instr
    PROVE  /\ perf_model'.prev_rd = instr.rd
           /\ perf_model'.prev2_rd = perf_model.prev_rd
           /\ perf_model'.prev_mem_load <=> I.opcode = "OP_LOAD"
           /\ perf_model'.prev2_mem_load <=> perf_model.prev_mem_load
           /\ perf_model'.prev_reg_write <=> Writes
  <1>1. perf_model' = PERF_MODEL_CYCLE(perf_model, instr)
    BY InstrCommits DEF Commit
  <1>2. /\ instr.is_mem_load <=> I.opcode = "OP_LOAD"
        /\ instr.is_reg_write <=> Writes
    BY DEF instr, Writes
  <1> QED BY <1>1, <1>2 DEF PERF_MODEL_CYCLE

\* The cycles that the hazard macros add for the instruction at hand.
Cost == IF ReadsEarly(I) THEN BranchHazard
        ELSE IF I.opcode \in {"OP_JAL", "OP_AUIPC", "OP_LUI", "OP_FENCE", "OP_OTHER"} THEN 0
        ELSE IF I.opcode = "OP_SYS" THEN SysHazard
        ELSE Hazard

\* Beside its own cycle, the flush and the memory, mcycle grows by these.
LEMMA ChargedIsCost ==
    ASSUME TypeOK, Instr
    PROVE  Charged(I) = Cost
  <1> DEFINE access == CASE I.opcode = "OP_LOAD"  -> ReadStall(Address, I.funct3)
                         [] I.opcode = "OP_STORE" -> WriteStall(Address, I.funct3)
                         [] OTHER -> 0
  <1>1. MemoryStall(I) = FetchStall + access
    BY DEF MemoryStall, Address, Rs1
  <1>2. Flush(I) = IF \/ I.opcode \in {"OP_JAL", "OP_JALR"}
                      \/ I.opcode = "OP_BRANCH" /\ BranchTaken(I, Rs1, Rs2) THEN 1 ELSE 0
    BY DEF Flush, Rs1, Rs2
  <1>3. /\ mcycle \in Nat /\ FetchStall \in {0, 1}
        /\ Hazard \in {0, 1} /\ BranchHazard \in 0 .. 3 /\ SysHazard \in {0, 1}
        /\ access \in {0, 1} /\ Flush(I) \in {0, 1}
    BY <1>2, FetchType, HazardStall, AccessStall DEF TypeOK, Hazard, BranchHazard, SysHazard
  <1>4. Cost \in 0 .. 3
    BY <1>3 DEF Cost
  <1>5. mcycle' = mcycle + FetchStall + (Cost + access + Flush(I)) + 1
    <2>1. CASE RType \/ Imm \/ RTypeW \/ ImmW
      <3>1. Cost = Hazard /\ access = 0 /\ Flush(I) = 0
        BY <1>2, <2>1 DEF RType, Imm, RTypeW, ImmW, Executing, Cost, ReadsEarly
      <3>2. mcycle' = mcycle + FetchStall + Hazard + 1
        BY <2>1 DEF RType, Imm, RTypeW, ImmW, Commit
      <3> QED BY <1>3, <3>1, <3>2
    <2>2. CASE Load
      <3>1. Cost = Hazard /\ access = ReadStall(Address, I.funct3) /\ Flush(I) = 0
        BY <1>2, <2>2 DEF Load, Executing, Cost, ReadsEarly
      <3>2. mcycle' = mcycle + FetchStall + (Hazard + ReadStall(Address, I.funct3)) + 1
        BY <2>2 DEF Load, Commit
      <3> QED BY <1>3, <3>1, <3>2
    <2>3. CASE Store
      <3>1. Cost = Hazard /\ access = WriteStall(Address, I.funct3) /\ Flush(I) = 0
        BY <1>2, <2>3 DEF Store, Executing, Cost, ReadsEarly
      <3>2. mcycle' = mcycle + FetchStall + (Hazard + WriteStall(Address, I.funct3)) + 1
        BY <2>3 DEF Store, Commit
      <3> QED BY <1>3, <3>1, <3>2
    <2>4. CASE Branch
      <3>1. Cost = BranchHazard /\ access = 0
        BY <2>4 DEF Branch, Executing, Cost, ReadsEarly
      <3>2. I.opcode = "OP_BRANCH"
        BY <2>4 DEF Branch, Executing
      <3>3. CASE BranchTaken(I, Rs1, Rs2)
        <4>1. mcycle' = mcycle + FetchStall + (BranchHazard + 1) + 1
          BY <2>4, <3>3 DEF Branch, Commit, PERF_MODEL_BRANCH_TAKEN
        <4>2. Flush(I) = 1
          BY <1>2, <3>2, <3>3
        <4> QED BY <1>3, <3>1, <4>1, <4>2
      <3>4. CASE ~ BranchTaken(I, Rs1, Rs2)
        <4>1. mcycle' = mcycle + FetchStall + BranchHazard + 1
          BY <2>4, <3>4 DEF Branch, Commit
        <4>2. Flush(I) = 0
          BY <1>2, <3>2, <3>4
        <4> QED BY <1>3, <3>1, <4>1, <4>2
      <3> QED BY <3>3, <3>4
    <2>5. CASE Nop \/ Auipc \/ Lui
      <3>1. Cost = 0 /\ access = 0 /\ Flush(I) = 0
        BY <1>2, <2>5 DEF Nop, Auipc, Lui, Executing, Cost, ReadsEarly
      <3>2. mcycle' = mcycle + FetchStall + 0 + 1
        BY <2>5 DEF Nop, Auipc, Lui, Commit
      <3> QED BY <1>3, <3>1, <3>2
    <2>6. CASE Jal
      <3>1. Cost = 0 /\ access = 0 /\ Flush(I) = 1
        BY <1>2, <2>6 DEF Jal, Executing, Cost, ReadsEarly
      <3>2. mcycle' = mcycle + FetchStall + 1 + 1
        BY <2>6 DEF Jal, Commit, PERF_MODEL_BRANCH_TAKEN
      <3> QED BY <1>3, <3>1, <3>2
    <2>7. CASE Jalr
      <3>1. Cost = BranchHazard /\ access = 0 /\ Flush(I) = 1
        BY <1>2, <2>7 DEF Jalr, Executing, Cost, ReadsEarly
      <3>2. mcycle' = mcycle + FetchStall + (BranchHazard + 1) + 1
        BY <2>7 DEF Jalr, Commit, PERF_MODEL_BRANCH_TAKEN
      <3> QED BY <1>3, <3>1, <3>2
    <2>8. CASE Ebreak \/ Ecall \/ Csr \/ SysOther
      <3>1. Cost = SysHazard /\ access = 0 /\ Flush(I) = 0
        BY <1>2, <2>8 DEF Ebreak, Ecall, Csr, SysOther, Executing, Cost, ReadsEarly
      <3>2. mcycle' = mcycle + FetchStall + SysHazard + 1
        BY <2>8 DEF Ebreak, Ecall, Csr, SysOther, Commit
      <3> QED BY <1>3, <3>1, <3>2
    <2> QED BY <2>1, <2>2, <2>3, <2>4, <2>5, <2>6, <2>7, <2>8 DEF Instr
  <1> HIDE DEF access
  <1> QED BY <1>1, <1>3, <1>4, <1>5 DEF Charged

-----------------------------------------------------------------------------
(* The invariant: perf_model covers everything the pipeline waits for *)

PendingType == pending \in [Reg -> 0 .. 2] /\ pending[0] = 0

\* A register that is not ready was written by the last instruction, or loaded by
\* the one before it.
Covered ==
    \A r \in Reg \ {0} : pending[r] > 0 =>
        \/ /\ r = perf_model.prev_rd /\ perf_model.prev_reg_write
           /\ pending[r] = 2 => perf_model.prev_mem_load
        \/ r = perf_model.prev2_rd /\ perf_model.prev2_mem_load /\ pending[r] = 1

\* The register that the last instruction loaded takes both cycles.
LoadAwaited ==
    perf_model.prev_mem_load /\ perf_model.prev_rd # 0 => pending[perf_model.prev_rd] = 2

PendingInv == PendingType /\ LoadAwaited /\ (CsrLatency = 0 => Covered)

\* The wait for one source, and for the last of both.
LEMMA WaitBounds ==
    ASSUME PendingType, NEW i \in Instruction
    PROVE  /\ Stall(i) \in 0 .. 2
           /\ \A r \in {i.rs1, i.rs2} : Wait(i, r) \in 0 .. 2 /\ Wait(i, r) <= Stall(i)
           /\ \E r \in {i.rs1, i.rs2} : Stall(i) = Wait(i, r)
  <1>1. ASSUME NEW r \in Reg
        PROVE  Wait(i, r) \in 0 .. 2
    <2>1. pending[r] \in 0 .. 2
      BY DEF PendingType
    <2> QED BY <2>1 DEF Wait, Greatest
  <1>2. i.rs1 \in Reg /\ i.rs2 \in Reg
    BY DEF Instruction
  <1>3. Wait(i, i.rs1) \in 0 .. 2 /\ Wait(i, i.rs2) \in 0 .. 2
    BY <1>1, <1>2
  <1> QED BY <1>3 DEF Stall, Greatest

\* What an instruction promises for its target.
LEMMA TargetLatency ==
    ASSUME TypeOK
    PROVE  /\ Target(I) \in Reg
           /\ Target(I) # 0 => Target(I) = instr.rd
           /\ Flush(I) \in {0, 1}
           /\ Greatest(Latency(I) - Flush(I), 0) \in 0 .. 2
           /\ CsrLatency = 0 /\ Target(I) # 0 /\ Greatest(Latency(I) - Flush(I), 0) > 0
                 => Writes
           /\ Greatest(Latency(I) - Flush(I), 0) = 2 <=> I.opcode = "OP_LOAD"
           /\ I.opcode = "OP_LOAD" => Target(I) = instr.rd
  <1>1. I.rd \in Reg /\ 0 \in Reg
    BY FetchType DEF Instruction, Reg
  <1>2. Target(I) \in Reg /\ (Target(I) # 0 => Target(I) = instr.rd)
    BY <1>1 DEF Target, instr
  <1>3. I.opcode = "OP_LOAD" => Target(I) = instr.rd /\ Flush(I) = 0 /\ Latency(I) = 2
    BY DEF Target, instr, Flush, Latency, IsCsr
  <1>4. Flush(I) \in {0, 1}
    BY DEF Flush
  <1>5. CsrLatency = 0 /\ IsCsr(I) => Latency(I) = 0
    BY DEF IsCsr, Latency
  <1>6. I.opcode # "OP_LOAD" => Latency(I) \in {0, 1}
    BY CsrLatencyAssumption DEF Latency
  <1>7. Target(I) # 0 => Writes \/ IsCsr(I)
    BY DEF Target, Writes
  <1>8. Latency(I) \in {0, 1, 2}
    BY <1>3, <1>6
  <1>9. /\ Greatest(Latency(I) - Flush(I), 0) \in 0 .. 2
        /\ Greatest(Latency(I) - Flush(I), 0) = 2 <=> Latency(I) = 2 /\ Flush(I) = 0
        /\ Latency(I) = 0 => Greatest(Latency(I) - Flush(I), 0) = 0
    BY <1>4, <1>8 DEF Greatest
  <1> QED BY <1>2, <1>3, <1>4, <1>5, <1>6, <1>7, <1>9

\* Every instruction keeps the invariant.
LEMMA IssueNext ==
    ASSUME TypeOK, PendingInv, Instr, Issue
    PROVE  PendingInv'
  <1> DEFINE t == Target(I)
             l == Greatest(Latency(I) - Flush(I), 0)
             passed == Stall(I) + 1 + Flush(I)
  <1>1. pending' = [r \in Reg |-> IF r = 0 THEN 0 ELSE IF r = t THEN l
                                  ELSE Greatest(pending[r] - passed, 0)]
    BY DEF Issue
  <1>2. /\ t \in Reg /\ (t # 0 => t = instr.rd) /\ l \in 0 .. 2 /\ (I.opcode = "OP_LOAD" => t = instr.rd)
        /\ CsrLatency = 0 /\ t # 0 /\ l > 0 => Writes
        /\ l = 2 <=> I.opcode = "OP_LOAD"
    BY TargetLatency
  <1>3. passed \in Nat /\ passed >= 1
    BY TargetLatency, WaitBounds, FetchType DEF PendingInv
  <1>4. pending \in [Reg -> 0 .. 2] /\ 0 \in Reg
    BY DEF PendingInv, PendingType, Reg
  <1> HIDE DEF t, l, passed
  <1>5. ASSUME NEW r \in Reg
        PROVE  /\ Greatest(pending[r] - passed, 0) \in {0, 1}
               /\ Greatest(pending[r] - passed, 0) > 0 => pending[r] = 2
    BY <1>3, <1>4 DEF Greatest
  <1>6. PendingType'
    <2>1. ASSUME NEW r \in Reg
          PROVE  (IF r = 0 THEN 0 ELSE IF r = t THEN l
                  ELSE Greatest(pending[r] - passed, 0)) \in 0 .. 2
      BY <1>2, <1>5
    <2> QED BY <1>1, <1>4, <2>1 DEF PendingType, Reg
  <1>7. CsrLatency = 0 => Covered'
    <2> SUFFICES ASSUME CsrLatency = 0, NEW r \in Reg \ {0}, pending'[r] > 0
                 PROVE  \/ /\ r = perf_model'.prev_rd /\ perf_model'.prev_reg_write
                           /\ pending'[r] = 2 => perf_model'.prev_mem_load
                        \/ /\ r = perf_model'.prev2_rd /\ perf_model'.prev2_mem_load
                           /\ pending'[r] = 1
      BY DEF Covered, Reg
    <2>1. CASE r = t
      <3>1. pending'[r] = l
        BY <1>1, <2>1
      <3>2. Writes /\ r = instr.rd /\ (pending'[r] = 2 => I.opcode = "OP_LOAD")
        BY <1>2, <2>1, <3>1
      <3> QED BY <3>2, Remembered
    <2>2. CASE r # t
      <3>1. pending'[r] = Greatest(pending[r] - passed, 0)
        BY <1>1, <2>2
      <3>2. pending'[r] = 1 /\ pending[r] = 2
        BY <1>5, <3>1
      <3>3. r = perf_model.prev_rd /\ perf_model.prev_mem_load
        BY <3>2 DEF PendingInv, Covered
      <3> QED BY <3>2, <3>3, Remembered
    <2> QED BY <2>1, <2>2
  <1>8. LoadAwaited'
    <2> SUFFICES ASSUME perf_model'.prev_mem_load, perf_model'.prev_rd # 0
                 PROVE  pending'[perf_model'.prev_rd] = 2
      BY DEF LoadAwaited
    <2>1. I.opcode = "OP_LOAD" /\ perf_model'.prev_rd = instr.rd
      BY Remembered
    <2> QED BY <1>1, <1>2, <2>1
  <1> QED BY <1>6, <1>7, <1>8 DEF PendingInv

\* So does every step.
LEMMA PendingNext ==
    ASSUME TypeOK, PendingInv, [PipeNext]_pipeVars
    PROVE  PendingInv'
  <1>1. CASE PipeInstr
    BY <1>1, IssueNext DEF PipeInstr, Instr
  <1>2. CASE PipeRest
    <2>1. UNCHANGED <<pending, perf_model>>
      BY <1>2 DEF PipeRest, Usage, OpenFails, LoadRom, ZeroInstr, Report, counters
    <2> QED BY <2>1 DEF PendingInv, PendingType, Covered, LoadAwaited, Reg
  <1>3. CASE UNCHANGED pipeVars
    BY <1>3 DEF pipeVars, vars, PendingInv, PendingType, Covered, LoadAwaited, Reg
  <1> QED BY <1>1, <1>2, <1>3 DEF PipeNext

-----------------------------------------------------------------------------
(* The charge against the wait *)

\* An instruction for which the macros are called reads the registers they look at;
\* any other reads none and is charged nothing.
LEMMA SourcesSeen ==
    ASSUME TypeOK
    PROVE  \/ /\ Sources(I) = {instr.rs1, instr.rs2} \ {0}
              /\ Cost = IF ReadsEarly(I) THEN BranchHazard ELSE Hazard
           \/ Sources(I) = {} /\ Cost = 0 /\ ~ ReadsEarly(I)
  <1>1. I.opcode \in Opcodes /\ I.funct3 \in 0 .. 7
    BY FetchType DEF Instruction
  <1>2. CASE I.opcode \in {"OP_RTYPE", "OP_RTYPEW", "OP_STORE", "OP_BRANCH"}
    BY <1>2 DEF Sources, instr, Cost, ReadsEarly
  <1>3. CASE I.opcode \in {"OP_IMM", "OP_IMMW", "OP_LOAD", "OP_JALR"}
    BY <1>3 DEF Sources, instr, Cost, ReadsEarly
  <1>4. CASE I.opcode = "OP_SYS"
    BY <1>1, <1>4 DEF Sources, instr, Cost, ReadsEarly, SysHazard, IsImm
  <1>5. CASE I.opcode \in {"OP_JAL", "OP_AUIPC", "OP_LUI", "OP_FENCE", "OP_OTHER"}
    BY <1>5 DEF Sources, Cost, ReadsEarly
  <1> QED BY <1>1, <1>2, <1>3, <1>4, <1>5, ArchAssumption DEF Opcodes

\* The macros in terms of the registers read.
LEMMA HazardsSeen ==
    ASSUME TypeOK, Sources(I) = {instr.rs1, instr.rs2} \ {0}
    PROVE  LET p == perf_model
           IN  /\ Hazard = StallIf(p.prev_mem_load /\ p.prev_rd \in Sources(I))
               /\ BranchHazard = StallIf(p.prev_reg_write /\ p.prev_rd \in Sources(I))
                                   + StallIf(p.prev2_mem_load /\ p.prev2_rd \in Sources(I))
                                   + StallIf(p.prev_mem_load /\ p.prev_rd \in Sources(I))
  <1>1. ASSUME NEW rd
        PROVE  DependsOn(instr, rd) <=> rd \in Sources(I)
    BY DEF DependsOn
  <1> QED BY <1>1 DEF Hazard, BranchHazard, PERF_MODEL_HAZARD, PERF_MODEL_BRANCH_HAZARD

\* The sources are fields of the instruction, and a wait is a wait for one of them.
LEMMA SourcesAreFields ==
    ASSUME TypeOK
    PROVE  /\ Sources(I) \subseteq {I.rs1, I.rs2} /\ Sources(I) \subseteq Reg \ {0}
           /\ \A r \in Sources(I) : Wait(I, r) = IF ReadsEarly(I) THEN pending[r]
                                                 ELSE Greatest(pending[r] - 1, 0)
  <1>1. I.rs1 \in Reg /\ I.rs2 \in Reg
    BY FetchType DEF Instruction
  <1>2. Sources(I) \subseteq {I.rs1, I.rs2} \ {0}
    BY DEF Sources
  <1> QED BY <1>1, <1>2 DEF Wait

\* Whatever the pipeline waits for, the macros have charged.
LEMMA WaitIsCharged ==
    ASSUME CsrLatency = 0, TypeOK, PendingInv
    PROVE  Cost >= Stall(I)
  <1>1. PICK r \in {I.rs1, I.rs2} : Stall(I) = Wait(I, r)
    BY WaitBounds, FetchType DEF PendingInv
  <1>2. Cost \in 0 .. 3
    BY HazardStall DEF Cost, Hazard, BranchHazard, SysHazard
  <1>3. CASE r \notin Sources(I)
    BY <1>1, <1>2, <1>3 DEF Wait
  <1>4. CASE r \in Sources(I)
    <2>1. /\ Sources(I) = {instr.rs1, instr.rs2} \ {0}
          /\ Cost = IF ReadsEarly(I) THEN BranchHazard ELSE Hazard
      BY <1>4, SourcesSeen
    <2>2. /\ r \in Reg \ {0} /\ pending[r] \in 0 .. 2
          /\ Wait(I, r) = IF ReadsEarly(I) THEN pending[r] ELSE Greatest(pending[r] - 1, 0)
      BY <1>4, SourcesAreFields DEF PendingInv, PendingType
    <2>3. \/ pending[r] = 0
          \/ pending[r] = 1 /\ r = perf_model.prev_rd /\ perf_model.prev_reg_write
          \/ /\ pending[r] = 2 /\ r = perf_model.prev_rd /\ perf_model.prev_reg_write
             /\ perf_model.prev_mem_load
          \/ pending[r] = 1 /\ r = perf_model.prev2_rd /\ perf_model.prev2_mem_load
      BY <2>2 DEF PendingInv, Covered
    <2>4. CASE ReadsEarly(I)
      <3>1. BranchHazard >= pending[r]
        BY <1>4, <2>1, <2>3, HazardsSeen DEF StallIf
      <3> QED BY <1>1, <2>1, <2>2, <2>4, <3>1
    <2>5. CASE ~ ReadsEarly(I)
      <3>1. pending[r] = 2 => Hazard = 1
        BY <1>4, <2>1, <2>3, HazardsSeen DEF StallIf
      <3>2. Greatest(pending[r] - 1, 0) = IF pending[r] = 2 THEN 1 ELSE 0
        BY <2>2 DEF Greatest
      <3> QED BY <1>1, <1>2, <2>1, <2>2, <2>5, <3>1, <3>2
    <2> QED BY <2>4, <2>5
  <1> QED BY <1>3, <1>4

\* And they charge for nothing else.
LEMMA ChargeIsWaited ==
    ASSUME TypeOK, PendingInv
    PROVE  /\ Cost <= Stall(I) + 2
           /\ Cost > Stall(I) => ReadsEarly(I) /\ Sources(I) # {}
  <1>1. /\ Stall(I) \in 0 .. 2
        /\ \A r \in {I.rs1, I.rs2} : Wait(I, r) \in 0 .. 2 /\ Wait(I, r) <= Stall(I)
    BY WaitBounds, FetchType DEF PendingInv
  <1>2. CASE Sources(I) = {} /\ Cost = 0
    BY <1>1, <1>2
  <1>3. CASE /\ Sources(I) = {instr.rs1, instr.rs2} \ {0}
             /\ Cost = IF ReadsEarly(I) THEN BranchHazard ELSE Hazard
    <2> DEFINE rd == perf_model.prev_rd
               loaded == perf_model.prev_mem_load /\ rd \in Sources(I)
    <2>1. loaded => pending[rd] = 2
      BY SourcesAreFields DEF PendingInv, LoadAwaited
    <2>2. loaded => IF ReadsEarly(I) THEN Wait(I, rd) = 2 ELSE Wait(I, rd) = 1
      BY <2>1, SourcesAreFields DEF Greatest
    <2>3. loaded => Stall(I) >= 1
      BY <1>1, <2>2, SourcesAreFields
    <2>4. CASE ReadsEarly(I)
      <3>1. BranchHazard \in 0 .. 3 /\ (BranchHazard = 3 => loaded)
        BY <1>3, HazardsSeen DEF StallIf
      <3>2. BranchHazard > 0 => Sources(I) # {}
        BY <1>3, HazardsSeen DEF StallIf
      <3> HIDE DEF loaded
      <3> QED BY <1>1, <1>3, <2>3, <2>4, <3>1, <3>2
    <2>5. CASE ~ ReadsEarly(I)
      <3>1. Hazard \in {0, 1} /\ (Hazard = 1 => loaded)
        BY <1>3, HazardsSeen DEF StallIf
      <3> HIDE DEF loaded
      <3> QED BY <1>1, <1>3, <2>3, <2>5, <3>1
    <2> QED BY <2>4, <2>5
  <1> QED BY <1>2, <1>3, SourcesSeen

\* Only an instruction changes minstret.
LEMMA OnlyInstrExecutes ==
    ASSUME [PipeNext]_pipeVars, Executes
    PROVE  Instr
  <1>1. CASE PipeInstr
    BY <1>1 DEF PipeInstr, Instr
  <1>2. CASE PipeRest \/ UNCHANGED pipeVars
    BY <1>2 DEF PipeRest, Usage, OpenFails, LoadRom, ZeroInstr, Report, counters, pipeVars,
                vars, Executes
  <1> QED BY <1>1, <1>2 DEF PipeNext

\* The invariant holds throughout.
LEMMA PendingHolds == PipeSpec => [](TypeOK /\ PendingInv)
  <1>1. PipeInit => PendingInv
    BY DEF PipeInit, Init, PerfZero, PendingInv, PendingType, Covered, LoadAwaited, Reg
  <1>2. TypeOK /\ PendingInv /\ [PipeNext]_pipeVars => PendingInv'
    BY PendingNext
  <1> QED BY <1>1, <1>2, PipeImplementsCore, TypeCorrect, PTL DEF PipeSpec

\* With counters that a branch can read without waiting, as the code assumes of CSR
\* instructions, the hazards that inc/perf.h looks for are all there are.
THEOREM StallsAreEnough ==
    ASSUME CsrLatency = 0
    PROVE  PipeSpec => StallsSuffice
  <1>1. ASSUME TypeOK, PendingInv, [PipeNext]_pipeVars, Executes
        PROVE  Charged(I) >= Stall(I)
    BY <1>1, OnlyInstrExecutes, ChargedIsCost, WaitIsCharged
  <1>2. TypeOK /\ PendingInv /\ [PipeNext]_pipeVars
          => [Executes => LET i == I IN Charged(i) >= Stall(i)]_pipeVars
    BY <1>1
  <1> QED BY <1>2, PendingHolds, PTL DEF PipeSpec, StallsSuffice

\* Whatever a counter read takes, they charge no cycle that the pipeline does not wait, but
\* up to two for a branch or JALR with operands.
THEOREM StallsAreJustified == PipeSpec => StallsJustified
  <1>1. ASSUME TypeOK, PendingInv, [PipeNext]_pipeVars, Executes
        PROVE  /\ Charged(I) <= Stall(I) + 2
               /\ Charged(I) > Stall(I) => ReadsEarly(I) /\ Sources(I) # {}
    BY <1>1, OnlyInstrExecutes, ChargedIsCost, ChargeIsWaited
  <1>2. TypeOK /\ PendingInv /\ [PipeNext]_pipeVars
          => [Executes => LET i == I
                          IN  /\ Charged(i) <= Stall(i) + 2
                              /\ Charged(i) > Stall(i)
                                   => ReadsEarly(i) /\ Sources(i) # {}]_pipeVars
    BY <1>1
  <1> QED BY <1>2, PendingHolds, PTL DEF PipeSpec, StallsJustified

=============================================================================
