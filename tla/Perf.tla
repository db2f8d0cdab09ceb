---------------------------------- MODULE Perf ----------------------------------
(***************************************************************************)
(* The timing model of the five-stage pipeline: the macros of inc/perf.h.  *)
(* A macro that increments mcycle is an operator that returns the number   *)
(* of increments; p is the perf_model_t and i the instr_t it is given.     *)
(***************************************************************************)
EXTENDS Arch

perf_model_t == [prev_rd : Reg, prev2_rd : Reg, prev_mem_load : BOOLEAN,
                 prev2_mem_load : BOOLEAN, prev_reg_write : BOOLEAN]

instr_t == [rs1 : Reg, rs2 : Reg, rd : Reg,
            is_reg_write : BOOLEAN, is_mem_load : BOOLEAN]

\* perf_model has static storage: it starts as all zeros.
PerfZero == [prev_rd |-> 0, prev2_rd |-> 0, prev_mem_load |-> FALSE,
             prev2_mem_load |-> FALSE, prev_reg_write |-> FALSE]

StallIf(cond) == IF cond THEN 1 ELSE 0

\* Mutant: x0 counts as a target.
DependsOnX0(i, rd) == i.rs1 = rd \/ i.rs2 = rd

\* Instruction i reads the register that an earlier one, of target rd, wrote.
DependsOn(i, rd) == rd # 0 /\ (i.rs1 = rd \/ i.rs2 = rd)

PERF_MODEL_HAZARD(p, i) == StallIf(p.prev_mem_load /\ DependsOn(i, p.prev_rd))

\* Mutant: the memory-branch special case is missing.
BranchHazardPrevOnly(p, i) ==
    StallIf(p.prev_reg_write /\ DependsOn(i, p.prev_rd))
      + StallIf(p.prev_mem_load /\ DependsOn(i, p.prev_rd))

PERF_MODEL_BRANCH_HAZARD(p, i) ==
    StallIf(p.prev_reg_write /\ DependsOn(i, p.prev_rd))
      + StallIf(p.prev2_mem_load /\ DependsOn(i, p.prev2_rd))
      + StallIf(p.prev_mem_load /\ DependsOn(i, p.prev_rd))

PERF_MODEL_BRANCH_TAKEN == 1

\* The bookkeeping half of PERF_MODEL_CYCLE.
PERF_MODEL_CYCLE(p, i) ==
    [prev_rd        |-> i.rd,
     prev2_rd       |-> p.prev_rd,
     prev_mem_load  |-> i.is_mem_load,
     prev2_mem_load |-> p.prev_mem_load,
     prev_reg_write |-> i.is_reg_write]

=============================================================================
