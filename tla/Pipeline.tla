-------------------------------- MODULE Pipeline --------------------------------
(***************************************************************************)
(* The pipeline that inc/perf.h charges for, beside the emulator: five     *)
(* stages, results forwarded, branches and JALR resolved in the second     *)
(* stage ("flush pipeline for ID stage resolution").  perf_model remembers *)
(* two instructions; here each register remembers when its value is ready, *)
(* so a stall or a flush gives time to every instruction still under way.  *)
(* Core is unchanged: `pending` is a history variable of it.               *)
(***************************************************************************)
EXTENDS Core

CONSTANT CsrLatency    \* cycles until a branch can read the result of a CSR instruction

ASSUME CsrLatencyAssumption == CsrLatency \in {0, 1}

VARIABLE pending       \* for each register, the cycles that a reader in the second
                       \* stage would have to wait if it were the next instruction

pipeVars == <<vars, pending>>

Greatest(a, b) == IF a >= b THEN a ELSE b

-----------------------------------------------------------------------------
(* An instruction, as the pipeline sees it *)

IsCsr(i) == i.opcode = "OP_SYS" /\ i.funct3 \notin {0, 4}

\* The registers it reads; x0 is never waited for.  The operand of the immediate
\* CSR forms is no register.  ecall and ebreak have x0 for rs1, and their arguments
\* are read by the environment; a fence of the privileged instructions has an rs1.
Sources(i) ==
    CASE i.opcode \in {"OP_RTYPE", "OP_RTYPEW", "OP_STORE", "OP_BRANCH"} -> {i.rs1, i.rs2} \ {0}
      [] i.opcode \in {"OP_IMM", "OP_IMMW", "OP_LOAD", "OP_JALR"}        -> {i.rs1} \ {0}
      [] i.opcode = "OP_SYS" /\ i.funct3 < 4 -> {i.rs1} \ {0}
      [] OTHER -> {}

\* The register it writes, or x0.
Target(i) == IF i.opcode \in {"OP_STORE", "OP_BRANCH", "OP_FENCE", "OP_OTHER"}
                \/ (i.opcode = "OP_SYS" /\ ~ IsCsr(i))
             THEN 0 ELSE i.rd

\* How long a reader in the second stage waits for that register: a result of the
\* third stage one cycle, of the fourth two.
Latency(i) == CASE i.opcode = "OP_LOAD" -> 2
                [] IsCsr(i) -> CsrLatency
                [] OTHER -> 1

ReadsEarly(i) == i.opcode \in {"OP_BRANCH", "OP_JALR"}

\* The wait for a source.  Every other instruction reads one stage later, where
\* forwarding reaches it.
Wait(i, r) == IF r \notin Sources(i) THEN 0
              ELSE IF ReadsEarly(i) THEN pending[r]
              ELSE Greatest(pending[r] - 1, 0)

\* It waits for the last of its sources.
Stall(i) == Greatest(Wait(i, i.rs1), Wait(i, i.rs2))

Flush(i) == IF \/ i.opcode \in {"OP_JAL", "OP_JALR"}
               \/ i.opcode = "OP_BRANCH" /\ BranchTaken(i, regfile[i.rs1], regfile[i.rs2])
            THEN 1 ELSE 0

\* The cycles of the memory, which the pipeline does not hide.
MemoryStall(i) ==
    LET address == Wrap(regfile[i.rs1] + i.imm)
    IN  FetchStall + (CASE i.opcode = "OP_LOAD"  -> ReadStall(address, i.funct3)
                        [] i.opcode = "OP_STORE" -> WriteStall(address, i.funct3)
                        [] OTHER -> 0)

-----------------------------------------------------------------------------
PipeInit == Init /\ pending = [r \in Reg |-> 0]

\* The instruction moves on by its stall, its own cycle and its flush.
Issue ==
    LET i == I
        passed == Stall(i) + 1 + Flush(i)
    IN  pending' = [r \in Reg |-> IF r = 0 THEN 0
                                  ELSE IF r = Target(i) THEN Greatest(Latency(i) - Flush(i), 0)
                                  ELSE Greatest(pending[r] - passed, 0)]

PipeInstr ==
    \/ RType /\ Issue
    \/ Imm /\ Issue
    \/ RTypeW /\ Issue
    \/ ImmW /\ Issue
    \/ Load /\ Issue
    \/ Store /\ Issue
    \/ Branch /\ Issue
    \/ Nop /\ Issue
    \/ Auipc /\ Issue
    \/ Lui /\ Issue
    \/ Jal /\ Issue
    \/ Jalr /\ Issue
    \/ Ebreak /\ Issue
    \/ Ecall /\ Issue
    \/ Csr /\ Issue
    \/ SysOther /\ Issue

PipeRest ==
    \/ Usage /\ UNCHANGED pending
    \/ OpenFails /\ UNCHANGED pending
    \/ LoadRom /\ UNCHANGED pending
    \/ ZeroInstr /\ UNCHANGED pending
    \/ Report /\ UNCHANGED pending

PipeNext == PipeInstr \/ PipeRest

PipeSpec == PipeInit /\ [][PipeNext]_pipeVars /\ WF_vars(Loop)

-----------------------------------------------------------------------------
(* Properties *)

\* A step that executes an instruction, and the hazard cycles it adds to mcycle.
Executes   == minstret' # minstret
Charged(i) == mcycle' - mcycle - 1 - Flush(i) - MemoryStall(i)

\* Two instructions of history are enough: whenever the pipeline has to wait for
\* a value, after any sequence of stalls, jumps and overwritten registers, the
\* macros of inc/perf.h charge at least the cycles it waits.
StallsSuffice == [][Executes => LET i == I IN Charged(i) >= Stall(i)]_pipeVars

\* And they charge for nothing else: exactly the wait of an instruction that
\* reads in the third stage, and at most two cycles too many for a branch, whose
\* three macros add up hazards that overlap in time.
StallsJustified ==
    [][Executes => LET i == I
                   IN  /\ Charged(i) <= Stall(i) + 2
                       /\ Charged(i) > Stall(i) => ReadsEarly(i) /\ Sources(i) # {}]_pipeVars

=============================================================================
