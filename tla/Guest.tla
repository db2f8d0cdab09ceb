---------------------------------- MODULE Guest ----------------------------------
(***************************************************************************)
(* Core running whole guest programs, linked by sdk/bsp/link.ld: the        *)
(* start-up code sdk/bsp/crt0.S instruction by instruction, and a main that *)
(* uses the counters of sdk/librv/librv.h and the character output of       *)
(* sdk/librv/printf_librv.c.  call is relaxed to jal, as the ROM is shorter *)
(* than the reach of one.  la stays an auipc and an addi, as the assembler  *)
(* makes it: the linker shortens only those whose symbol is within half a   *)
(* page of gp or of address zero, which no symbol is in a program with a    *)
(* page of text and a page of data.                                         *)
(***************************************************************************)
EXTENDS Core, Link, Asm

CONSTANT ImageOf(_)       \* layout -> the bytes of the linked program, as loaded

VARIABLES
    build,       \* the program that was linked, a member of Layouts
    before,      \* history: the RAM when _start was last entered
    since        \* history: both counters when their loops were last begun

guestVars == <<vars, build, before, since>>

-----------------------------------------------------------------------------
(* sdk/bsp/crt0.S *)

zero == 0
ra   == 1
sp   == 2
gp   == 3
t0   == 5
s0   == 8
s1   == 9

J(n)          == Op("OP_JAL", 0, zero, zero, n)
Call(n)       == Op("OP_JAL", 0, ra, zero, n)
Ret           == Op("OP_JALR", 0, zero, ra, 0)
Ecall_        == Sys(0, zero, zero, 0)

\* The two halves of a distance: a multiple of the page, which auipc adds to the pc,
\* and what is left to addi, at most half a page up or down.  The offset of gp, 0x800,
\* is half of the 4096 values of a 12-bit immediate.
PAGE  == 2 * GP_OFFSET
Hi(n) == PAGE * ((n + GP_OFFSET) \div PAGE)
Lo(n) == n - Hi(n)

\* la r, symbol at an address of the text.
La(at, r, symbol) ==
    <<Op("OP_AUIPC", 0, r, zero, Hi(symbol - at)), Addi(r, r, Lo(symbol - at))>>

\* __global_pointer$, and the end of the initialised variables.
gp_symbol(l) == sdata(l) + GP_OFFSET
data_end(l)  == sdata(l) + l.data

start_(l) == La(0, gp, gp_symbol(l)) \o La(8, sp, stack_top)

copy_data_loop(l) ==
    La(16, A0, sidata(l)) \o La(24, A1, sdata(l)) \o La(32, 12, edata(l))
    \o <<Br(5, A1, 12, 24), Lw(2, t0, A0, 0), Sw(2, t0, A1, 0),
         Addi(A0, A0, 4), Addi(A1, A1, 4), J(-20)>>

\* Mutant: the clearing starts at the wrong symbol.
zero_bss_loop_data(l) ==
    La(64, A0, sdata(l)) \o La(72, A1, ebss(l))
    \o <<Br(5, A0, A1, 16), Sw(2, zero, A0, 0), Addi(A0, A0, 4), J(-12)>>

zero_bss_loop(l) ==
    La(64, A0, sbss(l)) \o La(72, A1, ebss(l))
    \o <<Br(5, A0, A1, 16), Sw(2, zero, A0, 0), Addi(A0, A0, 4), J(-12)>>

\* Mutant: the code of the environment call is not loaded.
call_main_no_code == <<Call(16), Addi(A1, zero, E_EXIT), Ecall_, J(0)>>

call_main == <<Call(16), Addi(A0, zero, E_EXIT), Ecall_, J(0)>>

-----------------------------------------------------------------------------
(* sdk/librv/librv.h and printf_librv.c: the operands %0, %1, %2 in registers *)

csrr(d, csr) == Sys(2, d, zero, csr)

\* Mutant: the high half is not read again.
query_performance_counter_once(hi, lo, hi2) ==
    <<csrr(hi, 2944), csrr(lo, 2816), csrr(hi2, 2944), Br(1, hi, hi, -12)>>

query_performance_counter(hi, lo, hi2) ==
    <<csrr(hi, 2944), csrr(lo, 2816), csrr(hi2, 2944), Br(1, hi, hi2, -12)>>

\* Mutant: the low half is read first.
query_instruction_counter_low_first(hi, lo, hi2) ==
    <<csrr(lo, 2818), csrr(hi, 2946), csrr(hi2, 2946), Br(1, hi, hi2, -12)>>

query_instruction_counter(hi, lo, hi2) ==
    <<csrr(hi, 2946), csrr(lo, 2818), csrr(hi2, 2946), Br(1, hi, hi2, -12)>>

\* Mutant: the asm statement does not say that it overwrites a0.
putchar_in_a0 == <<Addi(15, A0, 0), Addi(A0, zero, E_CHAR), Addi(A1, A0, 0), Ecall_, Ret>>

\* The character comes in a0, which the asm statement overwrites.
putchar_ == <<Addi(15, A0, 0), Addi(A0, zero, E_CHAR), Addi(A1, 15, 0), Ecall_, Ret>>

-----------------------------------------------------------------------------
(* A main.  The first time it writes over its variables, leaves a mark in    *)
(* the heap and starts the program over; the second time it waits until both *)
(* counters have used their high half, prints its variables and returns.     *)

\* Functions that are not called, up to the size of the text.
Pad(l) == [k \in 1 .. (l.text - 272) \div 4 |-> Addi(zero, zero, 0)]

main(l) ==
    <<Addi(sp, sp, -8), Sw(2, ra, sp, 4)>> \o La(120, s0, sdata(l)) \o La(128, s1, ebss(l))
    \o <<Lw(2, t0, s1, 0), Br(1, t0, zero, 24), Sw(2, sp, s0, 0), Sw(2, sp, s1, -4),
         Addi(t0, zero, 1), Sw(2, t0, s1, 0), J(-160)>>
    \o query_performance_counter(15, 14, 13)
    \o <<Addi(16, 14, 0)>>
    \o query_instruction_counter(28, 29, 30)
    \o <<Br(0, 28, zero, -36)>>
    \o La(204, s0, sdata(l)) \o La(212, s1, data_end(l))
    \o <<Br(5, s0, s1, 20), Lw(4, A0, s0, 0), Call(24), Addi(s0, s0, 1), J(-16),
         Lw(2, ra, sp, 4), Addi(sp, sp, 8), Ret>>
    \o putchar_

Text(l) == start_(l) \o copy_data_loop(l) \o zero_bss_loop(l) \o call_main \o main(l) \o Pad(l)

\* Where its loops are.
CyclesAt  == 4 * 41
InstretAt == 4 * 46

-----------------------------------------------------------------------------
\* The ROM that main of the emulator fills from the file.
Rom(l) == [c \in RomCells |-> IF c < Len(ImageOf(l)) THEN ImageOf(l)[c + 1] ELSE 0]

\* The decoder returns the fields that the format of instruction i has; the others of
\* the record hold whatever bits of the word are at their place.
Reads(got, i) ==
    /\ got.opcode = i.opcode
    /\ i.opcode \notin {"OP_STORE", "OP_BRANCH"} => got.rd = i.rd
    /\ i.opcode \notin {"OP_AUIPC", "OP_JAL"} => got.funct3 = i.funct3 /\ got.rs1 = i.rs1
    /\ i.opcode \in {"OP_STORE", "OP_BRANCH"} => got.rs2 = i.rs2
    /\ IF i.opcode = "OP_SYS" THEN got.uimm = i.uimm ELSE got.imm = i.imm

\* What the guest is built for: a file that holds the text as the decoder reads it
\* back, a unit that adds, room for the frame of main behind .bss, and the RV32
\* build of librv.h, whose counters are two registers wide and do not wrap.
ASSUME GuestAssumption ==
    /\ ~ RV64
    /\ GP_OFFSET # 0
    /\ MAX_CYCLES + 6 <= RegMod * RegMod
    /\ \A x, y \in Word : ALU(0, x, y) = Wrap(x + y)
    /\ \A l \in Layouts :
          /\ l.text >= 272
          /\ ebss(l) + 8 <= ram_end
          /\ LET rom_ == Rom(l)
             IN  \A k \in 1 .. 68 : LET word == WordAt(rom_, 4 * k - 4)
                                    IN  word # 0 /\ Reads(Decode(word), Text(l)[k])

GuestInit == Init /\ build \in Layouts /\ before = ram /\ since = [c |-> mcycle, i |-> minstret]

GuestLoad == LoadRom /\ rom' = Rom(build)

GuestNext ==
    /\ GuestLoad \/ Loop
    /\ before' = IF pc # 0 /\ pc' = 0 THEN ram' ELSE before
    /\ since' = [c |-> IF pc = CyclesAt /\ minstret' # minstret THEN mcycle ELSE since.c,
                 i |-> IF pc = InstretAt /\ minstret' # minstret THEN minstret ELSE since.i]
    /\ UNCHANGED build

GuestSpec == GuestInit /\ [][GuestNext]_guestVars /\ WF_vars(Loop)

-----------------------------------------------------------------------------
(* The program as its source has it *)

\* The instruction of crt0.S at each word of its text.
Labels == <<"_start", "la gp", "auipc sp", "la sp", "auipc a0, _sidata", "la a0, _sidata",
            "auipc a1, _sdata", "la a1, _sdata", "auipc a2, _edata", "la a2, _edata",
            "copy_data_loop", "lw t0", "sw t0", "addi a0", "addi a1", "j copy_data_loop",
            "copy_data_done", "la a0, _sbss", "auipc a1, _ebss", "la a1, _ebss",
            "zero_bss_loop", "sw zero", "addi a0 (bss)", "j zero_bss_loop",
            "call main", "li a0, 10", "ecall", "halt">>

\* The state of crt0.S: the instruction to be executed next, its registers, and the
\* bytes of t0.
StartAt  == IF ~ instr_loop THEN "exited"
            ELSE IF pc \div 4 < Len(Labels) THEN Labels[pc \div 4 + 1] ELSE "main"
StartReg == [gp |-> regfile[gp], sp |-> regfile[sp], a0 |-> regfile[A0], a1 |-> regfile[A1],
             a2 |-> regfile[12]]
StartT0  == [k \in 0 .. 3 |-> (regfile[t0] \div Scale(k)) % ByteMod]

StartUp == INSTANCE Crt0 WITH
    layout <- build, at <- StartAt, reg <- StartReg, t0 <- StartT0, Image <- Rom

\* The words of a loop of librv.h, and the one behind it.
LoopAt(start) ==
    LET k == (pc - start) \div 4
    IN  IF pc >= start /\ k < 5 THEN <<"csrr hi", "csrr lo", "csrr hi2", "bne", "return">>[k + 1]
        ELSE "out"

Cycles == INSTANCE Librv WITH
    counter <- mcycle, since <- since.c, at <- LoopAt(CyclesAt),
    hi <- regfile[15], lo <- regfile[14], hi2 <- regfile[13]

Instructions == INSTANCE Librv WITH
    counter <- minstret, since <- since.i, at <- LoopAt(InstretAt),
    hi <- regfile[28], lo <- regfile[29], hi2 <- regfile[30]

-----------------------------------------------------------------------------
(* Properties *)

\* The emulator running the linked program does what crt0.S says, instruction by
\* instruction.
StartUpSpec == StartUp!Spec

\* Whenever crt0.S calls main, the memory is as main may rely on: .data copied,
\* .bss cleared although the program used it before, nothing else written.
MemoryReady == StartUp!MemoryReady

\* The reads of mcycle and minstret behave as the loops of librv.h, with a counter
\* that the emulator advances during and between the instructions.
CounterLoops == Cycles!Spec /\ Instructions!Spec

\* Neither counter is returned torn when its low half overflows in the loop.
CountersNotTorn == Cycles!NotTorn /\ Instructions!NotTorn

\* What putchar_ is given reaches the host unchanged, once and in order: at the end
\* of the program the output is the initial value of its variables, although the
\* program wrote over them before it was started over.
OutputDelivered ==
    phase = "total_cycles" =>
        out = [k \in 1 .. build.data |-> Rom(build)[sidata(build) + k - 1]]

\* A main that returns ends the emulator with the report of its cycles.
GuestExits == phase = "loop" ~> phase = "total_cycles"

=============================================================================
