----------------------------------- MODULE Crt0 -----------------------------------
(***************************************************************************)
(* The start-up code of guest programs, sdk/bsp/crt0.S, one action per      *)
(* instruction.  `at` is the instruction to be executed next.  RAM holds    *)
(* anything when it starts; main may do anything to RAM and registers,      *)
(* return, or start the program over.                                       *)
(***************************************************************************)
EXTENDS Link

CONSTANT Image(_)      \* layout -> the contents of the ROM, by address

VARIABLES
    layout,       \* the program that was linked
    at,           \* the next instruction
    reg,          \* the registers the code uses, but for
    t0,           \* the bytes of t0, which only carries a word from lw to sw
    ram,          \* the RAM, by index
    before        \* history: the RAM when the code was entered

vars == <<layout, at, reg, t0, ram, before>>

Cells     == 0 .. RAM_SIZE - 1
Registers == {"gp", "sp", "a0", "a1", "a2"}

Init ==
    /\ layout \in Layouts
    /\ at = "_start"
    /\ reg \in [Registers -> Word]
    /\ t0 \in [0 .. 3 -> Byte]
    /\ ram \in [Cells -> Byte]
    /\ before = ram

-----------------------------------------------------------------------------
(* Instructions *)

\* li, addi, and the second half of la: register r becomes v.
Set(from, r, v, to) ==
    /\ at = from /\ at' = to
    /\ reg' = [reg EXCEPT ![r] = v]
    /\ UNCHANGED <<layout, t0, ram, before>>

\* bge compares signed numbers.
Bge(from, r, s, yes, no) ==
    /\ at = from
    /\ at' = IF Signed(reg[r]) >= Signed(reg[s]) THEN yes ELSE no
    /\ UNCHANGED <<layout, reg, t0, ram, before>>

Jump(from, to) ==
    /\ at = from /\ at' = to
    /\ UNCHANGED <<layout, reg, t0, ram, before>>

\* The byte at an address of the ROM or RAM.
ByteAt(m) == IF m < ROM_SIZE THEN Image(layout)[m] ELSE ram[m - RAM_START]

Lw(from, r, to) ==
    /\ at = from /\ at' = to
    /\ t0' = [k \in 0 .. 3 |-> ByteAt(reg[r] + k)]
    /\ UNCHANGED <<layout, reg, ram, before>>

\* Four bytes to the address in register r.
Sw(from, bytes, r, to) ==
    /\ at = from /\ at' = to
    /\ ram' = [c \in Cells |-> LET k == RAM_START + c - reg[r]
                               IN  IF k \in 0 .. 3 THEN bytes[k] ELSE ram[c]]
    /\ UNCHANGED <<layout, reg, t0, before>>

Zero == [k \in 0 .. 3 |-> 0]

-----------------------------------------------------------------------------
(* The code *)

\* la is an auipc and an addi; the first leaves a part of the address in the register.
Auipc(from, r, to) == \E v \in Word : Set(from, r, v, to)

Pointers ==
    \/ Auipc("_start", "gp", "la gp")
    \/ Set("la gp", "gp", global_pointer(layout), "auipc sp")
    \/ Auipc("auipc sp", "sp", "la sp")
    \/ Set("la sp", "sp", stack_top, "auipc a0, _sidata")

CopyData ==
    \/ Auipc("auipc a0, _sidata", "a0", "la a0, _sidata")
    \/ Set("la a0, _sidata", "a0", sidata(layout), "auipc a1, _sdata")
    \/ Auipc("auipc a1, _sdata", "a1", "la a1, _sdata")
    \/ Set("la a1, _sdata", "a1", sdata(layout), "auipc a2, _edata")
    \/ Auipc("auipc a2, _edata", "a2", "la a2, _edata")
    \/ Set("la a2, _edata", "a2", edata(layout), "copy_data_loop")
    \/ Bge("copy_data_loop", "a1", "a2", "copy_data_done", "lw t0")
    \/ Lw("lw t0", "a0", "sw t0")
    \/ Sw("sw t0", t0, "a1", "addi a0")
    \/ Set("addi a0", "a0", Wrap(reg["a0"] + 4), "addi a1")
    \/ Set("addi a1", "a1", Wrap(reg["a1"] + 4), "j copy_data_loop")
    \/ Jump("j copy_data_loop", "copy_data_loop")

ZeroBss ==
    \/ Auipc("copy_data_done", "a0", "la a0, _sbss")
    \/ Set("la a0, _sbss", "a0", sbss(layout), "auipc a1, _ebss")
    \/ Auipc("auipc a1, _ebss", "a1", "la a1, _ebss")
    \/ Set("la a1, _ebss", "a1", ebss(layout), "zero_bss_loop")
    \/ Bge("zero_bss_loop", "a0", "a1", "call main", "sw zero")
    \/ Sw("sw zero", Zero, "a0", "addi a0 (bss)")
    \/ Set("addi a0 (bss)", "a0", Wrap(reg["a0"] + 4), "j zero_bss_loop")
    \/ Jump("j zero_bss_loop", "zero_bss_loop")

\* After main: the environment call for the exit ends the program.
CallAndExit ==
    \/ Jump("call main", "main")
    \/ Set("li a0, 10", "a0", E_EXIT, "ecall")
    \/ Jump("ecall", IF reg["a0"] = E_EXIT THEN "exited" ELSE "halt")
    \/ Jump("halt", "halt")

Main ==
    /\ at = "main"
    /\ at' \in {"main", "li a0, 10", "_start"}
    /\ reg' \in [Registers -> Word]
    /\ t0' \in [0 .. 3 -> Byte]
    /\ ram' \in [Cells -> Byte]
    /\ before' = IF at' = "_start" THEN ram' ELSE before
    /\ UNCHANGED layout

Next == Pointers \/ CopyData \/ ZeroBss \/ CallAndExit \/ Main

Spec == Init /\ [][Next]_vars

-----------------------------------------------------------------------------
\* What main may rely on when crt0.S calls it, also when the program has been
\* started over: .data holds its initial values, .bss is zero, the rest of the
\* RAM is as it was, and the stack and global pointers are set.
MemoryReady ==
    at = "call main" =>
        /\ \A m \in sdata(layout) .. edata(layout) - 1 :
              ram[m - RAM_START] = Image(layout)[sidata(layout) + m - sdata(layout)]
        /\ \A m \in sbss(layout) .. ebss(layout) - 1 : ram[m - RAM_START] = 0
        /\ \A m \in ebss(layout) .. ram_end - 1 : ram[m - RAM_START] = before[m - RAM_START]
        /\ reg["sp"] = stack_top /\ reg["gp"] = global_pointer(layout)

=============================================================================
