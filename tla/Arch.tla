---------------------------------- MODULE Arch ----------------------------------
(***************************************************************************)
(* The architecture of the emulated machine: inc/arch.h.  A value of the C *)
(* type reg_t is a member of Word, a number below RegMod, and a signed     *)
(* value sreg_t is the same number read in two's complement.               *)
(*                                                                         *)
(* Every width hangs on ByteMod, the number of values of one byte.  It is  *)
(* 256 in the program; TLC runs with smaller bytes, so that a register of  *)
(* four bytes (RV32) or eight bytes (RV64) has few enough values to        *)
(* enumerate.  The number of bytes of a word, of registers and of bytes    *)
(* per access is never scaled.                                             *)
(***************************************************************************)
EXTENDS Integers

CONSTANTS
    RV64,         \* TRUE for -DRV64, FALSE for -DRV32
    M_EXT,        \* the 'M' extension is compiled in
    ByteMod,      \* number of values of a byte
    RAM_START,    \* first address of the RAM
    RAM_SIZE,     \* bytes of RAM
    ROM_SIZE,     \* bytes of ROM, which starts at address 0
    MAX_CYCLES    \* the hard limit of the main loop

HalfMod == ByteMod * ByteMod
WordMod == HalfMod * HalfMod
RegMod  == IF RV64 THEN WordMod * WordMod ELSE WordMod

\* The regions are disjoint, hold at least one access of the widest kind and
\* are addressable by a register, whose values include A0's exit code.
ASSUME ArchAssumption ==
    /\ RV64 \in BOOLEAN
    /\ M_EXT \in BOOLEAN
    /\ ByteMod \in Nat /\ ByteMod >= 2
    /\ ROM_SIZE \in Nat /\ ROM_SIZE >= 8
    /\ RAM_SIZE \in Nat /\ RAM_SIZE >= 8
    /\ RAM_START \in Nat /\ RAM_START >= ROM_SIZE
    /\ RAM_START + RAM_SIZE <= RegMod
    /\ MAX_CYCLES \in Nat
    /\ RegMod > 11

Byte == 0 .. ByteMod - 1
Word == 0 .. RegMod - 1          \* reg_t
Reg  == 0 .. 31                  \* indices of regfile, XRF_SIZE of them

A0     == 10
A1     == 11
E_EXIT == 10
E_CHAR == 11

\* The conversion of an integer to reg_t, and of a reg_t to sreg_t.
Wrap(n)   == n % RegMod
Signed(w) == IF 2 * w >= RegMod THEN w - RegMod ELSE w

\* The conversion of an unsigned number below m, read as signed, to reg_t.
SignExtend(n, m) == Wrap(IF 2 * n >= m THEN n - m ELSE n)

=============================================================================
