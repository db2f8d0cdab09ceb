----------------------------------- MODULE Link -----------------------------------
(***************************************************************************)
(* The linker script of guest programs, sdk/bsp/link.ld: where the sections *)
(* of a program go, and the symbols the start-up code uses.  A layout is    *)
(* the size, in bytes, of what a program puts into each section.            *)
(***************************************************************************)
EXTENDS Arch

CONSTANTS
    Layouts,       \* the programs linked
    GP_OFFSET      \* 0x800, scaled with the address space

Layout == [text : Nat, data : Nat, bss : Nat]

\* . = ALIGN(8)
ALIGN(n) == 8 * ((n + 7) \div 8)

ram_end   == RAM_START + RAM_SIZE
stack_top == ram_end

\* The addresses .data runs at, between them what the program initialises.
sdata(l) == ALIGN(RAM_START)
edata(l) == ALIGN(sdata(l) + l.data)
global_pointer(l) == Wrap(sdata(l) + GP_OFFSET)

\* LOADADDR(.data): its copy lies behind the text in the ROM.
sidata(l) == ALIGN(l.text)

\* .bss follows .data.
sbss(l) == ALIGN(edata(l))

\* Mutant: the end of .bss is not aligned.
ebssUnaligned(l) == sbss(l) + l.bss

ebss(l) == ALIGN(sbss(l) + l.bss)

\* The linker refuses a program that overflows one of its two regions.
Linked(l) == /\ sidata(l) + edata(l) - sdata(l) <= ROM_SIZE
             /\ ebss(l) <= ram_end

\* The two regions of the script start at multiples of 8, and both end in the
\* lower half of the address space, so that a signed comparison orders them.
ASSUME LinkAssumption ==
    /\ RAM_START % 8 = 0 /\ RAM_SIZE % 8 = 0
    /\ 2 * ram_end < RegMod
    /\ GP_OFFSET \in Nat
    /\ \A l \in Layouts : l \in Layout /\ Linked(l)

=============================================================================
