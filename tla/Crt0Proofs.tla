-------------------------------- MODULE Crt0Proofs -------------------------------
(***************************************************************************)
(* The start-up code prepares the memory of every program that fits, from  *)
(* any contents of the RAM and after any number of restarts.               *)
(***************************************************************************)
EXTENDS Crt0, TLAPS

\* A register has a positive number of values.
LEMMA RegModPositive == RegMod \in Nat /\ RegMod > 11
  <1>1. ByteMod \in Nat /\ ByteMod > 0
    BY ArchAssumption
  <1>2. HalfMod \in Nat
    BY <1>1 DEF HalfMod
  <1>3. WordMod \in Nat
    BY <1>2 DEF WordMod
  <1>4. WordMod * WordMod \in Nat
    BY <1>3
  <1> QED
    BY <1>3, <1>4, ArchAssumption DEF RegMod

\* A remainder is a register value.
LEMMA WrapWord == ASSUME NEW n \in Int PROVE Wrap(n) \in Word
  <1> DEFINE m == RegMod
  <1>1. m \in Nat /\ m > 0
    BY RegModPositive
  <1>2. Wrap(n) = n % m /\ Word = 0 .. m - 1
    BY DEF Wrap, Word
  <1> HIDE DEF m
  <1> QED
    BY <1>1, <1>2

\* Alignment goes up by less than 8, to a multiple of 8.
LEMMA AlignUp ==
    ASSUME NEW n \in Nat
    PROVE  /\ ALIGN(n) \in Nat /\ ALIGN(n) >= n
           /\ ALIGN(n) % 8 = 0 /\ ALIGN(n) % 4 = 0
           /\ n % 8 = 0 => ALIGN(n) = n
  BY DEF ALIGN

\* The symbols of the linker script: the sections are aligned, follow each other
\* in the RAM, and lie in the lower half of the address space.
LEMMA Sections ==
    ASSUME NEW l \in Layouts
    PROVE  /\ sdata(l) = RAM_START /\ sdata(l) \in Nat /\ sdata(l) % 4 = 0
           /\ edata(l) \in Nat /\ edata(l) % 4 = 0 /\ sdata(l) <= edata(l)
           /\ sidata(l) \in Nat /\ sidata(l) + edata(l) - sdata(l) <= ROM_SIZE
           /\ sbss(l) = edata(l)
           /\ ebss(l) \in Nat /\ ebss(l) % 4 = 0 /\ sbss(l) <= ebss(l)
           /\ ebss(l) <= ram_end
           /\ ram_end \in Nat /\ 2 * ram_end < RegMod
           /\ RAM_START \in Nat /\ ROM_SIZE \in Nat /\ ROM_SIZE <= RAM_START
           /\ RAM_SIZE \in Nat /\ ram_end = RAM_START + RAM_SIZE
  <1>1. RAM_START \in Nat /\ RAM_SIZE \in Nat /\ ROM_SIZE \in Nat /\ ROM_SIZE <= RAM_START
    BY ArchAssumption
  <1>2. /\ RAM_START % 8 = 0 /\ 2 * ram_end < RegMod
        /\ l.text \in Nat /\ l.data \in Nat /\ l.bss \in Nat
        /\ Linked(l)
    BY LinkAssumption DEF Layout
  <1>3. sdata(l) = RAM_START
    BY <1>1, <1>2, AlignUp DEF sdata
  <1>4. sdata(l) % 4 = 0
    BY <1>1, <1>3, AlignUp DEF sdata
  <1>5. sdata(l) + l.data \in Nat
    BY <1>1, <1>2, <1>3
  <1>6. edata(l) \in Nat /\ edata(l) % 4 = 0 /\ edata(l) % 8 = 0 /\ sdata(l) <= edata(l)
    BY <1>1, <1>2, <1>3, <1>5, AlignUp DEF edata
  <1>7. sidata(l) \in Nat
    BY <1>2, AlignUp DEF sidata
  <1>8. sbss(l) = edata(l)
    BY <1>6, AlignUp DEF sbss
  <1>9. ebss(l) \in Nat /\ ebss(l) % 4 = 0 /\ sbss(l) <= ebss(l)
    BY <1>2, <1>6, <1>8, AlignUp DEF ebss
  <1> QED
    BY <1>1, <1>2, <1>3, <1>4, <1>6, <1>7, <1>8, <1>9 DEF Linked, ram_end

\* Adding a word's size below the end of the RAM does not wrap around.
LEMMA NoWrap ==
    ASSUME NEW l \in Layouts, NEW n \in Nat, n <= ram_end
    PROVE  Wrap(n) = n /\ n \in Word /\ Signed(n) = n
  <1> DEFINE m == RegMod
  <1>1. m \in Nat /\ ram_end \in Nat /\ 2 * ram_end < m
    BY Sections, RegModPositive
  <1>2. /\ Wrap(n) = n % m /\ Word = 0 .. m - 1
        /\ Signed(n) = IF 2 * n >= m THEN n - m ELSE n
    BY DEF Wrap, Word, Signed
  <1> HIDE DEF m
  <1>3. n < m /\ ~ (2 * n >= m)
    BY <1>1
  <1> QED
    BY <1>1, <1>2, <1>3

-----------------------------------------------------------------------------
(* The invariant: at each instruction, what it finds *)

\* The order of the sections of the program at hand.
Ordered ==
    /\ sdata(layout) = RAM_START /\ RAM_START \in Nat
    /\ edata(layout) \in Nat /\ RAM_START <= edata(layout)
    /\ sbss(layout) = edata(layout)
    /\ ebss(layout) \in Nat /\ edata(layout) <= ebss(layout) /\ ebss(layout) <= ram_end
    /\ ram_end \in Nat
    /\ sidata(layout) \in Nat /\ sidata(layout) + edata(layout) - RAM_START <= ROM_SIZE
    /\ ROM_SIZE \in Nat /\ ROM_SIZE <= RAM_START

\* The linker script puts them in order.
LEMMA InOrder == ASSUME layout \in Layouts PROVE Ordered
  BY Sections DEF Ordered

\* The first bytes of .data are copied, of .bss cleared; from an address on the
\* RAM is as it was.
Copied(m)    == \A a \in sdata(layout) .. m - 1 :
                    ram[a - RAM_START] = Image(layout)[sidata(layout) + a - sdata(layout)]
Cleared(m)   == \A a \in sbss(layout) .. m - 1 : ram[a - RAM_START] = 0
Untouched(m) == \A a \in m .. ram_end - 1 : ram[a - RAM_START] = before[a - RAM_START]

GpSet == reg["gp"] = global_pointer(layout)
SpSet == reg["sp"] = stack_top

\* The loops are at the word in a1, and in a0, of which `done` bytes are written.
Copies(ahead, done) ==
    /\ reg["a2"] = edata(layout)
    /\ reg["a1"] \in sdata(layout) .. edata(layout) /\ reg["a1"] % 4 = 0
    /\ reg["a0"] = sidata(layout) + reg["a1"] - sdata(layout) + ahead
    /\ Copied(reg["a1"] + done)
Clears(done) ==
    /\ reg["a1"] = ebss(layout)
    /\ reg["a0"] \in sbss(layout) .. ebss(layout) /\ reg["a0"] % 4 = 0
    /\ Cleared(reg["a0"] + done)

CopyLabels == {"copy_data_loop", "lw t0", "sw t0", "addi a0", "addi a1", "j copy_data_loop"}
ZeroLabels == {"zero_bss_loop", "sw zero", "addi a0 (bss)", "j zero_bss_loop"}
DoneLabels == {"la a0, _sbss", "auipc a1, _ebss", "la a1, _ebss", "call main"}
LateLabels == CopyLabels \cup ZeroLabels \cup DoneLabels \cup {"copy_data_done"}
SetLabels  == {"auipc a0, _sidata", "la a0, _sidata", "auipc a1, _sdata", "la a1, _sdata",
               "auipc a2, _edata", "la a2, _edata"}

Early ==
    /\ at \in {"_start", "la gp", "auipc sp", "la sp"} \cup SetLabels => Untouched(sdata(layout))
    /\ at \in {"auipc sp", "la sp"} \cup SetLabels \cup LateLabels => GpSet
    /\ at \in SetLabels \cup LateLabels => SpSet
    /\ at \in {"auipc a1, _sdata", "la a1, _sdata", "auipc a2, _edata", "la a2, _edata"}
          => reg["a0"] = sidata(layout)
    /\ at \in {"auipc a2, _edata", "la a2, _edata"} => reg["a1"] = sdata(layout)

Copying ==
    /\ at \in CopyLabels \cup {"copy_data_done"} => Untouched(edata(layout))
    /\ at \in {"copy_data_loop", "lw t0", "sw t0", "j copy_data_loop"} => Copies(0, 0)
    /\ at \in {"lw t0", "sw t0", "addi a0", "addi a1"} => reg["a1"] < edata(layout)
    /\ at = "sw t0" => \A k \in 0 .. 3 : t0[k] = Image(layout)[reg["a0"] + k]
    /\ at = "addi a0" => Copies(0, 4)
    /\ at = "addi a1" => Copies(4, 4)

Zeroing ==
    /\ at \in {"copy_data_done"} \cup DoneLabels \cup ZeroLabels => Copied(edata(layout))
    /\ at \in DoneLabels \cup ZeroLabels => Untouched(ebss(layout))
    /\ at \in {"auipc a1, _ebss", "la a1, _ebss"} => reg["a0"] = sbss(layout)
    /\ at \in {"zero_bss_loop", "sw zero", "j zero_bss_loop"} => Clears(0)
    /\ at \in {"sw zero", "addi a0 (bss)"} => reg["a0"] < ebss(layout)
    /\ at = "addi a0 (bss)" => Clears(4)
    /\ at = "call main" => Cleared(ebss(layout))

StartInv ==
    /\ layout \in Layouts
    /\ reg \in [Registers -> Word]
    /\ Early /\ Copying /\ Zeroing

-----------------------------------------------------------------------------
(* Instructions *)

\* The instructions of the two loops by name.
CopyFirsts == \/ Auipc("auipc a0, _sidata", "a0", "la a0, _sidata")
              \/ Auipc("auipc a1, _sdata", "a1", "la a1, _sdata")
              \/ Auipc("auipc a2, _edata", "a2", "la a2, _edata")
CopySets  == \/ Set("la a0, _sidata", "a0", sidata(layout), "auipc a1, _sdata")
             \/ Set("la a1, _sdata", "a1", sdata(layout), "auipc a2, _edata")
             \/ Set("la a2, _edata", "a2", edata(layout), "copy_data_loop")
CopyTest  == Bge("copy_data_loop", "a1", "a2", "copy_data_done", "lw t0")
CopyLoad  == Lw("lw t0", "a0", "sw t0")
CopyStore == Sw("sw t0", t0, "a1", "addi a0")
CopySteps == \/ Set("addi a0", "a0", Wrap(reg["a0"] + 4), "addi a1")
             \/ Set("addi a1", "a1", Wrap(reg["a1"] + 4), "j copy_data_loop")
             \/ Jump("j copy_data_loop", "copy_data_loop")
ZeroFirsts == \/ Auipc("copy_data_done", "a0", "la a0, _sbss")
              \/ Auipc("auipc a1, _ebss", "a1", "la a1, _ebss")
ZeroSets  == \/ Set("la a0, _sbss", "a0", sbss(layout), "auipc a1, _ebss")
             \/ Set("la a1, _ebss", "a1", ebss(layout), "zero_bss_loop")
ZeroTest  == Bge("zero_bss_loop", "a0", "a1", "call main", "sw zero")
ZeroStore == Sw("sw zero", Zero, "a0", "addi a0 (bss)")
ZeroSteps == \/ Set("addi a0 (bss)", "a0", Wrap(reg["a0"] + 4), "j zero_bss_loop")
             \/ Jump("j zero_bss_loop", "zero_bss_loop")

\* What a store of four bytes to address p leaves in the RAM.
LEMMA Stored ==
    ASSUME Ordered, NEW bytes, NEW p \in Int,
           ram' = [c \in Cells |-> LET k == RAM_START + c - p
                                   IN  IF k \in 0 .. 3 THEN bytes[k] ELSE ram[c]],
           NEW a \in RAM_START .. ram_end - 1
    PROVE  ram'[a - RAM_START] = IF a - p \in 0 .. 3 THEN bytes[a - p] ELSE ram[a - RAM_START]
  <1>1. RAM_START \in Nat /\ RAM_SIZE \in Nat /\ ram_end = RAM_START + RAM_SIZE
    BY ArchAssumption DEF ram_end
  <1>2. a - RAM_START \in Cells /\ RAM_START + (a - RAM_START) - p = a - p
    BY <1>1 DEF Cells
  <1> QED
    BY <1>2

-----------------------------------------------------------------------------
\* Before the first instruction.
LEMMA StartInit == Init => StartInv
  <1> SUFFICES ASSUME Init PROVE StartInv
    OBVIOUS
  <1>1. at = "_start" /\ ram = before /\ layout \in Layouts /\ reg \in [Registers -> Word]
    BY DEF Init
  <1>2. Early
    BY <1>1 DEF Early, SetLabels, LateLabels, CopyLabels, ZeroLabels, DoneLabels, Untouched
  <1>3. Copying
    BY <1>1 DEF Copying, CopyLabels
  <1>4. Zeroing
    BY <1>1 DEF Zeroing, ZeroLabels, DoneLabels
  <1> QED
    BY <1>1, <1>2, <1>3, <1>4 DEF StartInv

\* Setting the pointers.
LEMMA PointersNext == StartInv /\ Pointers => StartInv'
  <1> SUFFICES ASSUME StartInv, Pointers PROVE StartInv'
    OBVIOUS
  <1> USE DEF Auipc, Set, StartInv
  <1>0. layout \in Layouts /\ reg \in [Registers -> Word] /\ stack_top \in Word
        /\ global_pointer(layout) \in Word
    <2>1. sdata(layout) \in Nat /\ GP_OFFSET \in Nat
      BY Sections, LinkAssumption
    <2>2. global_pointer(layout) \in Word
      BY <2>1, WrapWord DEF global_pointer
    <2>3. ram_end \in Nat /\ ram_end <= ram_end
      BY Sections
    <2> QED
      BY <2>2, <2>3, NoWrap DEF stack_top
  <1>1. /\ layout' = layout /\ ram' = ram /\ before' = before
        /\ reg' \in [Registers -> Word]
        /\ Untouched(sdata(layout))
    BY <1>0 DEF Pointers, Registers, Early
  <1>2. Untouched(sdata(layout))'
    BY <1>1 DEF Untouched
  <1>3. \/ at' = "la gp"
        \/ at' \in {"auipc sp", "la sp"} /\ GpSet'
        \/ at' = "auipc a0, _sidata" /\ GpSet' /\ SpSet'
    <2>1. CASE Auipc("_start", "gp", "la gp")
      BY <2>1
    <2>2. CASE Set("la gp", "gp", global_pointer(layout), "auipc sp")
      BY <2>2, <1>0, <1>1 DEF GpSet, Registers
    <2>3. CASE Auipc("auipc sp", "sp", "la sp")
      BY <2>3, <1>0, <1>1 DEF GpSet, Registers, Early
    <2>4. CASE Set("la sp", "sp", stack_top, "auipc a0, _sidata")
      BY <2>4, <1>0, <1>1 DEF GpSet, SpSet, Registers, Early
    <2> QED
      BY <2>1, <2>2, <2>3, <2>4 DEF Pointers
  <1>4. Early'
    BY <1>2, <1>3 DEF Early, SetLabels, LateLabels, CopyLabels, ZeroLabels, DoneLabels
  <1>5. Copying' /\ Zeroing'
    BY <1>3 DEF Copying, Zeroing, CopyLabels, ZeroLabels, DoneLabels
  <1> QED
    BY <1>0, <1>1, <1>4, <1>5

\* The first halves of the three pointers of the copy: what is already set stays.
LEMMA CopyFirstNext ==
    ASSUME StartInv, CopyFirsts
    PROVE  StartInv'
  <1>0. layout \in Layouts /\ reg \in [Registers -> Word]
    BY DEF StartInv
  <1>1. /\ layout' = layout /\ ram' = ram /\ before' = before
        /\ reg' \in [Registers -> Word]
        /\ reg'["gp"] = reg["gp"] /\ reg'["sp"] = reg["sp"]
    BY <1>0 DEF CopyFirsts, Auipc, Set, Registers
  <1>2. GpSet /\ SpSet /\ Untouched(sdata(layout))
    BY DEF CopyFirsts, Auipc, Set, StartInv, Early, SetLabels
  <1>3. GpSet' /\ SpSet' /\ Untouched(sdata(layout))'
    BY <1>1, <1>2 DEF GpSet, SpSet, Untouched
  <1>4. /\ at' \in {"la a0, _sidata", "la a1, _sdata", "la a2, _edata"}
        /\ at' # "la a0, _sidata" => reg'["a0"] = sidata(layout')
        /\ at' = "la a2, _edata" => reg'["a1"] = sdata(layout')
    <2>1. CASE Auipc("auipc a0, _sidata", "a0", "la a0, _sidata")
      BY <2>1 DEF Auipc, Set
    <2>2. CASE Auipc("auipc a1, _sdata", "a1", "la a1, _sdata")
      <3>1. reg["a0"] = sidata(layout)
        BY <2>2 DEF Auipc, Set, StartInv, Early
      <3> QED
        BY <2>2, <3>1, <1>0, <1>1 DEF Auipc, Set, Registers
    <2>3. CASE Auipc("auipc a2, _edata", "a2", "la a2, _edata")
      <3>1. reg["a0"] = sidata(layout) /\ reg["a1"] = sdata(layout)
        BY <2>3 DEF Auipc, Set, StartInv, Early
      <3> QED
        BY <2>3, <3>1, <1>0, <1>1 DEF Auipc, Set, Registers
    <2> QED
      BY <2>1, <2>2, <2>3 DEF CopyFirsts
  <1>5. Early'
    BY <1>3, <1>4 DEF Early, SetLabels, LateLabels, CopyLabels, ZeroLabels, DoneLabels
  <1>6. Copying' /\ Zeroing'
    BY <1>4 DEF Copying, Zeroing, CopyLabels, ZeroLabels, DoneLabels
  <1> QED
    BY <1>0, <1>1, <1>5, <1>6 DEF StartInv

\* Setting up the copy of .data.
LEMMA CopySetNext ==
    ASSUME StartInv, CopySets
    PROVE  StartInv'
  <1>0. layout \in Layouts /\ reg \in [Registers -> Word]
    BY DEF StartInv
  <1>ord. Ordered
    BY <1>0, InOrder
  <1>1. sidata(layout) \in Word /\ sdata(layout) \in Word /\ edata(layout) \in Word
    <2>1. /\ sidata(layout) \in Nat /\ sidata(layout) <= ram_end
          /\ sdata(layout) \in Nat /\ sdata(layout) <= ram_end
          /\ edata(layout) \in Nat /\ edata(layout) <= ram_end
      BY <1>ord DEF Ordered
    <2> QED
      BY <1>0, <2>1, NoWrap
  <1>2. /\ layout' = layout /\ ram' = ram /\ before' = before
        /\ reg' \in [Registers -> Word]
    BY <1>0, <1>1 DEF CopySets, Set, Registers
  <1>3. GpSet /\ SpSet /\ Untouched(sdata(layout))
    BY DEF CopySets, Set, StartInv, Early, SetLabels
  <1>4. GpSet' /\ SpSet'
    BY <1>0, <1>2, <1>3 DEF CopySets, Set, Registers, GpSet, SpSet
  <1>5. Untouched(sdata(layout))' /\ Untouched(edata(layout))'
    <2>1. edata(layout) .. ram_end - 1 \subseteq sdata(layout) .. ram_end - 1
      BY <1>ord DEF Ordered
    <2>2. Untouched(edata(layout))
      BY <1>3, <2>1 DEF Untouched
    <2> QED
      BY <1>2, <1>3, <2>2 DEF Untouched
  <1>6. CASE Set("la a0, _sidata", "a0", sidata(layout), "auipc a1, _sdata")
    <2>1. at' = "auipc a1, _sdata" /\ reg'["a0"] = sidata(layout')
      BY <1>0, <1>6, <1>2 DEF CopySets, Set, Registers
    <2>2. Early'
      BY <1>4, <1>5, <2>1 DEF Early, SetLabels, LateLabels, CopyLabels, ZeroLabels, DoneLabels
    <2>3. Copying' /\ Zeroing'
      BY <2>1 DEF Copying, Zeroing, CopyLabels, ZeroLabels, DoneLabels
    <2> QED
      BY <1>0, <1>2, <2>2, <2>3 DEF StartInv
  <1>7. CASE Set("la a1, _sdata", "a1", sdata(layout), "auipc a2, _edata")
    <2>0. reg["a0"] = sidata(layout)
      BY <1>7 DEF CopySets, Set, StartInv, Early
    <2>1. at' = "auipc a2, _edata" /\ reg'["a0"] = sidata(layout') /\ reg'["a1"] = sdata(layout')
      BY <1>0, <1>7, <1>2, <2>0 DEF CopySets, Set, Registers
    <2>2. Early'
      BY <1>4, <1>5, <2>1 DEF Early, SetLabels, LateLabels, CopyLabels, ZeroLabels, DoneLabels
    <2>3. Copying' /\ Zeroing'
      BY <2>1 DEF Copying, Zeroing, CopyLabels, ZeroLabels, DoneLabels
    <2> QED
      BY <1>0, <1>2, <2>2, <2>3 DEF StartInv
  <1>8. CASE Set("la a2, _edata", "a2", edata(layout), "copy_data_loop")
    <2>0. reg["a0"] = sidata(layout) /\ reg["a1"] = sdata(layout)
      BY <1>8 DEF CopySets, Set, StartInv, Early
    <2>1. /\ at' = "copy_data_loop" /\ reg'["a0"] = sidata(layout)
          /\ reg'["a1"] = sdata(layout) /\ reg'["a2"] = edata(layout)
      BY <1>0, <1>8, <1>2, <2>0 DEF CopySets, Set, Registers
    <2>2. Copies(0, 0)'
      <3>1. sdata(layout) \in sdata(layout) .. edata(layout)
        BY <1>ord DEF Ordered
      <3>2. sdata(layout) % 4 = 0
        BY <1>0, Sections
      <3>3. /\ sidata(layout) + sdata(layout) - sdata(layout) + 0 = sidata(layout)
            /\ sdata(layout) .. sdata(layout) + 0 - 1 = {}
        BY <1>ord DEF Ordered
      <3> QED
        BY <1>2, <2>1, <3>1, <3>2, <3>3 DEF Copies, Copied
    <2>3. Early'
      BY <1>4, <2>1 DEF Early, SetLabels, LateLabels, CopyLabels, ZeroLabels, DoneLabels
    <2>4. Copying' /\ Zeroing'
      BY <1>5, <2>1, <2>2 DEF Copying, Zeroing, CopyLabels, ZeroLabels, DoneLabels
    <2> QED
      BY <1>0, <1>2, <2>3, <2>4 DEF StartInv
  <1> QED
    BY <1>6, <1>7, <1>8 DEF CopySets

\* The state of the copy loop, before each of its instructions.
LEMMA InCopyLoop ==
    ASSUME StartInv, at \in CopyLabels
    PROVE  /\ layout \in Layouts /\ reg \in [Registers -> Word]
           /\ GpSet /\ SpSet /\ Untouched(edata(layout))
           /\ reg["a2"] = edata(layout)
           /\ reg["a1"] \in sdata(layout) .. edata(layout) /\ reg["a1"] % 4 = 0
  BY DEF StartInv, CopyLabels, LateLabels, Early, Copying, Copies

\* A word below an aligned end fits.
LEMMA WordFits ==
    ASSUME NEW n \in Nat, NEW e \in Nat, n < e, n % 4 = 0, e % 4 = 0
    PROVE  n + 4 <= e /\ (n + 4) % 4 = 0
  OBVIOUS

\* The test at the head of the copy loop: signed, but of addresses in the lower half.
LEMMA CopyTestNext ==
    ASSUME StartInv, CopyTest
    PROVE  StartInv'
  <1>0. at = "copy_data_loop" /\ at \in CopyLabels
    BY DEF CopyTest, Bge, CopyLabels
  <1>1. /\ layout \in Layouts /\ reg \in [Registers -> Word]
        /\ GpSet /\ SpSet /\ Untouched(edata(layout))
        /\ reg["a2"] = edata(layout)
        /\ reg["a1"] \in sdata(layout) .. edata(layout)
    BY <1>0, InCopyLoop
  <1>2. Copies(0, 0)
    BY <1>0 DEF StartInv, Copying
  <1>3. layout' = layout /\ ram' = ram /\ before' = before /\ reg' = reg
    BY DEF CopyTest, Bge
  <1>ord. Ordered
    BY <1>1, InOrder
  <1>4. Signed(reg["a1"]) = reg["a1"] /\ Signed(reg["a2"]) = reg["a2"]
    <2>1. /\ reg["a1"] \in Nat /\ reg["a1"] <= ram_end
          /\ reg["a2"] \in Nat /\ reg["a2"] <= ram_end
      BY <1>1, <1>ord DEF Ordered
    <2> QED
      BY <1>1, <2>1, NoWrap
  <1>5. \/ at' = "copy_data_done" /\ reg["a1"] = edata(layout)
        \/ at' = "lw t0" /\ reg["a1"] < edata(layout)
    <2>1. /\ reg["a1"] \in Int /\ edata(layout) \in Int
          /\ reg["a1"] <= edata(layout)
      BY <1>1, <1>ord DEF Ordered
    <2>2. at' = IF reg["a1"] >= edata(layout) THEN "copy_data_done" ELSE "lw t0"
      BY <1>1, <1>4 DEF CopyTest, Bge
    <2>3. CASE reg["a1"] >= edata(layout)
      <3>1. reg["a1"] = edata(layout)
        BY <2>1, <2>3
      <3>2. at' = "copy_data_done"
        BY <2>2, <2>3
      <3> QED
        BY <3>1, <3>2
    <2>4. CASE ~ (reg["a1"] >= edata(layout))
      <3>1. reg["a1"] < edata(layout)
        BY <2>1, <2>4
      <3>2. at' = "lw t0"
        BY <2>2, <2>4
      <3> QED
        BY <3>1, <3>2
    <2> QED
      BY <2>3, <2>4
  <1>6. GpSet' /\ SpSet' /\ Untouched(edata(layout))'
    BY <1>1, <1>3 DEF GpSet, SpSet, Untouched
  <1>7. Copies(0, 0)'
    BY <1>2, <1>3 DEF Copies, Copied
  <1>8. reg["a1"] = edata(layout) => Copied(edata(layout))'
    <2>1. edata(layout) + 0 = edata(layout)
      BY <1>ord DEF Ordered
    <2> QED
      BY <1>2, <1>3, <2>1 DEF Copies, Copied
  <1>9. reg["a1"] < edata(layout) => (reg["a1"] < edata(layout))'
    BY <1>3
  <1>10. Early'
    BY <1>5, <1>6 DEF Early, SetLabels, LateLabels, CopyLabels, ZeroLabels, DoneLabels
  <1>11. Copying' /\ Zeroing'
    BY <1>5, <1>6, <1>7, <1>8, <1>9 DEF Copying, Zeroing, CopyLabels, ZeroLabels, DoneLabels
  <1> QED
    BY <1>1, <1>3, <1>10, <1>11 DEF StartInv

\* The load reads from the ROM, below its end.
LEMMA CopyLoadNext ==
    ASSUME StartInv, CopyLoad
    PROVE  StartInv'
  <1>0. at = "lw t0" /\ at' = "sw t0" /\ at \in CopyLabels
    BY DEF CopyLoad, Lw, CopyLabels
  <1>1. /\ layout \in Layouts /\ reg \in [Registers -> Word]
        /\ GpSet /\ SpSet /\ Untouched(edata(layout))
        /\ reg["a1"] \in sdata(layout) .. edata(layout) /\ reg["a1"] % 4 = 0
    BY <1>0, InCopyLoop
  <1>ord. Ordered
    BY <1>1, InOrder
  <1>2. Copies(0, 0) /\ reg["a1"] < edata(layout)
    BY <1>0 DEF StartInv, Copying
  <1>3. layout' = layout /\ ram' = ram /\ before' = before /\ reg' = reg
    BY DEF CopyLoad, Lw
  <1>4. \A k \in 0 .. 3 : t0'[k] = Image(layout)[reg["a0"] + k]
    <2>1. reg["a1"] + 4 <= edata(layout)
      <3>1. reg["a1"] \in Nat /\ edata(layout) \in Nat
        BY <1>1, <1>ord DEF Ordered
      <3>2. edata(layout) % 4 = 0
        BY <1>1, Sections
      <3> QED
        BY <1>1, <1>2, <3>1, <3>2, WordFits
    <2>2. reg["a0"] = sidata(layout) + reg["a1"] - sdata(layout) + 0
      BY <1>2 DEF Copies
    <2>3. reg["a0"] + 4 <= ROM_SIZE /\ reg["a0"] \in Int
      BY <1>1, <2>1, <2>2, <1>ord DEF Ordered
    <2>4. \A k \in 0 .. 3 : reg["a0"] + k < ROM_SIZE
      BY <2>3, <1>ord DEF Ordered
    <2>5. \A k \in 0 .. 3 : t0'[k] = ByteAt(reg["a0"] + k)
      BY DEF CopyLoad, Lw
    <2> QED
      BY <2>4, <2>5 DEF ByteAt
  <1>5. (\A k \in 0 .. 3 : t0[k] = Image(layout)[reg["a0"] + k])'
    BY <1>3, <1>4
  <1>6. GpSet' /\ SpSet' /\ Untouched(edata(layout))' /\ (reg["a1"] < edata(layout))'
    BY <1>1, <1>2, <1>3 DEF GpSet, SpSet, Untouched
  <1>7. Copies(0, 0)'
    BY <1>2, <1>3 DEF Copies, Copied
  <1>8. Early'
    BY <1>0, <1>6 DEF Early, SetLabels, LateLabels, CopyLabels, ZeroLabels, DoneLabels
  <1>9. Copying' /\ Zeroing'
    BY <1>0, <1>5, <1>6, <1>7 DEF Copying, Zeroing, CopyLabels, ZeroLabels, DoneLabels
  <1> QED
    BY <1>1, <1>3, <1>8, <1>9 DEF StartInv

\* The store completes a word of .data and touches nothing behind it.
LEMMA CopyStoreNext ==
    ASSUME StartInv, CopyStore
    PROVE  StartInv'
  <1>0. at = "sw t0" /\ at' = "addi a0" /\ at \in CopyLabels
    BY DEF CopyStore, Sw, CopyLabels
  <1>1. /\ layout \in Layouts /\ reg \in [Registers -> Word]
        /\ GpSet /\ SpSet /\ Untouched(edata(layout))
        /\ reg["a1"] \in sdata(layout) .. edata(layout) /\ reg["a1"] % 4 = 0
    BY <1>0, InCopyLoop
  <1>ord. Ordered
    BY <1>1, InOrder
  <1>2. Copies(0, 0) /\ reg["a1"] < edata(layout)
    BY <1>0 DEF StartInv, Copying
  <1>3. layout' = layout /\ before' = before /\ reg' = reg
    BY DEF CopyStore, Sw
  <1>4. reg["a1"] + 4 <= edata(layout) /\ reg["a1"] \in Int
    <2>1. reg["a1"] \in Nat /\ edata(layout) \in Nat
      BY <1>1, <1>ord DEF Ordered
    <2>2. edata(layout) % 4 = 0
      BY <1>1, Sections
    <2> QED
      BY <1>1, <1>2, <2>1, <2>2, WordFits
  <1>5. \A a \in RAM_START .. ram_end - 1 :
            ram'[a - RAM_START] = IF a - reg["a1"] \in 0 .. 3 THEN t0[a - reg["a1"]]
                                  ELSE ram[a - RAM_START]
    <2>1. ram' = [c \in Cells |-> LET k == RAM_START + c - reg["a1"]
                                  IN  IF k \in 0 .. 3 THEN t0[k] ELSE ram[c]]
      BY DEF CopyStore, Sw
    <2> QED
      BY <1>4, <1>ord, <2>1, Stored
  <1>6. \A k \in 0 .. 3 : t0[k] = Image(layout)[reg["a0"] + k]
    BY <1>0 DEF StartInv, Copying
  <1>7. reg["a0"] = sidata(layout) + reg["a1"] - sdata(layout) + 0
    BY <1>2 DEF Copies
  <1>8. \A a \in sdata(layout) .. reg["a1"] + 4 - 1 :
            ram'[a - RAM_START] = Image(layout)[sidata(layout) + a - sdata(layout)]
    <2> SUFFICES ASSUME NEW a \in sdata(layout) .. reg["a1"] + 4 - 1
                 PROVE  ram'[a - RAM_START] = Image(layout)[sidata(layout) + a - sdata(layout)]
      OBVIOUS
    <2>1. a \in RAM_START .. ram_end - 1 /\ a \in Int
      BY <1>4, <1>ord DEF Ordered
    <2>2. CASE a < reg["a1"]
      <3>1. a \in sdata(layout) .. reg["a1"] + 0 - 1 /\ ~ (a - reg["a1"] \in 0 .. 3)
        BY <1>4, <1>ord, <2>1, <2>2 DEF Ordered
      <3>2. ram[a - RAM_START] = Image(layout)[sidata(layout) + a - sdata(layout)]
        BY <1>2, <3>1 DEF Copies, Copied
      <3> QED
        BY <1>5, <2>1, <3>1, <3>2
    <2>3. CASE a >= reg["a1"]
      <3>1. a - reg["a1"] \in 0 .. 3
        BY <1>4, <2>1, <2>3, <1>ord DEF Ordered
      <3>2. reg["a0"] + (a - reg["a1"]) = sidata(layout) + a - sdata(layout)
        BY <1>4, <1>7, <2>1, <1>ord DEF Ordered
      <3>3. t0[a - reg["a1"]] = Image(layout)[sidata(layout) + a - sdata(layout)]
        BY <1>6, <3>1, <3>2
      <3> QED
        BY <1>5, <2>1, <3>1, <3>3
    <2> QED
      BY <1>4, <2>1, <2>2, <2>3
  <1>9. \A a \in edata(layout) .. ram_end - 1 : ram'[a - RAM_START] = before[a - RAM_START]
    <2> SUFFICES ASSUME NEW a \in edata(layout) .. ram_end - 1
                 PROVE  ram'[a - RAM_START] = before[a - RAM_START]
      OBVIOUS
    <2>1. a \in RAM_START .. ram_end - 1 /\ ~ (a - reg["a1"] \in 0 .. 3)
      BY <1>4, <1>ord DEF Ordered
    <2>2. ram[a - RAM_START] = before[a - RAM_START]
      BY <1>1 DEF Untouched
    <2> QED
      BY <1>5, <2>1, <2>2
  <1>10. Copies(0, 4)'
    BY <1>2, <1>3, <1>8 DEF Copies, Copied
  <1>11. GpSet' /\ SpSet' /\ Untouched(edata(layout))' /\ (reg["a1"] < edata(layout))'
    BY <1>1, <1>2, <1>3, <1>9 DEF GpSet, SpSet, Untouched
  <1>12. Early'
    BY <1>0, <1>11 DEF Early, SetLabels, LateLabels, CopyLabels, ZeroLabels, DoneLabels
  <1>13. Copying' /\ Zeroing'
    BY <1>0, <1>10, <1>11 DEF Copying, Zeroing, CopyLabels, ZeroLabels, DoneLabels
  <1> QED
    BY <1>1, <1>3, <1>12, <1>13 DEF StartInv

\* Both pointers move on to the next word without wrapping around.
LEMMA CopyStepsNext ==
    ASSUME StartInv, CopySteps
    PROVE  StartInv'
  <1>0. at \in {"addi a0", "addi a1", "j copy_data_loop"} /\ at \in CopyLabels
    BY DEF CopySteps, Set, Jump, CopyLabels
  <1>1. /\ layout \in Layouts /\ reg \in [Registers -> Word]
        /\ GpSet /\ SpSet /\ Untouched(edata(layout))
        /\ reg["a2"] = edata(layout)
        /\ reg["a1"] \in sdata(layout) .. edata(layout) /\ reg["a1"] % 4 = 0
    BY <1>0, InCopyLoop
  <1>ord. Ordered
    BY <1>1, InOrder
  <1>2. layout' = layout /\ before' = before /\ ram' = ram
    BY DEF CopySteps, Set, Jump
  <1>3. Untouched(edata(layout))'
    BY <1>1, <1>2 DEF Untouched
  <1>4. reg["a1"] \in Nat /\ edata(layout) \in Nat
    BY <1>1, <1>ord DEF Ordered
  <1>5. at \in {"addi a0", "addi a1"} =>
            /\ reg["a1"] < edata(layout)
            /\ reg["a1"] + 4 <= edata(layout) /\ (reg["a1"] + 4) % 4 = 0
    <2>1. at \in {"addi a0", "addi a1"} => reg["a1"] < edata(layout)
      BY DEF StartInv, Copying
    <2>2. edata(layout) % 4 = 0
      BY <1>1, Sections
    <2> QED
      BY <1>1, <1>4, <2>1, <2>2, WordFits
  <1>6. CASE at = "addi a0"
    <2>1. Copies(0, 4)
      BY <1>6 DEF StartInv, Copying
    <2>2. /\ reg["a0"] = sidata(layout) + reg["a1"] - sdata(layout) + 0
          /\ reg["a0"] + 4 \in Nat /\ reg["a0"] + 4 <= ram_end
          /\ reg["a0"] + 4 = sidata(layout) + reg["a1"] - sdata(layout) + 4
      <3>1. reg["a1"] + 4 <= edata(layout)
        BY <1>5, <1>6
      <3>2. reg["a0"] = sidata(layout) + reg["a1"] - sdata(layout) + 0
        BY <2>1 DEF Copies
      <3>3. sdata(layout) <= reg["a1"]
        BY <1>1, <1>4, <1>ord DEF Ordered
      <3> QED
        BY <1>4, <3>1, <3>2, <3>3, <1>ord DEF Ordered
    <2>3. Wrap(reg["a0"] + 4) = reg["a0"] + 4 /\ reg["a0"] + 4 \in Word
      BY <1>1, <2>2, NoWrap
    <2>4. at' = "addi a1" /\ reg' = [reg EXCEPT !["a0"] = reg["a0"] + 4]
      BY <1>6, <2>3 DEF CopySteps, Set, Jump
    <2>5. /\ reg' \in [Registers -> Word]
          /\ reg'["a0"] = reg["a0"] + 4 /\ reg'["a1"] = reg["a1"] /\ reg'["a2"] = reg["a2"]
          /\ reg'["gp"] = reg["gp"] /\ reg'["sp"] = reg["sp"]
      BY <1>1, <2>3, <2>4 DEF Registers
    <2>6. Copies(4, 4)'
      BY <1>1, <1>2, <2>1, <2>2, <2>5 DEF Copies, Copied
    <2>7. GpSet' /\ SpSet' /\ (reg["a1"] < edata(layout))'
      BY <1>1, <1>2, <1>5, <1>6, <2>5 DEF GpSet, SpSet
    <2>8. Early'
      BY <2>4, <2>7 DEF Early, SetLabels, LateLabels, CopyLabels, ZeroLabels, DoneLabels
    <2>9. Copying' /\ Zeroing'
      BY <1>3, <2>4, <2>6, <2>7 DEF Copying, Zeroing, CopyLabels, ZeroLabels, DoneLabels
    <2> QED
      BY <1>1, <1>2, <2>5, <2>8, <2>9 DEF StartInv
  <1>7. CASE at = "addi a1"
    <2>1. Copies(4, 4)
      BY <1>7 DEF StartInv, Copying
    <2>2. /\ reg["a1"] + 4 \in Nat /\ reg["a1"] + 4 <= ram_end
          /\ reg["a1"] + 4 \in sdata(layout) .. edata(layout)
      <3>1. reg["a1"] + 4 <= edata(layout)
        BY <1>5, <1>7
      <3> QED
        BY <1>1, <1>4, <3>1, <1>ord DEF Ordered
    <2>3. Wrap(reg["a1"] + 4) = reg["a1"] + 4 /\ reg["a1"] + 4 \in Word
      BY <1>1, <2>2, NoWrap
    <2>4. at' = "j copy_data_loop" /\ reg' = [reg EXCEPT !["a1"] = reg["a1"] + 4]
      BY <1>7, <2>3 DEF CopySteps, Set, Jump
    <2>5. /\ reg' \in [Registers -> Word]
          /\ reg'["a0"] = reg["a0"] /\ reg'["a1"] = reg["a1"] + 4 /\ reg'["a2"] = reg["a2"]
          /\ reg'["gp"] = reg["gp"] /\ reg'["sp"] = reg["sp"]
      BY <1>1, <2>3, <2>4 DEF Registers
    <2>6. /\ reg["a0"] = sidata(layout) + (reg["a1"] + 4) - sdata(layout) + 0
          /\ reg["a1"] + 4 + 0 = reg["a1"] + 4
      BY <1>4, <2>1, <1>ord DEF Copies, Ordered
    <2>7. Copied(reg["a1"] + 4)
      BY <2>1 DEF Copies
    <2>8. Copies(0, 0)'
      BY <1>1, <1>2, <1>5, <1>7, <2>2, <2>5, <2>6, <2>7 DEF Copies, Copied
    <2>9. GpSet' /\ SpSet'
      BY <1>1, <1>2, <2>5 DEF GpSet, SpSet
    <2>10. Early'
      BY <2>4, <2>9 DEF Early, SetLabels, LateLabels, CopyLabels, ZeroLabels, DoneLabels
    <2>11. Copying' /\ Zeroing'
      BY <1>3, <2>4, <2>8 DEF Copying, Zeroing, CopyLabels, ZeroLabels, DoneLabels
    <2> QED
      BY <1>1, <1>2, <2>5, <2>10, <2>11 DEF StartInv
  <1>8. CASE at = "j copy_data_loop"
    <2>1. Copies(0, 0)
      BY <1>8 DEF StartInv, Copying
    <2>2. at' = "copy_data_loop" /\ reg' = reg
      BY <1>8 DEF CopySteps, Set, Jump
    <2>3. Copies(0, 0)' /\ GpSet' /\ SpSet'
      BY <1>1, <1>2, <2>1, <2>2 DEF Copies, Copied, GpSet, SpSet
    <2>4. Early'
      BY <2>2, <2>3 DEF Early, SetLabels, LateLabels, CopyLabels, ZeroLabels, DoneLabels
    <2>5. Copying' /\ Zeroing'
      BY <1>3, <2>2, <2>3 DEF Copying, Zeroing, CopyLabels, ZeroLabels, DoneLabels
    <2> QED
      BY <1>1, <1>2, <2>2, <2>4, <2>5 DEF StartInv
  <1> QED
    BY <1>0, <1>6, <1>7, <1>8

\* The first halves of the two pointers of the clearing.
LEMMA ZeroFirstNext ==
    ASSUME StartInv, ZeroFirsts
    PROVE  StartInv'
  <1>0. at \in {"copy_data_done", "auipc a1, _ebss"}
    BY DEF ZeroFirsts, Auipc, Set
  <1>1. /\ layout \in Layouts /\ reg \in [Registers -> Word]
        /\ GpSet /\ SpSet /\ Copied(edata(layout))
    BY <1>0 DEF StartInv, Early, Zeroing, LateLabels, DoneLabels
  <1>ord. Ordered
    BY <1>1, InOrder
  <1>2. /\ layout' = layout /\ ram' = ram /\ before' = before
        /\ reg' \in [Registers -> Word]
        /\ reg'["gp"] = reg["gp"] /\ reg'["sp"] = reg["sp"]
    BY <1>1 DEF ZeroFirsts, Auipc, Set, Registers
  <1>3. Untouched(ebss(layout))
    <2>1. CASE at = "copy_data_done"
      <3>1. Untouched(edata(layout))
        BY <2>1 DEF StartInv, Copying
      <3>2. ebss(layout) .. ram_end - 1 \subseteq edata(layout) .. ram_end - 1
        BY <1>ord DEF Ordered
      <3> QED
        BY <3>1, <3>2 DEF Untouched
    <2>2. CASE at = "auipc a1, _ebss"
      BY <2>2 DEF StartInv, Zeroing, DoneLabels
    <2> QED
      BY <1>0, <2>1, <2>2
  <1>4. GpSet' /\ SpSet' /\ Copied(edata(layout))' /\ Untouched(ebss(layout))'
    BY <1>1, <1>2, <1>3 DEF GpSet, SpSet, Copied, Untouched
  <1>5. \/ at' = "la a0, _sbss"
        \/ at' = "la a1, _ebss" /\ reg'["a0"] = sbss(layout')
    <2>1. CASE Auipc("copy_data_done", "a0", "la a0, _sbss")
      BY <2>1 DEF Auipc, Set
    <2>2. CASE Auipc("auipc a1, _ebss", "a1", "la a1, _ebss")
      <3>1. reg["a0"] = sbss(layout)
        BY <2>2 DEF Auipc, Set, StartInv, Zeroing
      <3> QED
        BY <2>2, <3>1, <1>1, <1>2 DEF Auipc, Set, Registers
    <2> QED
      BY <2>1, <2>2 DEF ZeroFirsts
  <1>6. Early'
    BY <1>4, <1>5 DEF Early, SetLabels, LateLabels, CopyLabels, ZeroLabels, DoneLabels
  <1>7. Copying' /\ Zeroing'
    BY <1>4, <1>5 DEF Copying, Zeroing, CopyLabels, ZeroLabels, DoneLabels
  <1> QED
    BY <1>1, <1>2, <1>6, <1>7 DEF StartInv

\* Setting up the clearing of .bss, which starts where .data ends.
LEMMA ZeroSetNext ==
    ASSUME StartInv, ZeroSets
    PROVE  StartInv'
  <1>0. at \in {"la a0, _sbss", "la a1, _ebss"}
    BY DEF ZeroSets, Set
  <1>1. /\ layout \in Layouts /\ reg \in [Registers -> Word]
        /\ GpSet /\ SpSet /\ Copied(edata(layout)) /\ Untouched(ebss(layout))
    BY <1>0 DEF StartInv, Early, Zeroing, LateLabels, DoneLabels
  <1>ord. Ordered
    BY <1>1, InOrder
  <1>2. sbss(layout) \in Word /\ ebss(layout) \in Word
    <2>1. /\ sbss(layout) \in Nat /\ sbss(layout) <= ram_end
          /\ ebss(layout) \in Nat /\ ebss(layout) <= ram_end
      BY <1>ord DEF Ordered
    <2> QED
      BY <1>1, <2>1, NoWrap
  <1>3. /\ layout' = layout /\ ram' = ram /\ before' = before
        /\ reg' \in [Registers -> Word]
        /\ reg'["gp"] = reg["gp"] /\ reg'["sp"] = reg["sp"]
    BY <1>1, <1>2 DEF ZeroSets, Set, Registers
  <1>4. GpSet' /\ SpSet' /\ Copied(edata(layout))'
    BY <1>1, <1>3 DEF GpSet, SpSet, Copied
  <1>6. Untouched(ebss(layout))'
    BY <1>1, <1>3 DEF Untouched
  <1>7. CASE at = "la a0, _sbss"
    <2>1. at' = "auipc a1, _ebss" /\ reg'["a0"] = sbss(layout')
      BY <1>1, <1>3, <1>7 DEF ZeroSets, Set, Registers
    <2>2. Early'
      BY <1>4, <2>1 DEF Early, SetLabels, LateLabels, CopyLabels, ZeroLabels, DoneLabels
    <2>3. Copying' /\ Zeroing'
      BY <1>4, <1>6, <2>1 DEF Copying, Zeroing, CopyLabels, ZeroLabels, DoneLabels
    <2> QED
      BY <1>1, <1>3, <2>2, <2>3 DEF StartInv
  <1>8. CASE at = "la a1, _ebss"
    <2>0. reg["a0"] = sbss(layout)
      BY <1>8 DEF StartInv, Zeroing
    <2>1. at' = "zero_bss_loop" /\ reg'["a0"] = sbss(layout) /\ reg'["a1"] = ebss(layout)
      BY <1>1, <1>3, <1>8, <2>0 DEF ZeroSets, Set, Registers
    <2>2. Clears(0)'
      <3>1. sbss(layout) \in sbss(layout) .. ebss(layout)
        BY <1>ord DEF Ordered
      <3>2. sbss(layout) % 4 = 0
        BY <1>1, Sections
      <3>3. sbss(layout) .. sbss(layout) + 0 - 1 = {}
        BY <1>ord DEF Ordered
      <3> QED
        BY <1>3, <2>1, <3>1, <3>2, <3>3 DEF Clears, Cleared
    <2>3. Early'
      BY <1>4, <2>1 DEF Early, SetLabels, LateLabels, CopyLabels, ZeroLabels, DoneLabels
    <2>4. Copying' /\ Zeroing'
      BY <1>4, <1>6, <2>1, <2>2 DEF Copying, Zeroing, CopyLabels, ZeroLabels, DoneLabels
    <2> QED
      BY <1>1, <1>3, <2>3, <2>4 DEF StartInv
  <1> QED
    BY <1>0, <1>7, <1>8

\* The state of the clearing loop, before each of its instructions.
LEMMA InZeroLoop ==
    ASSUME StartInv, at \in ZeroLabels
    PROVE  /\ layout \in Layouts /\ reg \in [Registers -> Word]
           /\ GpSet /\ SpSet /\ Copied(edata(layout)) /\ Untouched(ebss(layout))
           /\ reg["a1"] = ebss(layout)
           /\ reg["a0"] \in sbss(layout) .. ebss(layout) /\ reg["a0"] % 4 = 0
  BY DEF StartInv, ZeroLabels, LateLabels, DoneLabels, Early, Zeroing, Clears

\* The test at the head of the clearing loop.
LEMMA ZeroTestNext ==
    ASSUME StartInv, ZeroTest
    PROVE  StartInv'
  <1>0. at = "zero_bss_loop" /\ at \in ZeroLabels
    BY DEF ZeroTest, Bge, ZeroLabels
  <1>1. /\ layout \in Layouts /\ reg \in [Registers -> Word]
        /\ GpSet /\ SpSet /\ Copied(edata(layout)) /\ Untouched(ebss(layout))
        /\ reg["a1"] = ebss(layout)
        /\ reg["a0"] \in sbss(layout) .. ebss(layout)
    BY <1>0, InZeroLoop
  <1>ord. Ordered
    BY <1>1, InOrder
  <1>2. Clears(0)
    BY <1>0 DEF StartInv, Zeroing
  <1>3. layout' = layout /\ ram' = ram /\ before' = before /\ reg' = reg
    BY DEF ZeroTest, Bge
  <1>4. Signed(reg["a0"]) = reg["a0"] /\ Signed(reg["a1"]) = reg["a1"]
    <2>1. /\ reg["a0"] \in Nat /\ reg["a0"] <= ram_end
          /\ reg["a1"] \in Nat /\ reg["a1"] <= ram_end
      BY <1>1, <1>ord DEF Ordered
    <2> QED
      BY <1>1, <2>1, NoWrap
  <1>5. \/ at' = "call main" /\ reg["a0"] = ebss(layout)
        \/ at' = "sw zero" /\ reg["a0"] < ebss(layout)
    <2>1. /\ reg["a0"] \in Int /\ ebss(layout) \in Int
          /\ reg["a0"] <= ebss(layout)
      BY <1>1, <1>ord DEF Ordered
    <2>2. at' = IF reg["a0"] >= ebss(layout) THEN "call main" ELSE "sw zero"
      BY <1>1, <1>4 DEF ZeroTest, Bge
    <2>3. CASE reg["a0"] >= ebss(layout)
      <3>1. reg["a0"] = ebss(layout)
        BY <2>1, <2>3
      <3>2. at' = "call main"
        BY <2>2, <2>3
      <3> QED
        BY <3>1, <3>2
    <2>4. CASE ~ (reg["a0"] >= ebss(layout))
      <3>1. reg["a0"] < ebss(layout)
        BY <2>1, <2>4
      <3>2. at' = "sw zero"
        BY <2>2, <2>4
      <3> QED
        BY <3>1, <3>2
    <2> QED
      BY <2>3, <2>4
  <1>6. GpSet' /\ SpSet' /\ Copied(edata(layout))' /\ Untouched(ebss(layout))'
    BY <1>1, <1>3 DEF GpSet, SpSet, Copied, Untouched
  <1>7. Clears(0)'
    BY <1>2, <1>3 DEF Clears, Cleared
  <1>8. reg["a0"] = ebss(layout) => Cleared(ebss(layout))'
    <2>1. ebss(layout) + 0 = ebss(layout)
      BY <1>ord DEF Ordered
    <2> QED
      BY <1>2, <1>3, <2>1 DEF Clears, Cleared
  <1>9. reg["a0"] < ebss(layout) => (reg["a0"] < ebss(layout))'
    BY <1>3
  <1>10. Early'
    BY <1>5, <1>6 DEF Early, SetLabels, LateLabels, CopyLabels, ZeroLabels, DoneLabels
  <1>11. Copying' /\ Zeroing'
    BY <1>5, <1>6, <1>7, <1>8, <1>9 DEF Copying, Zeroing, CopyLabels, ZeroLabels, DoneLabels
  <1> QED
    BY <1>1, <1>3, <1>10, <1>11 DEF StartInv

\* The store clears a word of .bss: .data lies below it, the rest behind it.
LEMMA ZeroStoreNext ==
    ASSUME StartInv, ZeroStore
    PROVE  StartInv'
  <1>0. at = "sw zero" /\ at' = "addi a0 (bss)" /\ at \in ZeroLabels
    BY DEF ZeroStore, Sw, ZeroLabels
  <1>1. /\ layout \in Layouts /\ reg \in [Registers -> Word]
        /\ GpSet /\ SpSet /\ Copied(edata(layout)) /\ Untouched(ebss(layout))
        /\ reg["a0"] \in sbss(layout) .. ebss(layout) /\ reg["a0"] % 4 = 0
    BY <1>0, InZeroLoop
  <1>ord. Ordered
    BY <1>1, InOrder
  <1>2. Clears(0) /\ reg["a0"] < ebss(layout)
    BY <1>0 DEF StartInv, Zeroing
  <1>3. layout' = layout /\ before' = before /\ reg' = reg
    BY DEF ZeroStore, Sw
  <1>4. reg["a0"] + 4 <= ebss(layout) /\ reg["a0"] \in Int
    <2>1. reg["a0"] \in Nat /\ ebss(layout) \in Nat
      BY <1>1, <1>ord DEF Ordered
    <2>2. ebss(layout) % 4 = 0
      BY <1>1, Sections
    <2> QED
      BY <1>1, <1>2, <2>1, <2>2, WordFits
  <1>5. \A a \in RAM_START .. ram_end - 1 :
            ram'[a - RAM_START] = IF a - reg["a0"] \in 0 .. 3 THEN 0 ELSE ram[a - RAM_START]
    <2>1. ram' = [c \in Cells |-> LET k == RAM_START + c - reg["a0"]
                                  IN  IF k \in 0 .. 3 THEN Zero[k] ELSE ram[c]]
      BY DEF ZeroStore, Sw
    <2>2. \A a \in RAM_START .. ram_end - 1 :
              ram'[a - RAM_START] = IF a - reg["a0"] \in 0 .. 3 THEN Zero[a - reg["a0"]]
                                    ELSE ram[a - RAM_START]
      BY <1>4, <1>ord, <2>1, Stored
    <2> QED
      BY <2>2 DEF Zero
  <1>6. \A a \in sbss(layout) .. reg["a0"] + 4 - 1 : ram'[a - RAM_START] = 0
    <2> SUFFICES ASSUME NEW a \in sbss(layout) .. reg["a0"] + 4 - 1
                 PROVE  ram'[a - RAM_START] = 0
      OBVIOUS
    <2>1. a \in RAM_START .. ram_end - 1 /\ a \in Int /\ a <= reg["a0"] + 3
      <3>1. sbss(layout) = edata(layout) /\ edata(layout) \in Int
        BY <1>ord DEF Ordered
      <3>2. a \in Int /\ edata(layout) <= a /\ a <= reg["a0"] + 3
        BY <1>4, <3>1
      <3> QED
        BY <1>4, <3>2, <1>ord DEF Ordered
    <2>2. CASE a < reg["a0"]
      <3>1. a \in sbss(layout) .. reg["a0"] + 0 - 1 /\ ~ (a - reg["a0"] \in 0 .. 3)
        BY <1>4, <1>ord, <2>1, <2>2 DEF Ordered
      <3>2. ram[a - RAM_START] = 0
        BY <1>2, <3>1 DEF Clears, Cleared
      <3> QED
        BY <1>5, <2>1, <3>1, <3>2
    <2>3. CASE a >= reg["a0"]
      <3>1. a - reg["a0"] \in 0 .. 3
        BY <1>4, <2>1, <2>3
      <3> QED
        BY <1>5, <2>1, <3>1
    <2> QED
      BY <1>4, <2>1, <2>2, <2>3
  <1>7. \A a \in ebss(layout) .. ram_end - 1 : ram'[a - RAM_START] = before[a - RAM_START]
    <2> SUFFICES ASSUME NEW a \in ebss(layout) .. ram_end - 1
                 PROVE  ram'[a - RAM_START] = before[a - RAM_START]
      OBVIOUS
    <2>1. a \in RAM_START .. ram_end - 1 /\ ~ (a - reg["a0"] \in 0 .. 3)
      BY <1>4, <1>ord DEF Ordered
    <2>2. ram[a - RAM_START] = before[a - RAM_START]
      BY <1>1 DEF Untouched
    <2> QED
      BY <1>5, <2>1, <2>2
  <1>8. \A a \in sdata(layout) .. edata(layout) - 1 :
            ram'[a - RAM_START] = Image(layout)[sidata(layout) + a - sdata(layout)]
    <2> SUFFICES ASSUME NEW a \in sdata(layout) .. edata(layout) - 1
                 PROVE  ram'[a - RAM_START] = Image(layout)[sidata(layout) + a - sdata(layout)]
      OBVIOUS
    <2>1. a \in RAM_START .. ram_end - 1 /\ ~ (a - reg["a0"] \in 0 .. 3)
      <3>1. edata(layout) <= reg["a0"]
        BY <1>1, <1>4, <1>ord DEF Ordered
      <3> QED
        BY <1>4, <3>1, <1>ord DEF Ordered
    <2>2. ram[a - RAM_START] = Image(layout)[sidata(layout) + a - sdata(layout)]
      BY <1>1 DEF Copied
    <2> QED
      BY <1>5, <2>1, <2>2
  <1>9. Clears(4)'
    BY <1>2, <1>3, <1>6 DEF Clears, Cleared
  <1>10. /\ GpSet' /\ SpSet' /\ Copied(edata(layout))' /\ Untouched(ebss(layout))'
         /\ (reg["a0"] < ebss(layout))'
    BY <1>1, <1>2, <1>3, <1>7, <1>8 DEF GpSet, SpSet, Copied, Untouched
  <1>11. Early'
    BY <1>0, <1>10 DEF Early, SetLabels, LateLabels, CopyLabels, ZeroLabels, DoneLabels
  <1>12. Copying' /\ Zeroing'
    BY <1>0, <1>9, <1>10 DEF Copying, Zeroing, CopyLabels, ZeroLabels, DoneLabels
  <1> QED
    BY <1>1, <1>3, <1>11, <1>12 DEF StartInv

\* The pointer moves on to the next word.
LEMMA ZeroStepsNext ==
    ASSUME StartInv, ZeroSteps
    PROVE  StartInv'
  <1>0. at \in {"addi a0 (bss)", "j zero_bss_loop"} /\ at \in ZeroLabels
    BY DEF ZeroSteps, Set, Jump, ZeroLabels
  <1>1. /\ layout \in Layouts /\ reg \in [Registers -> Word]
        /\ GpSet /\ SpSet /\ Copied(edata(layout)) /\ Untouched(ebss(layout))
        /\ reg["a1"] = ebss(layout)
        /\ reg["a0"] \in sbss(layout) .. ebss(layout) /\ reg["a0"] % 4 = 0
    BY <1>0, InZeroLoop
  <1>ord. Ordered
    BY <1>1, InOrder
  <1>2. layout' = layout /\ before' = before /\ ram' = ram
    BY DEF ZeroSteps, Set, Jump
  <1>3. Copied(edata(layout))' /\ Untouched(ebss(layout))'
    BY <1>1, <1>2 DEF Copied, Untouched
  <1>4. reg["a0"] \in Nat /\ ebss(layout) \in Nat
    BY <1>1, <1>ord DEF Ordered
  <1>5. CASE at = "addi a0 (bss)"
    <2>1. Clears(4) /\ reg["a0"] < ebss(layout)
      BY <1>5 DEF StartInv, Zeroing
    <2>2. reg["a0"] + 4 <= ebss(layout) /\ (reg["a0"] + 4) % 4 = 0
      <3>1. ebss(layout) % 4 = 0
        BY <1>1, Sections
      <3> QED
        BY <1>1, <1>4, <2>1, <3>1, WordFits
    <2>3. /\ reg["a0"] + 4 \in Nat /\ reg["a0"] + 4 <= ram_end
          /\ reg["a0"] + 4 \in sbss(layout) .. ebss(layout)
          /\ reg["a0"] + 4 + 0 = reg["a0"] + 4
      <3>1. sbss(layout) \in Nat /\ sbss(layout) <= reg["a0"]
        BY <1>1, <1>4, <1>ord DEF Ordered
      <3>2. reg["a0"] + 4 <= ebss(layout)
        BY <2>2
      <3>3. ebss(layout) <= ram_end /\ ram_end \in Nat
        BY <1>ord DEF Ordered
      <3> QED
        BY <1>4, <3>1, <3>2, <3>3
    <2>4. Wrap(reg["a0"] + 4) = reg["a0"] + 4 /\ reg["a0"] + 4 \in Word
      BY <1>1, <2>3, NoWrap
    <2>5. at' = "j zero_bss_loop" /\ reg' = [reg EXCEPT !["a0"] = reg["a0"] + 4]
      BY <1>5, <2>4 DEF ZeroSteps, Set, Jump
    <2>6. /\ reg' \in [Registers -> Word]
          /\ reg'["a0"] = reg["a0"] + 4 /\ reg'["a1"] = reg["a1"]
          /\ reg'["gp"] = reg["gp"] /\ reg'["sp"] = reg["sp"]
      BY <1>1, <2>4, <2>5 DEF Registers
    <2>7. Cleared(reg["a0"] + 4)
      BY <2>1 DEF Clears
    <2>8. Clears(0)'
      BY <1>1, <1>2, <2>2, <2>3, <2>6, <2>7 DEF Clears, Cleared
    <2>9. GpSet' /\ SpSet'
      BY <1>1, <1>2, <2>6 DEF GpSet, SpSet
    <2>10. Early'
      BY <2>5, <2>9 DEF Early, SetLabels, LateLabels, CopyLabels, ZeroLabels, DoneLabels
    <2>11. Copying' /\ Zeroing'
      BY <1>3, <2>5, <2>8 DEF Copying, Zeroing, CopyLabels, ZeroLabels, DoneLabels
    <2> QED
      BY <1>1, <1>2, <2>6, <2>10, <2>11 DEF StartInv
  <1>6. CASE at = "j zero_bss_loop"
    <2>1. Clears(0)
      BY <1>6 DEF StartInv, Zeroing
    <2>2. at' = "zero_bss_loop" /\ reg' = reg
      BY <1>6 DEF ZeroSteps, Set, Jump
    <2>3. Clears(0)' /\ GpSet' /\ SpSet'
      BY <1>1, <1>2, <2>1, <2>2 DEF Clears, Cleared, GpSet, SpSet
    <2>4. Early'
      BY <2>2, <2>3 DEF Early, SetLabels, LateLabels, CopyLabels, ZeroLabels, DoneLabels
    <2>5. Copying' /\ Zeroing'
      BY <1>3, <2>2, <2>3 DEF Copying, Zeroing, CopyLabels, ZeroLabels, DoneLabels
    <2> QED
      BY <1>1, <1>2, <2>2, <2>4, <2>5 DEF StartInv
  <1> QED
    BY <1>0, <1>5, <1>6

\* Around main nothing is promised, until the program is started over.
LEMMA RestNext ==
    ASSUME StartInv, CallAndExit \/ Main
    PROVE  StartInv'
  <1>0. layout \in Layouts /\ reg \in [Registers -> Word] /\ layout' = layout
    BY DEF StartInv, CallAndExit, Main, Jump, Set
  <1>1. E_EXIT \in Word
    BY RegModPositive DEF E_EXIT, Word
  <1>2. reg' \in [Registers -> Word]
    <2>1. CASE CallAndExit
      BY <1>0, <1>1, <2>1 DEF CallAndExit, Jump, Set, Registers
    <2>2. CASE Main
      BY <2>2 DEF Main
    <2> QED
      BY <2>1, <2>2
  <1>3. \/ at' \in {"main", "li a0, 10", "ecall", "exited", "halt"}
        \/ at' = "_start" /\ before' = ram'
    BY DEF CallAndExit, Main, Jump, Set
  <1>4. at' = "_start" => Untouched(sdata(layout))'
    BY <1>3 DEF Untouched
  <1>5. Early'
    BY <1>3, <1>4 DEF Early, SetLabels, LateLabels, CopyLabels, ZeroLabels, DoneLabels
  <1>6. Copying' /\ Zeroing'
    BY <1>3 DEF Copying, Zeroing, CopyLabels, ZeroLabels, DoneLabels
  <1> QED
    BY <1>0, <1>2, <1>5, <1>6 DEF StartInv

\* Every instruction keeps the invariant.
LEMMA StartNext == StartInv /\ [Next]_vars => StartInv'
  <1> SUFFICES ASSUME StartInv, [Next]_vars PROVE StartInv'
    OBVIOUS
  <1>1. CASE Pointers
    BY <1>1, PointersNext
  <1>2. CASE CopyData
    <2>1. CopyFirsts \/ CopySets \/ CopyTest \/ CopyLoad \/ CopyStore \/ CopySteps
      BY <1>2 DEF CopyData, CopyFirsts, CopySets, CopyTest, CopyLoad, CopyStore, CopySteps
    <2> QED
      BY <2>1, CopyFirstNext, CopySetNext, CopyTestNext, CopyLoadNext, CopyStoreNext, CopyStepsNext
  <1>3. CASE ZeroBss
    <2>1. ZeroFirsts \/ ZeroSets \/ ZeroTest \/ ZeroStore \/ ZeroSteps
      BY <1>3 DEF ZeroBss, ZeroFirsts, ZeroSets, ZeroTest, ZeroStore, ZeroSteps
    <2> QED
      BY <2>1, ZeroFirstNext, ZeroSetNext, ZeroTestNext, ZeroStoreNext, ZeroStepsNext
  <1>4. CASE CallAndExit \/ Main
    BY <1>4, RestNext
  <1>5. CASE UNCHANGED vars
    <2>1. /\ layout' = layout /\ at' = at /\ reg' = reg /\ t0' = t0 /\ ram' = ram
          /\ before' = before
      BY <1>5 DEF vars
    <2>2. Early'
      BY <2>1 DEF StartInv, Early, Untouched, GpSet, SpSet
    <2>3. Copying'
      BY <2>1 DEF StartInv, Copying, Copies, Copied, Untouched
    <2>4. Zeroing'
      BY <2>1 DEF StartInv, Zeroing, Clears, Copied, Cleared, Untouched
    <2> QED
      BY <2>1, <2>2, <2>3, <2>4 DEF StartInv
  <1> QED
    BY <1>1, <1>2, <1>3, <1>4, <1>5 DEF Next

\* The load and the stores of both loops stay inside the copy of .data in the ROM and
\* inside the RAM, to the last byte of the word.
Inside ==
    /\ at = "lw t0" => reg["a0"] \in 0 .. ROM_SIZE - 4
    /\ at = "sw t0" => reg["a1"] \in RAM_START .. ram_end - 4
    /\ at = "sw zero" => reg["a0"] \in RAM_START .. ram_end - 4

LEMMA StartInside == StartInv => Inside
  <1> SUFFICES ASSUME StartInv PROVE Inside
    OBVIOUS
  <1>1. Ordered /\ layout \in Layouts
    BY InOrder DEF StartInv
  <1>2. edata(layout) % 4 = 0 /\ ebss(layout) % 4 = 0
    BY <1>1, Sections
  <1>3. CASE at \in {"lw t0", "sw t0"}
    <2>1. Copies(0, 0) /\ reg["a1"] < edata(layout)
      BY <1>3 DEF StartInv, Copying
    <2>2. reg["a1"] \in Nat /\ reg["a1"] >= RAM_START /\ reg["a1"] % 4 = 0
          /\ reg["a0"] = sidata(layout) + reg["a1"] - RAM_START
      BY <1>1, <2>1 DEF Copies, Ordered
    <2>3. reg["a1"] + 4 <= edata(layout)
      BY <1>1, <1>2, <2>1, <2>2, WordFits DEF Ordered
    <2>4. reg["a0"] \in 0 .. ROM_SIZE - 4
      BY <1>1, <2>2, <2>3 DEF Ordered
    <2>5. reg["a1"] \in RAM_START .. ram_end - 4
      BY <1>1, <2>2, <2>3 DEF Ordered
    <2> QED BY <1>3, <2>4, <2>5 DEF Inside
  <1>4. CASE at = "sw zero"
    <2>1. Clears(0) /\ reg["a0"] < ebss(layout)
      BY <1>4 DEF StartInv, Zeroing, ZeroLabels
    <2>0. reg["a0"] \in sbss(layout) .. ebss(layout) /\ reg["a0"] % 4 = 0
      BY <2>1 DEF Clears
    <2>2. reg["a0"] \in Nat /\ reg["a0"] >= RAM_START /\ reg["a0"] % 4 = 0
      BY <1>1, <2>0 DEF Ordered
    <2>3. reg["a0"] + 4 <= ebss(layout)
      BY <1>1, <1>2, <2>1, <2>2, WordFits DEF Ordered
    <2>4. reg["a0"] \in RAM_START .. ram_end - 4
      BY <1>1, <2>2, <2>3 DEF Ordered
    <2> QED BY <1>4, <2>4 DEF Inside
  <1> QED BY <1>3, <1>4 DEF Inside

\* crt0.S prepares the memory of every program that the linker accepts, for every
\* size of its sections and of the regions, whatever the RAM held before and
\* however often the program starts over.
THEOREM StartUpReady == Spec => []MemoryReady
  <1>1. StartInv => MemoryReady
    <2> SUFFICES ASSUME StartInv, at = "call main" PROVE MemoryReady
      BY DEF MemoryReady
    <2>1. GpSet /\ SpSet /\ Copied(edata(layout)) /\ Cleared(ebss(layout)) /\ Untouched(ebss(layout))
      BY DEF StartInv, Early, Zeroing, LateLabels, DoneLabels
    <2> QED
      BY <2>1 DEF MemoryReady, GpSet, SpSet, Copied, Cleared, Untouched
  <1> QED
    BY <1>1, StartInit, StartNext, PTL DEF Spec

=============================================================================
