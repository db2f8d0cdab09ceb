----------------------------------- MODULE Bus -----------------------------------
(***************************************************************************)
(* The memory of the machine and its bus: bus_read and bus_write           *)
(* (inc/bus.h) with the accessors they call, rom_read, ram_read and        *)
(* ram_write (inc/cpu.h).  The two arrays cpu.rom and cpu.ram are the      *)
(* functions rom and ram, passed as arguments; the stall an access adds to *)
(* mcycle is an operator of its own, because the caller owns the counter.  *)
(***************************************************************************)
EXTENDS Arch

RomCells == 0 .. ROM_SIZE - 1
RamCells == 0 .. RAM_SIZE - 1

\* The width of an access is its funct3 field (inc/riscv.h).
MEM_B  == 0
MEM_H  == 1
MEM_W  == 2
MEM_D  == 3
MEM_BU == 4
MEM_HU == 5
MEM_WU == 6

\* The cases of the switches; any other width falls to the empty default.
LoadOps  == {MEM_B, MEM_H, MEM_W, MEM_BU, MEM_HU}
              \cup (IF RV64 THEN {MEM_WU, MEM_D} ELSE {})
StoreOps == {MEM_B, MEM_H, MEM_W} \cup (IF RV64 THEN {MEM_D} ELSE {})

\* Mutant: the double word, added for RV64, is forgotten and reaches like a byte.
ReachNoDword(op) == IF op \in {MEM_H, MEM_HU} THEN 1
                    ELSE IF op = MEM_W \/ (RV64 /\ op = MEM_WU) THEN 3
                    ELSE 0

\* The local `range`: the distance from the first to the last byte accessed.
Reach(op) == IF op \in {MEM_H, MEM_HU} THEN 1
             ELSE IF op = MEM_W \/ (RV64 /\ op = MEM_WU) THEN 3
             ELSE IF RV64 /\ op = MEM_D THEN 7
             ELSE 0

\* Mutant: only the first byte of an access is checked against the end of the RAM.
InRamFirstByte(addr, op) == addr >= RAM_START /\ addr < RAM_START + RAM_SIZE

\* Which array an access at addr goes to.
InRam(addr, op) == /\ addr >= RAM_START
                   /\ addr < RAM_START + RAM_SIZE - Reach(op)
InRom(addr, op) == /\ ~ InRam(addr, op)
                   /\ addr < ROM_SIZE - Reach(op)

-----------------------------------------------------------------------------
\* Little-endian numbers at index p of an array.
HalfAt(mem, p)  == mem[p + 1] * ByteMod + mem[p]
WordAt(mem, p)  == HalfAt(mem, p + 2) * HalfMod + HalfAt(mem, p)
DwordAt(mem, p) == WordAt(mem, p + 4) * WordMod + WordAt(mem, p)

\* What rom_read and ram_read store in *val.
Loaded(mem, p, op) ==
    CASE op = MEM_B  -> SignExtend(mem[p], ByteMod)
      [] op = MEM_BU -> mem[p]
      [] op = MEM_H  -> SignExtend(HalfAt(mem, p), HalfMod)
      [] op = MEM_HU -> HalfAt(mem, p)
      [] op = MEM_W  -> SignExtend(WordAt(mem, p), WordMod)
      [] op = MEM_WU -> WordAt(mem, p)
      [] op = MEM_D  -> DwordAt(mem, p)

\* Mutant: an unmapped address reads as zero.
bus_readZero(rom, ram, addr, op, val) ==
    IF op \notin LoadOps THEN val
    ELSE IF InRam(addr, op) THEN Loaded(ram, addr - RAM_START, op)
    ELSE IF InRom(addr, op) THEN Loaded(rom, addr, op)
    ELSE 0

\* *val after bus_read; an unmapped address and an unknown width leave it alone.
bus_read(rom, ram, addr, op, val) ==
    IF op \notin LoadOps THEN val
    ELSE IF InRam(addr, op) THEN Loaded(ram, addr - RAM_START, op)
    ELSE IF InRom(addr, op) THEN Loaded(rom, addr, op)
    ELSE val

\* val >> 8 * k, as a divisor.
Scale(k) == CASE k = 0 -> 1
              [] k = 1 -> ByteMod
              [] k = 2 -> HalfMod
              [] k = 3 -> HalfMod * ByteMod
              [] k = 4 -> WordMod
              [] k = 5 -> WordMod * ByteMod
              [] k = 6 -> WordMod * HalfMod
              [] k = 7 -> WordMod * HalfMod * ByteMod

\* cpu.ram after bus_write: writes to the ROM and to unmapped addresses are ignored.
bus_write(ram, addr, op, val) ==
    LET p == addr - RAM_START
        written == IF op \in StoreOps /\ InRam(addr, op)
                   THEN p .. p + Reach(op) ELSE {}
    IN  [c \in RamCells |->
            IF c \in written THEN (val \div Scale(c - p)) % ByteMod ELSE ram[c]]

-----------------------------------------------------------------------------
\* PERF_MODEL_MEMORY(size, addr): one cycle for an unaligned access.
PERF_MODEL_MEMORY(size, addr) == IF addr % size # 0 THEN 1 ELSE 0

\* The cycles that bus_read and bus_write add to mcycle.
ReadStall(addr, op) ==
    IF op \in LoadOps /\ (InRam(addr, op) \/ InRom(addr, op))
    THEN PERF_MODEL_MEMORY(Reach(op) + 1, addr) ELSE 0
WriteStall(addr, op) ==
    IF op \in StoreOps /\ InRam(addr, op)
    THEN PERF_MODEL_MEMORY(Reach(op) + 1, addr) ELSE 0

\* The last element, from the first, that a case of the accessors dereferences.
LastByte(op) == IF op = MEM_D THEN 7
                ELSE IF op \in {MEM_W, MEM_WU} THEN 3
                ELSE IF op \in {MEM_H, MEM_HU} THEN 1
                ELSE 0

\* The elements of cpu.ram and cpu.rom, by index, that an access of one of the
\* widths `ops` dereferences once the bus has let it through.
RamTouched(addr, op, ops) ==
    IF op \in ops /\ InRam(addr, op)
    THEN {addr - RAM_START + k : k \in 0 .. LastByte(op)} ELSE {}
RomTouched(addr, op, ops) ==
    IF op \in ops /\ InRom(addr, op)
    THEN {addr + k : k \in 0 .. LastByte(op)} ELSE {}

=============================================================================
