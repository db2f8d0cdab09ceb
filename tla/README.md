# A TLA+ model of rvem

rvem is a small emulator of a RISC-V hart (RV32I or RV64I, with or without the
M extension) with a simple timing model, and a C runtime for the programs it
runs. This directory holds TLA+ modules that model the emulator, TLC
configurations that check them on small instances, and TLAPS proofs.

## The system

The emulator is one sequential C program; it has no threads, callbacks or
persistent state. What makes it hard is that several pieces of state advance
together in one step (registers, memory, program counter, cycle counter,
pipeline history), that every guest program is a legal input, and that most of
the code is boundary arithmetic.

| Component | State | Operations | Correct when |
|---|---|---|---|
| `src/main.c` | phase of `main`, `instr_loop` | argument check, ROM image, fetch loop, report | every guest ends the loop; the report says what happened |
| `src/cpu/core.c`, `inc/riscv.h` | `regfile`, `pc` | `process_instr`: one case per opcode | it implements the instruction set; x0 is zero; operands are read before results are written |
| `inc/bus.h`, `inc/cpu.h` | `rom`, `ram` | `bus_read`, `bus_write`, `rom_read`, `ram_read`, `ram_write` | no access leaves the host arrays; unmapped accesses have no effect; little-endian, sign-extended values |
| `inc/perf.h` | `perf_model` | the macros that charge stalls and shift the history | each stall answers a dependency; cost per instruction is bounded |
| `inc/csr.h`, `src/cpu/csr.c` | `mcycle`, `minstret` | `read_csr`, the empty `write_csr` | the counters stay in step with each other and with the limit |
| `inc/mul.h`, `inc/common.h` | none | division, high products, arithmetic shifts | they equal the mathematical definition for every operand |
| `sdk/bsp/link.ld`, `sdk/bsp/crt0.S` | guest memory | placing of the sections; copy of `.data`, clearing of `.bss`, exit call | memory is initialised before `main`, nothing else is written |
| `sdk/librv/librv.h`, `printf_librv.c` | guest registers | split counter reads with retry, `putchar_` | no torn value |
| `sdk/librv/printf.c` | output gadget, number buffer | `snprintf` family, integer conversion, format loop | output truncated and terminated inside the buffer, text as the C standard says |

They interact by calls and by the global variables `cpu`, `perf_model`,
`mcycle` and `minstret`: `main` fetches over the bus and calls `process_instr`;
that charges stalls to `mcycle`, and so do the memory accessors underneath the
bus; a CSR instruction reads `mcycle` in the middle of this; and `main`
compares it with the limit. The guest sees the emulator through its memory, its
registers and `ecall`.

## Modules

| Module | Models | Notes |
|---|---|---|
| `Arch` | `inc/arch.h` | widths, sizes, `reg_t`; every constant of the project's emulator part |
| `Bus` | `inc/bus.h`, `inc/cpu.h` | operators on the two arrays; the stall of an access is a separate operator, because the caller owns `mcycle` |
| `Perf` | `inc/perf.h` | one operator per macro, returning the cycles it adds |
| `Isa` | the decoded instruction and the switches over `aluop` | the decoder and the arithmetic unit are constants |
| `Core` | `main` and `process_instr` | the state machine, its properties, and the refinement mapping to `Hart` |
| `Alu` | arithmetic of `core.c`, `inc/mul.h`, `inc/common.h` | pure operators |
| `Hart` | abstract: a hart without a clock | what a guest is promised |
| `Gadget` | `output_gadget_t` and the entry points of `sdk/librv/printf.c` | takes any characters |
| `Output` | abstract: a call of the printf family | what `printf.h` promises of texts up to INT_MAX characters, and what the code leaves of it beyond |
| `Printf` | the format loop and the conversions of `printf.c` | says which characters go to the gadget |
| `CFormat` | the C standard's meaning of a format | the reference for `Printf`; maps to no code |
| `Pipeline` | reference: the five-stage pipeline that `inc/perf.h` charges for | a history variable beside `Core`; maps to no code but the comments and macros of `perf.h` |
| `Decoder` | the `GET_` macros of `inc/riscv.h` and their use in `process_instr` | at full width; a word is the set of its one bits |
| `Link` | `sdk/bsp/link.ld` | section addresses for any section sizes |
| `Crt0` | `sdk/bsp/crt0.S` | one action per instruction, any RAM, any `main` |
| `Librv` | the counter loops of `sdk/librv/librv.h` | one action per instruction, any running counter |
| `Guest` | `crt0.S`, `librv.h` and `putchar_` as machine code on `Core` | the whole system: a linked program in the emulator |
| `Asm` | none | names for instructions, used to write guest programs |
| `MCCore`, `MCPipeline`, `MCAlu`, `MCDecoder`, `MCGuest`, `MCGadget`, `MCPrintf` | instances for TLC | alphabets of instructions; operand pairs; assembled words; builds of a guest program; texts; formats |
| `CoreProofs` (with the refinement of `Hart`), `PipelineProofs`, `AluProofs`, `DecoderProofs`, `Crt0Proofs`, `LibrvProofs`, `GuestProofs`, `PrintfProofs` (with the theorems of `Gadget`) | theorems | checked by TLAPS |

The modules compose by EXTENDS: `Arch` <- `Bus` <- `Isa` <- `Core`, `Perf` <-
`Core`; `Core` <- `Pipeline`; `Arch` <- `Link` <- `Crt0`; `Core`, `Link` and
`Asm` <- `Guest`. `Core` instantiates `Hart`, `MCCore` instantiates `Alu`,
`Guest` instantiates `Crt0` once and `Librv` twice. In the printf library
`Gadget` <- `Printf` <- `CFormat` <- `MCPrintf`; `Gadget` instantiates `Output`.

### How Core corresponds to the code

`rom`, `ram`, `regfile`, `pc` are the fields of `cpu`; `perf_model`, `mcycle`
and `minstret` have the code's names; `phase` is the control point of `main`
(before its loop, in it, or the way it ended); `instr_loop` is `main`'s local;
`out` is what `putchar` received. Each instruction action is one whole
iteration of the loop of `main`: the fetch through `bus_read` with its stall,
the opcode's case of `process_instr`, and its common end (`Commit`: the cycle,
the shift of the pipeline history, the new `pc`, the clearing of x0). `Load`
passes the old value of the target register to `bus_read`, as the code passes a
pointer to it. `Report` is what follows the loop. The text of messages, the
wall-clock time and warnings are left out.

### Pipeline

`inc/perf.h` keeps two instructions of history and adds cycles from it. To say
whether it adds the right ones, `Pipeline` describes the machine it stands for,
as the macros and their comments give it: results are forwarded, a branch or
JALR reads in the second stage ("flush pipeline for ID stage resolution"),
everything else in the third, a result is there after the third stage and a
load's after the fourth. Instead of a history it keeps `pending`: for each
register the cycles that a reader in the second stage would still have to wait.
Every stall, flush and instruction lets all of them run down, so a dependency
over any distance is seen. `Stall` is what the next instruction has to wait,
`Charged` what `Core` adds for it. `CsrLatency` says when the result of a CSR
instruction is ready; the code charges nothing for it, which is right for 0.

### Decoder

`Core` takes the decoder as a parameter; `Decoder` is the program's. A
`uint32_t` is the set of the positions of its one bits, so a mask is an
intersection, `|` a union, and shifts move positions, in the code's order and
with its constants. `ImmI` to `ImmJ` are the instruction formats as tables, from
which the reference (`Scattered`) and the assembler of `MCDecoder` are made.

### Guest programs

`Crt0` and `Librv` describe what the guest's code says by itself: `Crt0` starts
with any registers and RAM, and its `main` may do anything, start the program
over included; in `Librv` the counter may advance by any amount in every
instruction. `Guest` has the same code as words in the ROM that `Core` fetches
and executes, and a `main` that uses it: it writes over its variables, leaves a
mark in the heap and jumps to `_start`, once; then it reads both counters until
their high halves are used, prints `.data` through `putchar_` and returns. That
`Guest` implements `Crt0` and `Librv` (the mapping reads `at` off the `pc`)
shows that the emulator executes this code as written.

Each `la` is the pair the assembler makes of it: an `auipc` with the distance
to the symbol rounded to a page (`Hi`) and an `addi` with the rest (`Lo`), which
reaches the RAM of `link.ld` at 0x20000000 with immediates of 20 and 12 bits.
The linker shortens a `la` only when its symbol is within half a page of `gp` or
of address zero (and never the first, which is `norelax`). A program with a page
of text and a page of data has no such symbol; the shortened `la` of a smaller
one is not modelled. `call` is the `jal` that the linker makes of it, since the
ROM is shorter than the reach of one. The frame of `main` and the registers of
the asm operands are what a compiler would choose. `GP_OFFSET` is the 0x800 of
the script, half a page. `Crt0` has both halves of each `la` as steps, and leaves
open what the first puts into the register.

### How Printf corresponds to the code

A behaviour is one call. `sink`, `size` and the call's format and arguments are
chosen at the start: an array, a null array, a function, or `vfctprintf`
without a function. `vsprintf` is an array of the largest size; the variadic
functions only wrap their v-forms. `stage` is the place in
`format_string_loop`: between specifiers, in one of a specifier's fields, in
`print_integer`, or emitting. `Accepts` and `Following` are its chain of
conditions on `*format` as tables: which characters a field takes, and which
field comes next when it takes none. A step of `parse_flags`, of `atou_` and of
the loop over digits is one action each; `Finalize` is
`print_integer_finalization` with its padding loops in closed form, and leaves
in `todo` what `out_rev_` prints; `Emit` is `putchar_via_gadget`, once per
character. `text` is a history variable. A format that ends in flags or digits
makes the code read behind it; the model stops there (`past_end`). It also
stops when an argument is not of the type `va_arg` names.

`printf_config.h` decides what is compiled: no floating point and no `%n`. It
means to switch MSVC sizes off too and does so by not defining the right name.

### Scaling

A byte has `ByteMod` values: 256 in the program, 4, 5 or 2 in TLC's instances. A
half word is always two bytes, a word four, an RV64 register eight, and there
are always 32 registers, so a register has 256 values in the instances of `MCCore`
and every word can be enumerated. The guest program is longer than such an
address space; its bytes have six values, its registers 1296, and a page has 16
bytes. What scaling changes is only the number of
values of a byte; bounds checks, widths, alignment, wrap-around and sign
extension are the code's. An instruction word then has too few bits for the
real encoding, so `Decode` is a constant: an instance decodes word *k* as the
*k*-th instruction of its alphabet (of its program, in `MCGuest`), and
`Decoder` is checked at its real width on its own. The proofs keep the constants open, so
the real sizes are among what they cover: also in `GuestProofs`, whose text has
the immediates that the real formats hold, at the real addresses.

## Checks

| Run | Instance | Properties |
|---|---|---|
| `core_rv32` | RV32 without M, 16 bytes of ROM, 8 of RAM, limit 20 cycles; all programs of up to three words over a control alphabet of 12 and a memory alphabet of 12, of up to four over six memory instructions, of up to two over the rarest ones, and of three over a load and a privileged fence behind it; some images longer than the ROM | `TypeOK`, `HostAccessInBounds`, `CycleBudget`, `OutcomeExplained`, `HartSpec`, `Terminates`, `StallsSuffice`, `StallsJustified` |
| `core_rv64` | RV64 with M, 16 bytes of ROM, 12 of RAM; programs of up to three words over 15 instructions, of up to four over five of them | `HostAccessInBounds`, `HartSpec`, `StallsSuffice` |
| `alu` | RV64 with registers of 8 bits, all 65536 operand pairs | `ArithmeticShift`, `DivisionIsEuclidean`, `ProductHalves`, `SoftwareProductAgrees`, `WordResults` |
| `decode` | every register in every place, every 12-bit immediate of each format, for the 20-bit ones each bit and run of bits, with their signs; all opcodes | `DecoderInvertsAssembler`, `ImmediatesFromFormat` |
| `guest` | RV32, ten builds with sections empty, aligned and not; bytes of six values, pages of 16 bytes, 296 bytes of ROM, 56 of RAM, limit 2000 cycles | `MemoryReady`, `CountersNotTorn`, `OutputDelivered`, `StartUpSpec`, `CounterLoops`, `GuestExits` |
| `gadget` | an int up to 3 and an unsigned one up to 7, arrays of 0 to 5 elements, three characters, texts of up to ten | `GadgetTypeOK`, `OutputSpec` |
| `printf` | 4-bit char, 6-bit short, 8-bit int and long, 16-bit long long, conversion buffer of 8, largest size 127 (that int's greatest value), an array of 6; about 2000 calls | `FormatTypeOK`, `StandardText`, `NumberKept`, `IntegerBufferBounded`, `OutputSpec`, `CallReturns` |
| `format_end` | formats that end inside a specifier | `FormatInBounds`, violated |
| `wide_binary` | `%b` and `%llb` | `NumberComplete`, violated |
| `nul_character` | `%c` of the character 0 | `NoNulPut`, violated |
| `limit_report` | as `core_rv32`, limit 8 | `LimitMeansNoExit`, violated |
| `csr_branch` | as `core_rv32`, with branches behind additions and behind counter reads, `CsrLatency` 1 | `StallsSuffice`, violated |

* `HostAccessInBounds`: neither the fetch at any `pc` a guest reaches, nor the
  address of the load or store it is about to execute, indexes the host arrays
  outside their bounds.
* `CycleBudget`: every instruction costs one to six cycles, and the hard limit
  is overshot by less than the cost of one.
* `OutcomeExplained`: what each way of ending says of the guest.
* `HartSpec`: the architectural state (memory as one address map, x1 to x31,
  pc, output) behaves as `Hart`, which has no clock, no history and no slot for
  x0. So the order of reads and writes inside an instruction is right, unmapped
  accesses have no effect, nothing happens after the exit, and the timing model
  influences a guest only through the counters it reads and the host's limit.
* `Terminates`: every image ends the loop.
* `StallsSuffice`: whatever came before, the macros charge at least the cycles
  the pipeline waits for an operand. Two instructions of history are enough.
* `StallsJustified`: they charge no others, except up to two for a branch or
  JALR, whose three macros count overlapping hazards separately.
* `DecoderInvertsAssembler`: every field and signed immediate of an assembled
  instruction comes back. `ImmediatesFromFormat`: bit by bit, in any word.
* `MemoryReady`: at `call main`, also after a restart, `.data` has its initial
  values, `.bss` is zero, the rest of the RAM is untouched, `sp` and `gp` are
  set. An unaligned section end does not make the word-wise loops overrun.
* `CountersNotTorn`: a 64-bit counter read in halves is a value that the counter
  had during the read.
* `OutputDelivered`: what `putchar_` was given arrives unchanged, in order.
* `StartUpSpec`, `CounterLoops`: on `Core`, the machine code behaves as `Crt0` and
  `Librv`. `GuestExits`: when `main` returns, the emulator stops and reports.

* `StandardText`: what a call prints is what the C standard says its format and
  arguments stand for, as `CFormat` defines it without buffers, loops or
  reversals, for every format whose numbers fit the conversion buffer; nothing
  of a specifier that the format ends in is printed. One case is left out: the
  code prints the prefix `0b` before a binary zero of explicit precision (`%#.2b`)
  and none before a hexadecimal one.
* `NumberKept`: when precision, padding, prefix and sign compete for the buffer,
  the digits of the number are still all printed, in order.
* `IntegerBufferBounded`: digits, zeros, prefix and sign never overrun the
  buffer of `print_integer`.
* `OutputSpec`: the caller finds in its array, hears in its function and gets as
  result what `Output` says. The array ends as the longest terminated prefix of the
  text, and nothing behind its size is touched. A function hears each character
  once and in order, up to the INT_MAX-th. The result is the length of the text
  as an int: the length itself up to INT_MAX, and negative above, as
  `vsnprintf_impl` converts an `unsigned int`. From 2^32 characters on the cursor
  has come round: the result is any int, a function may hear more, and of the
  array it is promised that it is terminated and that nothing behind it is touched.
* `CallReturns`: every call returns, whatever its format, or reads on behind it.

Why these bounds are enough: a program of three or four instructions already
has loops, jumps into the middle of a word, into stored code and off the end of
memory, load-use and load-branch dependencies, and an exit right at the limit.
The limit of 20 cycles lets a loop run several times, so its pointers walk over
the ends of both arrays. All values of a register occur as addresses.

For `printf`, the conversions are exercised with every combination of the flags
that interact, widths and precisions on both sides of the number's length and
of the buffer's size, the least and greatest values of each type, and pairs of
specifiers whose fields could leak into each other. Types are narrow, but in
the program's proportions: an int has as many bits as the buffer has
characters, a long long twice as many. Texts are shorter than, as long as, and
longer than the array, and one width argument of -128 makes a text that is longer than
the 8-bit int returned can tell. `gadget` has texts on both sides of INT_MAX and
of the range of the unsigned int: with an int of three bits (largest value 3, range
8) texts of up to ten characters.

For `guest`, the symbols lie several pages from the code, at distances whose `Lo` is
negative, zero and positive. The smallest builds have an empty `.data` or `.bss`, others end on a
multiple of 8 or one byte behind one; the largest leaves room for little more
than the frame of `main`. The cycle
limit is above the range of a low half on purpose, so that both counters
overflow it while the loops read them, and in some builds between the reads of
the halves. (With the program's `MAX_CYCLES` of 10^9 a guest of the emulator itself
never sees a high half other than zero. On RV64 `read_csr` returns 0 for the
high halves.) In `core_rv32` three or four instructions reach all distances that
a result can be waited over, which is two, with stalls and flushes in between.

Five runs are findings. `csr_branch`: the case of `OP_SYS` does not set
`is_reg_write`, as all others that write a register do, so a branch behind a
CSR instruction it depends on is charged no stall; the loops of `librv.h` end
in such a branch. The run takes a CSR result to be ready when an addition's is. `format_end`: `parse_flags` and `atou_` move the
pointer without looking for the end of the format, so `"%0"` or `"%5"` at its end
prints the NUL and reads on, against the comment at `printf.c:152`.
`wide_binary`: the loop over digits stops at 32 digits, so `%llb` silently prints
the low half of a large number, against the comment at `printf.c:79`.
`nul_character`: `%c` of 0 passes `'\0'` to `putchar_via_gadget`, which the comment
at `printf.c:386` excludes. In `limit_report`, `main` infers from the counter alone why its loop
ended. When the exit call is the instruction that takes `mcycle` to
`MAX_CYCLES`, it prints "program hit hard cycle limit without exiting." after
"program exited gracefully". The property is that message, read literally.

Beside the runs, `Output` departs from two sentences of `printf.h`, as the code
does. Line 184 promises the number of characters that could have been written, and
line 211 the number for which the function was invoked: for a text longer than
INT_MAX the result is negative, and the function was invoked INT_MAX times. The
guest's memory is far too small for an array of that size, but not for the widths
of a format that a function hears.

`CHECK_DEADLOCK FALSE` is used in all runs but `alu` because the program, the
guest, the assembler and the calls end.

### Fairness

`Spec` of Core assumes weak fairness of `Loop`, one evaluation of the loop of
`main`: a sequential program that the host keeps scheduling. Nothing is assumed
of the step that loads the image. Only `Terminates` depends on it. `PipeSpec` and
`GuestSpec` assume the same of the same `Loop`; of Guest's properties only
`GuestExits` depends on it. `Spec` of
Printf assumes weak fairness of the loop's next step, for the same reason; only
`CallReturns` depends on it. Crt0, Librv, Decoder and Gadget have no fairness.

## Proofs

For all values of the constants that the named assumptions allow:

| Theorem | States |
|---|---|
| `TypeCorrect` | `Spec => []TypeOK` |
| `HostMemorySafe` | `Spec => []HostAccessInBounds` |
| `CyclesBounded` | `Spec => []CycleBudget` |
| `OutcomesExplained` | `Spec => []OutcomeExplained` |
| `HartImplemented` | `Spec => HartSpec` |
| `StallsAreEnough` | `PipeSpec => StallsSuffice` if `CsrLatency = 0` |
| `StallsAreJustified` | `PipeSpec => StallsJustified` |
| `ProductsExact` | `Spec => []ProductHalves` (MCAlu) |
| `SoftwareProductExact` | `Spec => []SoftwareProductAgrees` (MCAlu) if `RV64` |
| `DivisionExact` | `Spec => []DivisionIsEuclidean` (MCAlu) |
| `WordsRight` | `Spec => []WordResults` (MCAlu) |
| `ImmediatesRight` | `Spec => []ImmediatesFromFormat` (MCDecoder) |
| `StartUpReady` | `Spec => []MemoryReady` (Crt0) |
| `ValueNotTorn` | `Spec => []NotTorn` (Librv) |
| `StartsAsWritten` | `GuestSpec => StartUpSpec` |
| `GuestMemoryReady` | `GuestSpec => []MemoryReady` |
| `LoopsAsWritten` | `GuestSpec => CounterLoops` |
| `CountersReadWhole` | `GuestSpec => []CountersNotTorn` |
| `OutputIsDelivered` | `GuestSpec => []OutputDelivered` |
| `GadgetTypeCorrect` | `GadgetSpec => []GadgetTypeOK` |
| `GadgetKeepsPromise` | `GadgetSpec => OutputSpec` |
| `FormatTypeCorrect` | `Spec => []FormatTypeOK` (Printf) |
| `IntegerBufferSafe` | `Spec => []IntegerBufferBounded` |
| `PrintfKeepsPromise` | `Spec => OutputSpec` |

Assumptions. `ArchAssumption`: a byte has at least two values, both regions
hold at least eight bytes, the RAM starts behind the ROM and ends inside the
address space; the real constants satisfy it. `DecodeAssumption` and
`AluAssumption`: the decoder returns instructions and the arithmetic unit
register values. `ImagesAssumption`: images are sequences of bytes. `LinkAssumption`:
the RAM starts at a multiple of 8 and ends in the lower half of the address
space, where the signed `bge` of `crt0.S` orders addresses (strictly below the
middle: a section that ended there would not be copied), and the linker accepts
the programs. `CsrLatencyAssumption` and `RV64Assumption` are types. TLC
evaluates all of them in the runs of their modules.

`GuestAssumption` says what a guest is built for: RV32, as the build of `librv.h`
is; a unit that adds for `addi`; a limit that two registers can count, which
10^9 is; in every layout the text of `Guest` and eight bytes behind `.bss`, the
frame of `main`; an offset of `gp` other than zero; and a file whose words the decoder
reads back as that text, none of them zero. Reading back (`Reads`) is about the
fields that an instruction's format has; what the macros of `inc/riscv.h` put
into the other fields of the record is open. That the real decoder can satisfy
this is what `decode` checks: every field, every 12-bit immediate and the 20-bit
ones of an assembled word come back. The linker does not check for room behind `.bss`: without it the
frame would lie over the variables, which is the program's fault and not the
emulator's. Section sizes, the image behind the text, the size of the memories,
the limit and all of the decoder and the unit that the text does not use are
open.

What the theorems about the guest say, they say of this one program, with any
sections around it; of another `main` nothing is proved but what `StartUpReady`
and `ValueNotTorn` say of every one.

For Printf: `GadgetAssumption` (the largest size is positive, memory is indexed
by natural numbers; int and unsigned int have one bit more than INT_MAX, and two), `PrintfAssumption` (positive sizes, the characters that the
code writes by itself are characters) and `CallsAssumption` (a format is a
sequence of characters). Nothing is assumed of arguments.

The argument for Core. `TypeOK` is inductive by itself. Its heart is that remainders are
below their divisor, that little-endian numbers of *n* bytes are below
`ByteMod`^n (`TwoDigits`, `LittleEndianType`), and that what the bus lets
through is inside an array, so that the bytes read exist (`LoadedType`,
`BusReadType`). Every instruction action is then one `Commit` with at most four
stalls, well-typed registers and a well-typed `pc` (`InstrCommits`), and the
rest follows once for all of them (`CommitType`). `HostMemorySafe` needs no
induction of its own: in a typed state every address is a `Word`, and the
checks of the bus suffice for every `Word`. `CycleBudget` is inductive for
typed states because the guard of the loop is part of every instruction
(`InstrCost`). `OutcomeExplained` needs one strengthening, that `instr_loop`
is true before the loop (`OutcomeInv`).

The argument for the abstract hart. No new invariant is needed: `TypeOK` is
enough, since the mapping is a function of the state. `Hart` has its own copies
of the widths and of the arithmetic, with its constants renamed, so the first
lemmas say that the copies agree (`SameArithmetic`, `SameScale`, `SameOps`). Then
the memories: an access that the bus lets through stays in one region, and
reading or writing its bytes in an array is reading or writing them in the
address map (`SpanInRegion`, `LoadValueIsRead`, `StoreIsStored`); one that it
does not let through changes nothing (`NoStore`, `KeepIsWritten`). The fetch is
such an access (`SameFetch`). x0 is zero in a typed state, so operands agree
(`SameOperands`), and clearing x0 at the end of each instruction undoes any write
to it (`WriteIsWritten`). Each action is then a hart step with the written
value, the target and the store that `Hart` computes (`ComputeStep`, `JumpStep`,
`NoTargetStep`, `EnvironmentStep`, `CsrStep`); a counter that a CSR instruction
reads is any value to `Hart`.

The argument for the pipeline. `pending` is a function of the whole past and
`perf_model` of two instructions, so the invariant (`PendingInv`) says how much
of the first the second knows: nothing is pending for more than two cycles; what
the last instruction loaded is pending for two (`LoadAwaited`); and, when CSR
results are ready at once, whatever is pending at all was written by the last
instruction or loaded by the one before it (`Covered`).
From it, the wait of an instruction is at most what is charged (`WaitIsCharged`),
and the charge at most the wait but for overlapping hazards of a branch
(`ChargeIsWaited`). Without `CsrLatency = 0` the third part fails, which is the
finding of `csr_branch`; `StallsAreJustified` does not need it. The first
attempt at this proof failed on a word of `OP_SYS` with `funct3` 0 and an rs1, as
`sfence.vma` has: the macros charge for that rs1 and the model did not count it
among the sources. `Sources` counts it now, and `core_rv32` has the word.

The argument for the arithmetic unit. Everything rests on division being unique
(`DivUnique`): to know a quotient and a remainder it is enough to exhibit them.
A product of signed operands is at most a quarter of the square of the range
(`SignedProduct`), so its exact quotient fits a register (`SignedHalves`), and
cutting to two halves first does not change it (`HighHalfIs`). In `mulhudw` a
product of digits leaves room for exactly one carry (`DigitProduct`), so none of
its sums wraps, and the digits add up to the product (`PartialProducts`); the
signed forms differ from it by multiples of the range (`SignedHighHalf`). This
needs the word to be half a register: the code has it for RV64 only. Division
goes by magnitudes (`MagnitudeDivision`) and signs (`SignedRemainder`); the
quotient fits in all but the overflowing case (`SignedDivision`). Word results
are congruent modulo the smaller range, which divides the larger
(`WordDivides`, `LowHalves`).

The argument for the decoder. A bit of an arithmetic shift is the bit above it
or the sign (`SrawBit`). One lemma per format then compares, position by
position, the bits that the masks and shifts collect with the table of the
format. It holds for every set of bits, so it needs no induction over behaviours.

The argument for the start-up code. The invariant (`StartInv`) says what each
instruction finds: in the copy loop, that the bytes of `.data` below `a1` are
copied, `a0` is as far into the ROM as `a1` into the RAM, and everything from the
end of `.data` on is as it was; in the clearing loop, that `.data` is complete,
`.bss` is zero below `a0` and everything behind `.bss` is as it was. Both
pointers are multiples of 4 and so are the ends, so a word store never crosses
an end (`WordFits`), and no address wraps or turns negative (`NoWrap`).

The argument for the counters. `NotTorn` is not inductive: the invariant
(`ReadsInv`) says at which moments, in which order and since when, the values in
the registers were read. If the high half is the same at the first and the last
moment, it was the same at the one in between, because division by the range of
a half is monotonic (`HighMonotonic`, `WholeValue`); so both halves are of that
moment.

The argument for the guest. A step of `GuestSpec` is one of Core's, so types and
the cycle budget are those of Core (`GuestCore`). What has to be found is where
the program can be: `Placed` says that `pc` is at one of the 68 words of the text,
that the ROM holds it, and that the loop of `main` has ended exactly behind the
environment call. Each word is then fetched whole and decoded to the instruction
of the listing (`Fetches`), `process_instr` dispatches it (`Dispatch`), and one
lemma for each kind of instruction says what it sets, stores or jumps to
(`AddiEffect` to `EcallEffect`). For a `la` it needs both halves: `Halfway` says that
between them the register holds the address of the first half plus the rounded
distance, and `Distance` that the rest of the distance makes up for the rounding,
modulo the range of a register (`AuipcEffect`, `LaEffect`, `HalfwayNext`). `Placed` alone is not inductive: `ret` jumps to
whatever ra holds. `Frame` adds what that depends on: where `sp` is, what ra holds
at the words that return, that the last word of the RAM holds the return address
of `main` between its prologue and its epilogue, and the code in a0 at the two
environment calls. `Steady` is this invariant with the types and the budget
(`GuestSteady`).

From it the refinements follow word by word. The label, the registers and the
bytes of t0 that `Guest` shows `Crt0` change as the instruction of the label says
(`StartUpStep`); a word that is loaded falls apart into the bytes it was loaded
from, and a stored one is made up of them again (`BytesOfWord`, `StoresRam`). That
the loop copies inside both memories comes from the invariant of Crt0Proofs, which
holds of the guest as well (`StartAccesses`), so the two inductions go together in
`StartsAsWritten`. `LoopsAsWritten` needs that the counters stay below what two
registers hold (`CountersFit`), which is the cycle budget again, and that the
value `csrr` reads lies between the counter before and after the instruction
(`CsrrEffect`), since fetch and hazard stalls are counted before it is read. The
theorems of Crt0 and Librv then say `MemoryReady` and `CountersNotTorn` of the
guest.

`OutputDelivered` is about all of the system at once. `Kept`: from the call of
`main` on, the variables have their initial values, by `MemoryReady` at the call and
because the only store up to the end of the output is to the frame, behind
`.bss`. The first run of `main` does write over them, and then only leads back to
`_start`. `Printed`: nothing is printed before the output loop; in its turn behind *n*
variables s0 points to the next, whose value is in a0, a5 or a1 by place, and
*n* characters are out, *n* + 1 from the environment call on (`Printing`). The
report comes out only behind the second environment call (`OutcomeInv`).

The argument for the gadget. The refinement needs to know what the array holds
while the call runs: below the cursor and the limit the text, elsewhere what was
there before, where the cursor is the length of the text as long as an unsigned
int can count it (`GadgetInv`). Then the termination step is the only one at which
the abstract array changes, and it changes to the truncated text, with the length
converted to an int as result (`RefinesFinish`, `ReturnedInt`). Once the count
has come round, the invariant still says that the cursor is below the range and memory
behind the limit is untouched, which is what is left to show (`RefinesUncounted`). `Printf` adds that each of its steps puts one character,
finishes, or leaves the gadget alone (`DigitsInvNext`), so the gadget's theorem
carries over. `IntegerBufferBounded` is not inductive: while digits are still
to come the buffer must have room (`DigitsInv`), and every part of the
finalization keeps a bounded buffer bounded (`PaddedBounded`,
`PrefixedBounded`, `SignedBounded`).

Model-checked only: `StandardText` and `NumberKept` (the reference is computed by
exponentiation and choice, which needs induction over data),
`DecoderInvertsAssembler` (its numbers are sums over sets of bits),
`ArithmeticShift` (powers of two and sums over sets of bits), and `Terminates`,
`CallReturns` and `GuestExits` (liveness under fairness is out of the prover's
reach). The runs check every other property on small instances too; the theorems
say the same for all.

## Not modelled

Of `printf.c`, strings are their characters up to the NUL, so
reads behind a string that has none are not described, among them the one
`strnlen_s_` makes before it compares (`printf.c:484`). The floating-point half of
`printf.c`, about 700 lines, and `%n` are compiled out by `printf_config.h`. The
counters of `librv.h` are modelled as the RV32 build has them. `printf` is not
run as machine code on `Core`: its model and Guest's meet at `putchar_`. Of the
emulator, warnings, the elapsed time and the frequency line are left out, and
the MSVC intrinsics are not in the repository. Build files, the generated
`stdint.h`, `errno` and the test programs have no logic of their own to model.

## Open

Every component listed as modelled has its safety properties proved, but for the
four named above. Two extensions would be worth their effort: `printf` as machine
code in `Guest`, so that `StandardText` reaches the host's terminal through
`putchar_`, and the floating-point conversions, should a configuration compile
them in.
