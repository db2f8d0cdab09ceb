--------------------------------- MODULE MCGuest ---------------------------------
(***************************************************************************)
(* Builds of the guest program for TLC: sections that are empty, that end   *)
(* on a multiple of 8 and that do not.  Word k of the n-th build is encoded *)
(* as the number 72 * (n - 1) + k.                                          *)
(***************************************************************************)
EXTENDS Guest

Builds == <<[text |-> 272, data |-> 0,  bss |-> 1],
            [text |-> 272, data |-> 3,  bss |-> 5],
            [text |-> 276, data |-> 8,  bss |-> 8],
            [text |-> 280, data |-> 13, bss |-> 0],
            [text |-> 272, data |-> 0,  bss |-> 17],
            [text |-> 276, data |-> 16, bss |-> 12],
            [text |-> 280, data |-> 1,  bss |-> 9],
            [text |-> 272, data |-> 12, bss |-> 24],
            [text |-> 276, data |-> 7,  bss |-> 0],
            [text |-> 280, data |-> 0,  bss |-> 24]>>
MCLayouts == {Builds[n] : n \in 1 .. Len(Builds)}

Texts == [n \in 1 .. Len(Builds) |-> Text(Builds[n])]

\* The bits of a word that its format has no field for are ones.
OfWord(i) ==
    LET source2 == i.opcode \in {"OP_STORE", "OP_BRANCH"}
    IN  [i EXCEPT !.rs2 = IF source2 THEN @ ELSE 31,
                  !.rd  = IF source2 THEN 31 ELSE @,
                  !.rs1 = IF i.opcode \in {"OP_AUIPC", "OP_JAL"} THEN 31 ELSE @,
                  !.funct3 = IF i.opcode \in {"OP_AUIPC", "OP_JAL"} THEN 7 ELSE @,
                  !.bit0 = TRUE, !.bit5 = TRUE]

MCDecode(w) ==
    LET n == (w - 1) \div 72 + 1
        k == ((w - 1) % 72) + 1
    IN  IF w > 0 /\ n \in DOMAIN Texts /\ k \in DOMAIN Texts[n] THEN OfWord(Texts[n][k])
        ELSE Unknown

\* The text, and behind it the initial values of .data, padded like the section.
ImageOfBuild(n) ==
    LET l == Builds[n]
    IN  Encode([k \in 1 .. Len(Texts[n]) |-> 72 * (n - 1) + k])
        \o [k \in 1 .. sidata(l) - 4 * Len(Texts[n]) |-> 0]
        \o [k \in 1 .. edata(l) - sdata(l) |-> IF k <= l.data THEN (3 * k - 1) % ByteMod ELSE 0]
MCImageTable == [n \in 1 .. Len(Builds) |-> ImageOfBuild(n)]
MCImageOf(l) == MCImageTable[CHOOSE n \in 1 .. Len(Builds) : Builds[n] = l]
MCImages == {MCImageTable[n] : n \in 1 .. Len(Builds)}

\* The program only adds; the other operations of the unit are checked on their own.
MCALU(op, a, b)      == IF op = 0 THEN Wrap(a + b) ELSE 0
MCALUW(op, a, b)     == 0
MCMUL_DIV(op, a, b)  == 0
MCMUL_DIVW(op, a, b) == 0

=============================================================================
