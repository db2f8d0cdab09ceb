----------------------------------- MODULE Alu -----------------------------------
(***************************************************************************)
(* The arithmetic unit: the switches over aluop and funct3 of              *)
(* src/cpu/core.c, the shift macros of inc/common.h and the multiplication *)
(* and division functions of inc/mul.h.  Values are reg_t, members of      *)
(* Word; an int32_t or uint32_t of the word instructions is the low half   *)
(* of a register, a number below WordMod.                                  *)
(***************************************************************************)
EXTENDS Arch, FiniteSetsExt

CONSTANT ByteBits     \* bits of a byte

ASSUME ByteBitsAssumption == ByteBits \in Nat \ {0} /\ ByteMod = 2 ^ ByteBits

XLEN    == (IF RV64 THEN 8 ELSE 4) * ByteBits
WordLen == 4 * ByteBits

\* A register as the set of the positions of its one bits, and back.
Bits == [w \in Word |-> {k \in 0 .. XLEN - 1 : (w \div 2 ^ k) % 2 = 1}]
Number == [S \in SUBSET (0 .. XLEN - 1) |-> MapThenSumSet(LAMBDA k : 2 ^ k, S)]

BitAnd(a, b) == Number[Bits[a] \cap Bits[b]]
BitOr(a, b)  == Number[Bits[a] \cup Bits[b]]
BitXor(a, b) == Number[(Bits[a] \ Bits[b]) \cup (Bits[b] \ Bits[a])]

Truth(cond) == IF cond THEN 1 ELSE 0

\* Mutant: a word result is left zero-extended.
FromLowUnsigned(n) == n % WordMod

\* The conversions of a register to uint32_t, and of an int32_t or uint32_t
\* through int32_t to sreg_t.
Low(a)    == a % WordMod
FromLow(n) == SignExtend(n % WordMod, WordMod)
SignedLow(a) == IF 2 * Low(a) >= WordMod THEN Low(a) - WordMod ELSE Low(a)

\* Mutant: without the case for zero, the mask of a processor that takes shift
\* amounts modulo the width is all ones.
SRANoZeroCase(val, sh) ==
    BitOr(val \div 2 ^ sh,
          IF 2 * val >= RegMod THEN Wrap((RegMod - 1) * 2 ^ ((XLEN - sh) % XLEN)) ELSE 0)

\* SRA and SRAW: the bits shifted in are or-ed to a logical shift; a shift by
\* zero would shift the mask by the whole width and is a case of its own.
SRA(val, sh) ==
    IF sh = 0 THEN val
    ELSE BitOr(val \div 2 ^ sh,
               IF 2 * val >= RegMod THEN Wrap((RegMod - 1) * 2 ^ (XLEN - sh)) ELSE 0)
SRAW(val, sh) ==
    IF sh = 0 THEN val
    ELSE BitOr(val \div 2 ^ sh,
               IF 2 * val >= WordMod
               THEN ((WordMod - 1) * 2 ^ (WordLen - sh)) % WordMod ELSE 0)

\* The switch over aluop of OP_RTYPE; that of OP_IMM has the same results.  A
\* shift amount is masked by XLEN - 1.
alu(op, a, b) ==
    LET sh == b % XLEN
    IN  CASE op = 0  -> Wrap(a + b)
          [] op = 8  -> Wrap(a - b)
          [] op = 1  -> Wrap(a * 2 ^ sh)
          [] op = 5  -> a \div 2 ^ sh
          [] op = 13 -> SRA(a, sh)
          [] op = 2  -> Truth(Signed(a) < Signed(b))
          [] op = 3  -> Truth(a < b)
          [] op = 7  -> BitAnd(a, b)
          [] op = 6  -> BitOr(a, b)
          [] op = 4  -> BitXor(a, b)

\* The switches of OP_RTYPEW and OP_IMMW.
aluw(op, a, b) ==
    LET sh == b % WordLen
    IN  CASE op = 0  -> FromLow(Low(a) + Low(b))
          [] op = 8  -> FromLow(Low(a) - Low(b))
          [] op = 1  -> FromLow(Low(a) * 2 ^ sh)
          [] op = 5  -> FromLow(Low(a) \div 2 ^ sh)
          [] op = 13 -> FromLow(SRAW(Low(a), sh))

-----------------------------------------------------------------------------
\* Division in C truncates towards zero, and the remainder has the dividend's sign.
Magnitude(n) == IF n < 0 THEN -n ELSE n
Quotient(x, y) ==
    LET q == Magnitude(x) \div Magnitude(y)
    IN  IF (x < 0) = (y < 0) THEN q ELSE -q
Remainder(x, y) == x - y * Quotient(x, y)

\* Mutant: the remainder by zero is zero.
rv_remZero(x, y, m) ==
    IF y = 0 THEN 0
    ELSE IF 2 * x = -m /\ y = -1 THEN 0
    ELSE Remainder(x, y)

\* a and b are the operands as int32_t or sreg_t, of minimum -m/2, or as
\* unsigned numbers below m.
rv_div(x, y, m) ==
    IF y = 0 THEN -1
    ELSE IF 2 * x = -m /\ y = -1 THEN x
    ELSE Quotient(x, y)
rv_divu(x, y, m) == IF y = 0 THEN m - 1 ELSE x \div y
rv_rem(x, y, m) ==
    IF y = 0 THEN x
    ELSE IF 2 * x = -m /\ y = -1 THEN 0
    ELSE Remainder(x, y)
rv_remu(x, y, m) == IF y = 0 THEN x ELSE x % y

\* The products in a type of twice the width, shifted down.  Both signed forms
\* multiply exactly, so only the last conversion wraps.
DoubleMod == RegMod * RegMod
HighHalf(product) == (product % DoubleMod) \div RegMod
\* Mutant: the unsigned operand of MULHSU is taken as signed.
rv_mulhsuSigned(a, b) == HighHalf(Signed(a) * Signed(b))

rv_mulh(a, b)   == HighHalf(Signed(a) * Signed(b))
rv_mulhsu(a, b) == HighHalf(Signed(a) * b)
rv_mulhu(a, b)  == HighHalf(a * b)

\* The switch over funct3 of OP_RTYPE with bit 0 of funct7 set.
muldiv(op, a, b) ==
    CASE op = 0 -> Wrap(a * b)
      [] op = 1 -> rv_mulh(a, b)
      [] op = 2 -> rv_mulhsu(a, b)
      [] op = 3 -> rv_mulhu(a, b)
      [] op = 4 -> Wrap(rv_div(Signed(a), Signed(b), RegMod))
      [] op = 5 -> rv_divu(a, b, RegMod)
      [] op = 6 -> Wrap(rv_rem(Signed(a), Signed(b), RegMod))
      [] op = 7 -> rv_remu(a, b, RegMod)

\* The same of OP_RTYPEW.
muldivw(op, a, b) ==
    CASE op = 0 -> FromLow(Low(a) * Low(b))
      [] op = 4 -> FromLow(rv_div(SignedLow(a), SignedLow(b), WordMod))
      [] op = 5 -> FromLow(rv_divu(Low(a), Low(b), WordMod))
      [] op = 6 -> FromLow(rv_rem(SignedLow(a), SignedLow(b), WordMod))
      [] op = 7 -> FromLow(rv_remu(Low(a), Low(b), WordMod))

-----------------------------------------------------------------------------
\* Mutant: the low half of the first cross product is not carried into the second.
mulhudwNoCarry(a, b) ==
    LET half == WordMod
        p00  == (a % half) * (b % half)
        p10  == Wrap((a \div half) * (b % half) + (p00 \div half))
        p01  == Wrap((a % half) * (b \div half))
        p11  == Wrap((a \div half) * (b \div half))
    IN  Wrap(p11 + (p10 \div half) + (p01 \div half))

\* The fallback for compilers without a 128-bit type: the high half of an
\* unsigned product from the four products of halves, in RegMod arithmetic.
mulhudw(a, b) ==
    LET half  == WordMod
        p00   == (a % half) * (b % half)
        p10   == Wrap((a \div half) * (b % half))
        p01   == Wrap((a % half) * (b \div half))
        p11   == Wrap((a \div half) * (b \div half))
        cross == Wrap(p10 + (p00 \div half))
    IN  Wrap(p11 + (cross \div half) + (Wrap(p01 + (cross % half)) \div half))

soft_mulh(a, b) ==
    Wrap(mulhudw(a, b) - (IF Signed(a) < 0 THEN b ELSE 0)
                       - (IF Signed(b) < 0 THEN a ELSE 0))
soft_mulhsu(a, b) == Wrap(mulhudw(a, b) - (IF Signed(a) < 0 THEN b ELSE 0))
soft_mulhu(a, b)  == mulhudw(a, b)

=============================================================================
