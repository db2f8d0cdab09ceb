---------------------------------- MODULE MCAlu ----------------------------------
(***************************************************************************)
(* The arithmetic unit against reference definitions, for every pair of    *)
(* operands of a small width.  A behaviour holds operand a and sweeps b    *)
(* over all registers; the properties are about the pair of each state.    *)
(***************************************************************************)
EXTENDS Alu

VARIABLES a, b

Init == a \in Word /\ b = 0
Next == b' = Wrap(b + 1) /\ UNCHANGED a
Spec == Init /\ [][Next]_<<a, b>>

-----------------------------------------------------------------------------
\* SRA and SRAW, built in inc/common.h from a logical shift and a mask because C
\* leaves the shift of a negative number open, divide the signed operand by a
\* power of two and round down; in particular a shift by zero is the identity.
\* The shifts of words read low halves only and sign-extend what they shift.
ArithmeticShift ==
    /\ alu(13, a, b) = Wrap(Signed(a) \div 2 ^ (b % XLEN))
    /\ aluw(13, a, b) = Wrap(SignedLow(a) \div 2 ^ (b % WordLen))
    /\ \A op \in {1, 5, 13} :
          /\ aluw(op, a, b) = aluw(op, Low(a), Low(b))
          /\ Signed(aluw(op, a, b)) = SignedLow(aluw(op, a, b))

\* Quotient and remainder of operands x and y fit together: they recompose the
\* dividend, the remainder is smaller than the divisor and is zero or has the
\* dividend's sign.  Division by zero gives all ones and the dividend.
DividesInto(x, y, q, r, m) ==
    IF y = 0 THEN (q + 1) % m = 0 /\ r = x
    ELSE /\ (q * y + r - x) % m = 0
         /\ Magnitude(r) < Magnitude(y)
         /\ r = 0 \/ (r < 0) = (x < 0)

\* The four division functions of inc/mul.h at register width, and the four of
\* the word instructions, over every operand: the overflowing quotient of the
\* least number by -1 and the zero divisor, which trap in C, included.
DivisionIsEuclidean ==
    LET SL(w) == SignedLow(w)
    IN  /\ DividesInto(Signed(a), Signed(b),
                       Signed(muldiv(4, a, b)), Signed(muldiv(6, a, b)), RegMod)
        /\ DividesInto(a, b, muldiv(5, a, b), muldiv(7, a, b), RegMod)
        /\ DividesInto(SL(a), SL(b),
                       SL(muldivw(4, a, b)), SL(muldivw(6, a, b)), WordMod)
        /\ DividesInto(Low(a), Low(b),
                       Low(muldivw(5, a, b)), Low(muldivw(7, a, b)), WordMod)

\* MUL and the three MULH forms are the two halves of one exact product, with
\* each operand signed or unsigned as the mnemonic says.
ProductHalves ==
    LET Whole(hi) == hi * RegMod + muldiv(0, a, b)
    IN  /\ Whole(Signed(muldiv(1, a, b))) = Signed(a) * Signed(b)
        /\ Whole(Signed(muldiv(2, a, b))) = Signed(a) * b
        /\ Whole(muldiv(3, a, b)) = a * b

\* The software multiplication that inc/mul.h falls back to returns what the
\* 128-bit type of the other compilers does: no carry is lost in mulhudw.
SoftwareProductAgrees ==
    /\ soft_mulh(a, b) = rv_mulh(a, b)
    /\ soft_mulhsu(a, b) = rv_mulhsu(a, b)
    /\ soft_mulhu(a, b) = rv_mulhu(a, b)

\* A word sum, difference, product or division of RV64 reads the low halves of
\* its operands only, leaves a sign-extended word in the register, and for the
\* operations that carry upwards agrees with the low half of the full-width result.
WordResults ==
    /\ \A op \in {0, 8} :
          /\ aluw(op, a, b) = aluw(op, Low(a), Low(b))
          /\ Signed(aluw(op, a, b)) = SignedLow(aluw(op, a, b))
    /\ \A op \in {0, 4, 5, 6, 7} :
          /\ muldivw(op, a, b) = muldivw(op, Low(a), Low(b))
          /\ Signed(muldivw(op, a, b)) = SignedLow(muldivw(op, a, b))
    /\ \A op \in {0, 8} : Low(aluw(op, a, b)) = Low(alu(op, a, b))
    /\ Low(muldivw(0, a, b)) = Low(muldiv(0, a, b))

=============================================================================
