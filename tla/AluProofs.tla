-------------------------------- MODULE AluProofs --------------------------------
(***************************************************************************)
(* Multiplication, division and the word instructions, for every pair of   *)
(* operands of every width: what TLC checks on registers of 8 bits.        *)
(***************************************************************************)
EXTENDS MCAlu, TLAPS

-----------------------------------------------------------------------------
(* Integer arithmetic *)

\* Multiplication by a natural number is monotonic.
LEMMA TimesMonotonic ==
    ASSUME NEW n \in Nat, NEW x \in Int, NEW y \in Int, x <= y
    PROVE  n * x <= n * y /\ n * x \in Int /\ n * y \in Int
  <1>1. n * (y - x) >= 0 /\ n * (y - x) = n * y - n * x
    OBVIOUS
  <1>2. n * x \in Int /\ n * y \in Int
    OBVIOUS
  <1> QED
    BY <1>1, <1>2

\* Quotient and remainder make up the dividend.
LEMMA DivMod ==
    ASSUME NEW n \in Int, NEW m \in Nat, m > 0
    PROVE  /\ n \div m \in Int
           /\ n % m \in 0 .. m - 1
           /\ n = m * (n \div m) + (n % m)
  OBVIOUS

\* There is one way to divide.
LEMMA DivUnique ==
    ASSUME NEW n \in Int, NEW m \in Nat, m > 0, NEW q \in Int, NEW r \in 0 .. m - 1,
           n = m * q + r
    PROVE  n \div m = q /\ n % m = r
  <1> DEFINE k == n \div m
             t == n % m
  <1>1. k \in Int /\ t \in 0 .. m - 1 /\ n = m * k + t
    BY DivMod
  <1> HIDE DEF k, t
  <1>2. m * k \in Int /\ m * q \in Int
    BY <1>1
  <1>3. m * (q + 1) = m * q + m /\ m * (k + 1) = m * k + m
    BY <1>1
  <1>4. CASE k > q
    <2>1. m * (q + 1) <= m * k
      BY <1>1, <1>4, TimesMonotonic
    <2> QED
      BY <1>1, <1>2, <1>3, <2>1
  <1>5. CASE q > k
    <2>1. m * (k + 1) <= m * q
      BY <1>1, <1>5, TimesMonotonic
    <2> QED
      BY <1>1, <1>2, <1>3, <2>1
  <1>6. k = q
    BY <1>1, <1>4, <1>5
  <1>7. t = r
    BY <1>1, <1>2, <1>6
  <1> QED
    BY <1>6, <1>7 DEF k, t

\* A multiple of the divisor adds to the quotient and leaves the remainder.
LEMMA DivShift ==
    ASSUME NEW n \in Int, NEW m \in Nat, m > 0, NEW k \in Int
    PROVE  (n + m * k) \div m = n \div m + k /\ (n + m * k) % m = n % m
  <1> DEFINE q == n \div m
             r == n % m
  <1>1. q \in Int /\ r \in 0 .. m - 1 /\ n = m * q + r
    BY DivMod
  <1> HIDE DEF q, r
  <1>2. m * (q + k) = m * q + m * k /\ m * q \in Int /\ m * k \in Int /\ m * (q + k) \in Int
    BY <1>1
  <1>3. n + m * k = m * (q + k) + r /\ n + m * k \in Int /\ q + k \in Int
    BY <1>1, <1>2
  <1>4. (n + m * k) \div m = q + k /\ (n + m * k) % m = r
    BY <1>1, <1>3, DivUnique
  <1> QED
    BY <1>4 DEF q, r

\* A number below the divisor is its own remainder.
LEMMA ModSmall ==
    ASSUME NEW m \in Nat, NEW n \in 0 .. m - 1
    PROVE  n % m = n /\ n \div m = 0
  OBVIOUS

-----------------------------------------------------------------------------
(* Registers *)

\* The numbers of values of a word and of a register.
LEMMA Moduli ==
    /\ WordMod \in Nat /\ WordMod >= 4
    /\ RegMod \in Nat /\ RegMod >= 4
    /\ RV64 => RegMod = WordMod * WordMod
    /\ ~ RV64 => RegMod = WordMod
  <1>1. ASSUME NEW k \in Nat, k >= 2 PROVE k * k \in Nat /\ k * k >= 2 * k
    BY <1>1
  <1>2. ByteMod \in Nat /\ ByteMod >= 2
    BY ArchAssumption
  <1>3. HalfMod \in Nat /\ HalfMod >= 4
    BY <1>1, <1>2 DEF HalfMod
  <1>4. WordMod \in Nat /\ WordMod >= 4
    BY <1>1, <1>3 DEF WordMod
  <1>5. WordMod * WordMod \in Nat /\ WordMod * WordMod >= 4
    BY <1>1, <1>4
  <1> QED
    BY <1>4, <1>5 DEF RegMod

\* A signed value is in the range of a type of m values.
Fits(n, m) == -m <= 2 * n /\ 2 * n < m

\* A reg_t read as signed is in the range of sreg_t, and differs by 0 or RegMod.
LEMMA SignedFits ==
    ASSUME NEW w \in Word
    PROVE  /\ Signed(w) \in Int /\ Fits(Signed(w), RegMod)
           /\ Signed(w) = w - RegMod * Truth(Signed(w) < 0)
           /\ Truth(Signed(w) < 0) \in {0, 1}
  BY Moduli DEF Word, Signed, Fits, Truth

\* The conversion to reg_t and back keeps what fits.
LEMMA SignedWrap ==
    ASSUME NEW n \in Int, Fits(n, RegMod)
    PROVE  Signed(Wrap(n)) = n
  <1> DEFINE m == RegMod
  <1>1. m \in Nat /\ m >= 4 /\ -m <= 2 * n /\ 2 * n < m
    BY Moduli DEF Fits
  <1>2. Signed(Wrap(n)) = IF 2 * (n % m) >= m THEN (n % m) - m ELSE n % m
    BY DEF Signed, Wrap
  <1> HIDE DEF m
  <1>3. CASE n >= 0
    <2>1. n % m = n
      BY <1>1, <1>3, ModSmall
    <2> QED
      BY <1>1, <1>2, <2>1
  <1>4. CASE n < 0
    <2>1. n = m * (-1) + (n + m) /\ n + m \in 0 .. m - 1
      BY <1>1, <1>4
    <2>2. n % m = n + m
      BY <1>1, <2>1, DivUnique
    <2> QED
      BY <1>1, <1>2, <1>4, <2>2
  <1> QED
    BY <1>3, <1>4

-----------------------------------------------------------------------------
(* Products *)

\* The high half of a product, cut to a register, from the exact quotient.
LEMMA HighHalfIs ==
    ASSUME NEW p \in Int
    PROVE  HighHalf(p) = Wrap(p \div RegMod)
  <1> DEFINE m == RegMod
             q == p \div m
             r == p % m
             k == q \div m
             t == q % m
  <1>1. m \in Nat /\ m >= 4
    BY Moduli
  <1>2. HighHalf(p) = (p % (m * m)) \div m /\ Wrap(p \div RegMod) = t
    BY DEF HighHalf, DoubleMod, Wrap
  <1> HIDE DEF m
  <1>3. q \in Int /\ r \in 0 .. m - 1 /\ p = m * q + r
    BY <1>1, DivMod
  <1> HIDE DEF q, r
  <1>4. k \in Int /\ t \in 0 .. m - 1 /\ q = m * k + t
    BY <1>1, <1>3, DivMod
  <1> HIDE DEF k, t
  <1>5. /\ m * m \in Nat /\ m * m > 0 /\ m * t \in Int
        /\ m * t >= 0 /\ m * t <= m * (m - 1)
        /\ m * (m - 1) = m * m - m
    BY <1>1, <1>4, TimesMonotonic
  <1>6. m * t + r \in 0 .. m * m - 1 /\ m * t + r \in Int
    BY <1>1, <1>3, <1>5
  <1>7. m * q = (m * m) * k + m * t /\ (m * m) * k \in Int
    BY <1>1, <1>4
  <1>8. p = (m * m) * k + (m * t + r)
    BY <1>3, <1>5, <1>7
  <1>9. p % (m * m) = m * t + r
    BY <1>4, <1>5, <1>6, <1>8, DivUnique
  <1>10. (m * t + r) \div m = t
    BY <1>1, <1>3, <1>4, <1>6, DivUnique
  <1> QED
    BY <1>2, <1>9, <1>10

\* The high half read as signed and the low half make up any product that the
\* two together can hold.
LEMMA SignedHalves ==
    ASSUME NEW p \in Int, RegMod - RegMod * RegMod <= 2 * p, 2 * p < RegMod * RegMod
    PROVE  Signed(HighHalf(p)) * RegMod + Wrap(p) = p
  <1> DEFINE m == RegMod
             q == p \div m
             r == p % m
  <1>1. m \in Nat /\ m >= 4
    BY Moduli
  <1>2. q \in Int /\ r \in 0 .. m - 1 /\ p = m * q + r
    BY <1>1, DivMod
  <1>3. HighHalf(p) = Wrap(q) /\ Wrap(p) = r
    BY HighHalfIs DEF Wrap
  <1>4. m - m * m <= 2 * p /\ 2 * p < m * m
    OBVIOUS
  <1>5. Fits(q, m)
    <2> HIDE DEF m, q, r
    <2>1. m * m \in Int /\ m * q \in Int
      BY <1>1, <1>2
    <2>2. CASE 2 * q >= m
      <3>1. m * m <= m * (2 * q) /\ m * (2 * q) = 2 * (m * q)
        BY <1>1, <1>2, <2>2, TimesMonotonic
      <3> QED
        BY <1>1, <1>2, <1>4, <2>1, <3>1
    <2>3. CASE 2 * q < -m
      <3>1. m * (2 * q + 2) <= m * (1 - m)
        BY <1>1, <1>2, <2>3, TimesMonotonic
      <3>2. m * (2 * q + 2) = 2 * (m * q) + 2 * m /\ m * (1 - m) = m - m * m
        BY <1>1, <1>2
      <3> QED
        BY <1>1, <1>2, <1>4, <2>1, <3>1, <3>2
    <2> QED
      BY <1>1, <1>2, <2>2, <2>3 DEF Fits
  <1>6. Signed(Wrap(q)) = q
    BY <1>2, <1>5, SignedWrap
  <1> QED
    BY <1>1, <1>2, <1>3, <1>6

\* Two signed operands of any modulus m: the product fits two halves.
LEMMA SignedProduct ==
    ASSUME NEW m \in Nat, m >= 4, NEW s \in Int, NEW t \in Int, Fits(s, m), Fits(t, m)
    PROVE  s * t \in Int /\ m - m * m <= 2 * (s * t) /\ 2 * (s * t) < m * m
  <1>1. -m <= 2 * s /\ 2 * s <= m /\ -m <= 2 * t /\ 2 * t <= m
    BY DEF Fits
  <1>2. (m - 2 * s) * (m + 2 * t) >= 0 /\ (m + 2 * s) * (m - 2 * t) >= 0
    BY <1>1
  <1>3. (m - 2 * s) * (m - 2 * t) >= 0 /\ (m + 2 * s) * (m + 2 * t) >= 0
    BY <1>1
  <1>4. s * t \in Int /\ m * s \in Int /\ m * t \in Int /\ m * m \in Int
    OBVIOUS
  <1>5. /\ (m - 2 * s) * (m + 2 * t) = m * m + 2 * (m * t) - 2 * (m * s) - 4 * (s * t)
        /\ (m + 2 * s) * (m - 2 * t) = m * m - 2 * (m * t) + 2 * (m * s) - 4 * (s * t)
        /\ (m - 2 * s) * (m - 2 * t) = m * m - 2 * (m * t) - 2 * (m * s) + 4 * (s * t)
        /\ (m + 2 * s) * (m + 2 * t) = m * m + 2 * (m * t) + 2 * (m * s) + 4 * (s * t)
    OBVIOUS
  <1>6. 4 * (s * t) <= m * m /\ -(m * m) <= 4 * (s * t)
    BY <1>2, <1>3, <1>4, <1>5
  <1>7. m * m >= 4 * m
    OBVIOUS
  <1> QED
    BY <1>4, <1>6, <1>7

\* A signed operand and an unsigned one.
LEMMA MixedProduct ==
    ASSUME NEW m \in Nat, m >= 4, NEW s \in Int, Fits(s, m), NEW y \in 0 .. m - 1
    PROVE  s * y \in Int /\ m - m * m <= 2 * (s * y) /\ 2 * (s * y) < m * m
  <1>1. -m <= 2 * s /\ 2 * s <= m
    BY DEF Fits
  <1>2. y * (2 * s) <= y * m /\ y * (-m) <= y * (2 * s)
    BY <1>1, TimesMonotonic
  <1>3. m * y <= m * (m - 1)
    BY TimesMonotonic
  <1>4. y * (2 * s) = 2 * (s * y) /\ y * m = m * y /\ y * (-m) = -(m * y) /\ m * (m - 1) = m * m - m
    OBVIOUS
  <1>5. s * y \in Int /\ m * y \in Int /\ m * m \in Int
    OBVIOUS
  <1> QED
    BY <1>2, <1>3, <1>4, <1>5

\* Two unsigned operands: the quotient is below the modulus.
LEMMA UnsignedProduct ==
    ASSUME NEW m \in Nat, m >= 4, NEW x \in 0 .. m - 1, NEW y \in 0 .. m - 1
    PROVE  x * y \in Nat /\ (x * y) \div m \in 0 .. m - 1
  <1> DEFINE q == (x * y) \div m
             r == (x * y) % m
  <1>1. x * y \in Nat /\ m * m \in Int
    OBVIOUS
  <1>2. q \in Int /\ r \in 0 .. m - 1 /\ x * y = m * q + r
    BY <1>1, DivMod
  <1> HIDE DEF q, r
  <1>3. x * y <= x * m /\ m * x <= m * (m - 1) /\ x * m = m * x /\ m * (m - 1) = m * m - m
    BY TimesMonotonic
  <1>4. x * m \in Int /\ m * x \in Int /\ m * q \in Int
    BY <1>2
  <1>5. CASE q >= m
    <2>1. m * m <= m * q
      BY <1>2, <1>5, TimesMonotonic
    <2> QED
      BY <1>1, <1>2, <1>3, <1>4, <2>1
  <1>6. CASE q < 0
    <2>1. m * q <= m * (-1) /\ m * (-1) = -m
      BY <1>2, <1>6, TimesMonotonic
    <2> QED
      BY <1>1, <1>2, <1>4, <2>1
  <1> QED
    BY <1>1, <1>2, <1>5, <1>6 DEF q

\* The low half is the same whether the operands are signed or not.
LEMMA SameLowHalf ==
    ASSUME NEW x \in Word, NEW y \in Word
    PROVE  /\ Wrap(Signed(x) * Signed(y)) = Wrap(x * y)
           /\ Wrap(Signed(x) * y) = Wrap(x * y)
  <1> DEFINE m == RegMod
             s == Signed(x)
             t == Signed(y)
             e == Truth(s < 0)
             f == Truth(t < 0)
  <1>1. /\ m \in Nat /\ m > 0 /\ x \in Int /\ y \in Int
        /\ s \in Int /\ t \in Int /\ e \in Int /\ f \in Int
        /\ s = x - m * e /\ t = y - m * f
    BY Moduli, SignedFits DEF Word
  <1>2. Wrap(s * t) = (s * t) % m /\ Wrap(s * y) = (s * y) % m /\ Wrap(x * y) = (x * y) % m
    BY DEF Wrap
  <1> HIDE DEF m, s, t, e, f
  <1>3. /\ (x - m * e) * (y - m * f) = x * y + m * (m * (e * f) - e * y - f * x)
        /\ (x - m * e) * y = x * y + m * (-(e * y))
        /\ x * y \in Int
        /\ m * (e * f) - e * y - f * x \in Int /\ -(e * y) \in Int
    BY <1>1
  <1>4. /\ (x * y + m * (m * (e * f) - e * y - f * x)) % m = (x * y) % m
        /\ (x * y + m * (-(e * y))) % m = (x * y) % m
    BY <1>1, <1>3, DivShift
  <1> QED
    BY <1>1, <1>2, <1>3, <1>4 DEF s, t

\* What ProductHalves says of a state, for any operands.
LEMMA HalvesOfProduct ==
    ASSUME a \in Word, b \in Word
    PROVE  ProductHalves
  <1>1. /\ RegMod \in Nat /\ RegMod >= 4
        /\ a \in 0 .. RegMod - 1 /\ b \in 0 .. RegMod - 1
        /\ Signed(a) \in Int /\ Fits(Signed(a), RegMod)
        /\ Signed(b) \in Int /\ Fits(Signed(b), RegMod)
    BY Moduli, SignedFits DEF Word
  <1>2. Signed(rv_mulh(a, b)) * RegMod + Wrap(a * b) = Signed(a) * Signed(b)
    <2>1. Signed(HighHalf(Signed(a) * Signed(b))) * RegMod + Wrap(Signed(a) * Signed(b))
             = Signed(a) * Signed(b)
      BY <1>1, SignedProduct, SignedHalves
    <2> QED
      BY <2>1, SameLowHalf DEF rv_mulh
  <1>3. Signed(rv_mulhsu(a, b)) * RegMod + Wrap(a * b) = Signed(a) * b
    <2>1. Signed(HighHalf(Signed(a) * b)) * RegMod + Wrap(Signed(a) * b) = Signed(a) * b
      BY <1>1, MixedProduct, SignedHalves
    <2> QED
      BY <2>1, SameLowHalf DEF rv_mulhsu
  <1>4. rv_mulhu(a, b) * RegMod + Wrap(a * b) = a * b
    <2> DEFINE m == RegMod
               p == a * b
    <2>1. p \in Nat /\ p \div m \in 0 .. m - 1
      BY <1>1, UnsignedProduct
    <2>2. rv_mulhu(a, b) = (p \div m) % m /\ Wrap(a * b) = p % m
      BY <2>1, HighHalfIs DEF rv_mulhu, Wrap
    <2> HIDE DEF p
    <2>3. p = m * (p \div m) + (p % m)
      BY <1>1, <2>1, DivMod
    <2>4. (p \div m) % m = p \div m
      BY <1>1, <2>1, ModSmall
    <2> HIDE DEF m
    <2>5. rv_mulhu(a, b) = p \div m /\ Wrap(a * b) = p % m
      BY <2>2, <2>4
    <2> DEFINE q == p \div m
               r == p % m
    <2>6. p = m * q + r /\ m \in Int /\ q \in Int /\ r \in Int
      BY <1>1, <2>1, <2>3, DivMod DEF m
    <2> HIDE DEF q, r
    <2>7. q * m + r = p
      BY <2>6
    <2> QED
      BY <2>5, <2>7 DEF m, p, q, r
  <1> QED
    BY <1>2, <1>3, <1>4 DEF ProductHalves, muldiv

-----------------------------------------------------------------------------
(* The software multiplication *)

\* The product of two digits of base h, and room for a carry beside it.
LEMMA DigitProduct ==
    ASSUME NEW h \in Nat, h >= 4, NEW x \in 0 .. h - 1, NEW y \in 0 .. h - 1
    PROVE  /\ x * y \in Nat
           /\ (x * y) \div h \in 0 .. h - 1
           /\ \A c \in 0 .. h - 1 : x * y + c \in 0 .. h * h - 1
  <1>1. x * y \in Nat /\ (x * y) \div h \in 0 .. h - 1
    BY UnsignedProduct
  <1>2. x * y <= x * (h - 1) /\ (h - 1) * x <= (h - 1) * (h - 1)
    BY TimesMonotonic
  <1>3. x * (h - 1) = (h - 1) * x /\ (h - 1) * (h - 1) = h * h - 2 * h + 1
    OBVIOUS
  <1>4. (h - 1) * x \in Int /\ h * h \in Int
    OBVIOUS
  <1> QED
    BY <1>1, <1>2, <1>3, <1>4

\* The sum of the partial products, carried digit by digit.
LEMMA PartialProducts ==
    ASSUME NEW h \in Int, NEW x0 \in Int, NEW x1 \in Int, NEW y0 \in Int, NEW y1 \in Int,
           NEW c0 \in Int, NEW r0 \in Int, x0 * y0 = h * c0 + r0,
           NEW c1 \in Int, NEW r1 \in Int, x1 * y0 + c0 = h * c1 + r1,
           NEW c2 \in Int, NEW r2 \in Int, x0 * y1 + r1 = h * c2 + r2
    PROVE  (h * x1 + x0) * (h * y1 + y0)
              = (h * h) * (x1 * y1 + c1 + c2) + (h * r2 + r0)
  <1>1. (h * x1 + x0) * (h * y1 + y0)
           = (h * h) * (x1 * y1) + h * (x1 * y0) + h * (x0 * y1) + x0 * y0
    OBVIOUS
  <1>2. x1 * y0 = h * c1 + r1 - c0 /\ x0 * y1 = h * c2 + r2 - r1
    <2>1. x1 * y0 \in Int /\ x0 * y1 \in Int /\ h * c1 \in Int /\ h * c2 \in Int
      OBVIOUS
    <2> QED
      BY <2>1
  <1>3. h * (h * c1 + r1 - c0) = (h * h) * c1 + h * r1 - h * c0
    OBVIOUS
  <1>4. h * (h * c2 + r2 - r1) = (h * h) * c2 + h * r2 - h * r1
    OBVIOUS
  <1>5. (h * h) * (x1 * y1 + c1 + c2) = (h * h) * (x1 * y1) + (h * h) * c1 + (h * h) * c2
    OBVIOUS
  <1>6. /\ (h * h) * (x1 * y1) \in Int /\ (h * h) * c1 \in Int /\ (h * h) * c2 \in Int
        /\ h * r1 \in Int /\ h * r2 \in Int /\ h * c0 \in Int
    OBVIOUS
  <1> QED
    BY <1>1, <1>2, <1>3, <1>4, <1>5, <1>6

\* mulhudw: no sum wraps and no carry is lost.
LEMMA SoftwareHighHalf ==
    ASSUME RV64, NEW x \in Word, NEW y \in Word
    PROVE  mulhudw(x, y) = (x * y) \div RegMod
  <1> DEFINE h  == WordMod
             m  == RegMod
             x0 == x % h
             x1 == x \div h
             y0 == y % h
             y1 == y \div h
             c0 == (x0 * y0) \div h
             r0 == (x0 * y0) % h
             u  == x1 * y0 + c0
             c1 == u \div h
             r1 == u % h
             v  == x0 * y1 + r1
             c2 == v \div h
             r2 == v % h
             s  == x1 * y1 + c1 + c2
  <1>1. h \in Nat /\ h >= 4 /\ m \in Nat /\ m = h * h /\ m >= 4 /\ x \in 0 .. m - 1 /\ y \in 0 .. m - 1
    BY Moduli DEF Word
  <1>2. mulhudw(x, y) =
           (((x1 * y1) % m) + (((((x1 * y0) % m) + c0) % m) \div h)
              + ((((x0 * y1) % m) + (((((x1 * y0) % m) + c0) % m) % h)) % m) \div h) % m
    BY DEF mulhudw, Wrap
  <1> HIDE DEF h, m
  <1>3. ASSUME NEW z \in 0 .. m - 1
        PROVE  z % h \in 0 .. h - 1 /\ z \div h \in 0 .. h - 1 /\ z = h * (z \div h) + (z % h)
    <2> DEFINE k == z \div h
               t == z % h
    <2>1. k \in Int /\ t \in 0 .. h - 1 /\ z = h * k + t
      BY <1>1, <1>3, DivMod
    <2> HIDE DEF k, t
    <2>2. h * k \in Int /\ h * h \in Int
      BY <1>1, <2>1
    <2>3. CASE k >= h
      <3>1. h * h <= h * k
        BY <1>1, <2>1, <2>3, TimesMonotonic
      <3> QED
        BY <1>1, <1>3, <2>1, <2>2, <3>1
    <2>4. CASE k < 0
      <3>1. h * k <= h * (-1) /\ h * (-1) = -h
        BY <1>1, <2>1, <2>4, TimesMonotonic
      <3> QED
        BY <1>1, <1>3, <2>1, <2>2, <3>1
    <2> QED
      BY <1>1, <2>1, <2>3, <2>4 DEF k, t
  <1>4. /\ x0 \in 0 .. h - 1 /\ x1 \in 0 .. h - 1 /\ x = h * x1 + x0
        /\ y0 \in 0 .. h - 1 /\ y1 \in 0 .. h - 1 /\ y = h * y1 + y0
    BY <1>1, <1>3
  <1> HIDE DEF x0, x1, y0, y1
  <1>5. /\ x0 * y0 \in 0 .. m - 1 /\ x1 * y0 \in 0 .. m - 1
        /\ x0 * y1 \in 0 .. m - 1 /\ x1 * y1 \in 0 .. m - 1
    <2>1. 0 \in 0 .. h - 1
      BY <1>1
    <2>2. /\ x0 * y0 + 0 \in 0 .. m - 1 /\ x1 * y0 + 0 \in 0 .. m - 1
          /\ x0 * y1 + 0 \in 0 .. m - 1 /\ x1 * y1 + 0 \in 0 .. m - 1
      BY <1>1, <1>4, <2>1, DigitProduct
    <2>3. x0 * y0 \in Int /\ x1 * y0 \in Int /\ x0 * y1 \in Int /\ x1 * y1 \in Int
      BY <1>4
    <2> QED
      BY <2>2, <2>3
  <1>6. c0 \in 0 .. h - 1 /\ r0 \in 0 .. h - 1 /\ x0 * y0 = h * c0 + r0
    BY <1>3, <1>5
  <1> HIDE DEF c0, r0
  <1>7. u \in 0 .. m - 1
    BY <1>1, <1>4, <1>6, DigitProduct
  <1>8. c1 \in 0 .. h - 1 /\ r1 \in 0 .. h - 1 /\ u = h * c1 + r1
    BY <1>3, <1>7
  <1>9. v \in 0 .. m - 1
    BY <1>1, <1>4, <1>8, DigitProduct
  <1>10. c2 \in 0 .. h - 1 /\ r2 \in 0 .. h - 1 /\ v = h * c2 + r2
    BY <1>3, <1>9
  <1>11. mulhudw(x, y) = s % m
    <2>1. (x1 * y1) % m = x1 * y1 /\ (x1 * y0) % m = x1 * y0 /\ (x0 * y1) % m = x0 * y1
      BY <1>1, <1>5, ModSmall
    <2>2. u % m = u /\ v % m = v
      BY <1>1, <1>7, <1>9, ModSmall
    <2>3. (((x1 * y0) % m) + c0) % m = u
      BY <2>1, <2>2
    <2>4. (((x0 * y1) % m) + (u % h)) % m = v
      BY <2>1, <2>2
    <2> QED
      BY <1>2, <2>1, <2>3, <2>4, Zenon
  <1> DEFINE w == h * r2 + r0
  <1>12. x * y = m * s + w
    <2> HIDE DEF c1, r1, c2, r2
    <2> QED
      BY <1>1, <1>4, <1>6, <1>8, <1>10, PartialProducts
  <1> HIDE DEF u, c1, r1, v, c2, r2
  <1>13. w \in 0 .. m - 1 /\ s \in Int
    <2>1. h * r2 <= h * (h - 1) /\ h * (h - 1) = h * h - h /\ h * r2 \in Nat
      BY <1>1, <1>10, TimesMonotonic
    <2>2. s \in Int
      BY <1>5, <1>8, <1>10
    <2> QED
      BY <1>1, <1>6, <2>1, <2>2
  <1> HIDE DEF s, w
  <1>14. x * y \in Nat /\ (x * y) \div m \in 0 .. m - 1
    BY <1>1, UnsignedProduct, Zenon
  <1>15. (x * y) \div m = s
    <2>1. x * y \in Int /\ m > 0
      BY <1>1, <1>14
    <2> QED
      BY <1>1, <1>12, <1>13, <2>1, DivUnique, Zenon
  <1>16. s % m = s
    BY <1>1, <1>14, <1>15, ModSmall
  <1> QED
    BY <1>11, <1>15, <1>16 DEF m

\* Which multiples of the operands the signed forms take away.
LEMMA SignedHighHalf ==
    ASSUME NEW x \in Word, NEW y \in Word
    PROVE  LET q == (x * y) \div RegMod
               e == IF Signed(x) < 0 THEN y ELSE 0
               f == IF Signed(y) < 0 THEN x ELSE 0
           IN  /\ rv_mulh(x, y) = Wrap(q - e - f)
               /\ rv_mulhsu(x, y) = Wrap(q - e)
               /\ rv_mulhu(x, y) = Wrap(q)
  <1> DEFINE m == RegMod
             s == Signed(x)
             t == Signed(y)
             i == Truth(s < 0)
             j == Truth(t < 0)
             q == (x * y) \div m
             e == IF s < 0 THEN y ELSE 0
             f == IF t < 0 THEN x ELSE 0
             g == IF s < 0 /\ t < 0 THEN 1 ELSE 0
  <1>1. /\ m \in Nat /\ m > 0 /\ x \in Int /\ y \in Int
        /\ s \in Int /\ t \in Int /\ i \in {0, 1} /\ j \in {0, 1}
        /\ s = x - m * i /\ t = y - m * j
    BY Moduli, SignedFits DEF Word
  <1>2. i * y = e /\ j * x = f /\ i * j = g /\ e \in Int /\ f \in Int /\ g \in Int
    BY <1>1 DEF Truth
  <1>3. x * y \in Int /\ q \in Int
    BY <1>1, DivMod
  <1>4. /\ rv_mulh(x, y) = ((s * t) \div m) % m
        /\ rv_mulhsu(x, y) = ((s * y) \div m) % m
        /\ rv_mulhu(x, y) = ((x * y) \div m) % m
    <2>1. s * t \in Int /\ s * y \in Int
      BY <1>1
    <2> QED
      BY <1>3, <2>1, HighHalfIs DEF rv_mulh, rv_mulhsu, rv_mulhu, Wrap
  <1> HIDE DEF m, s, t, i, j, e, f, g
  <1>5. s * t = x * y + m * (m * g - e - f) /\ s * y = x * y + m * (-e)
    <2>1. /\ (x - m * i) * (y - m * j) = x * y + m * (m * (i * j) - i * y - j * x)
          /\ (x - m * i) * y = x * y + m * (-(i * y))
      BY <1>1
    <2> QED
      BY <1>1, <1>2, <2>1
  <1>6. m * g - e - f \in Int /\ -e \in Int
    BY <1>1, <1>2
  <1>7. (s * t) \div m = q + (m * g - e - f) /\ (s * y) \div m = q + (-e)
    <2>1. (x * y + m * (m * g - e - f)) \div m = q + (m * g - e - f)
      BY <1>1, <1>3, <1>6, DivShift, Zenon
    <2>2. (x * y + m * (-e)) \div m = q + (-e)
      BY <1>1, <1>3, <1>6, DivShift, Zenon
    <2> QED
      BY <1>5, <2>1, <2>2, Zenon
  <1> HIDE DEF q
  <1>8. q + (m * g - e - f) = (q - e - f) + m * g /\ q - e - f \in Int /\ q + (-e) = q - e
    <2>1. m * g \in Int
      BY <1>1, <1>2
    <2> QED
      BY <1>2, <1>3, <2>1
  <1>9. ((q - e - f) + m * g) % m = (q - e - f) % m
    <2> DEFINE d == q - e - f
    <2>1. d \in Int /\ m \in Nat /\ m > 0 /\ g \in Int
      BY <1>1, <1>2, <1>8
    <2> HIDE DEF d
    <2>2. (d + m * g) % m = d % m
      BY <2>1, DivShift
    <2> QED
      BY <2>2 DEF d
  <1>10. /\ rv_mulh(x, y) = (q - e - f) % m
         /\ rv_mulhsu(x, y) = (q - e) % m
         /\ rv_mulhu(x, y) = q % m
    BY <1>4, <1>7, <1>8, <1>9 DEF q
  <1> QED
    BY <1>10 DEF m, q, e, f, s, t, Wrap

\* What SoftwareProductAgrees says of a state, for any operands.
LEMMA SoftwareAgrees ==
    ASSUME RV64, a \in Word, b \in Word
    PROVE  SoftwareProductAgrees
  <1>1. mulhudw(a, b) = (a * b) \div RegMod
    BY SoftwareHighHalf
  <1>2. Wrap((a * b) \div RegMod) = (a * b) \div RegMod
    <2>1. RegMod \in Nat /\ (a * b) \div RegMod \in 0 .. RegMod - 1
      BY Moduli, UnsignedProduct DEF Word
    <2> QED
      BY <2>1, ModSmall DEF Wrap
  <1> QED
    BY <1>1, <1>2, SignedHighHalf DEF SoftwareProductAgrees, soft_mulh, soft_mulhsu, soft_mulhu

-----------------------------------------------------------------------------
(* Division *)

\* The magnitudes of quotient and remainder.
LEMMA MagnitudeDivision ==
    ASSUME NEW x \in Int, NEW y \in Int, y # 0
    PROVE  LET k == Magnitude(x) \div Magnitude(y)
               r == Magnitude(x) - Magnitude(y) * k
           IN  /\ k \in Nat /\ r \in Nat /\ r < Magnitude(y) /\ k <= Magnitude(x)
               /\ Magnitude(y) >= 2 => 2 * k <= Magnitude(x)
  <1> DEFINE c == Magnitude(x)
             d == Magnitude(y)
             k == c \div d
             t == c % d
  <1>1. c \in Nat /\ d \in Nat /\ d > 0
    BY DEF Magnitude
  <1> HIDE DEF c, d
  <1>2. k \in Int /\ t \in 0 .. d - 1 /\ c = d * k + t
    BY <1>1, DivMod
  <1> HIDE DEF k, t
  <1>3. d * k \in Int
    BY <1>1, <1>2
  <1>4. k >= 0
    <2>1. CASE k < 0
      <3>1. d * k <= d * (-1) /\ d * (-1) = -d
        BY <1>1, <1>2, <2>1, TimesMonotonic
      <3> QED
        BY <1>1, <1>2, <1>3, <3>1
    <2> QED
      BY <1>2, <2>1
  <1>5. k * 1 <= k * d /\ k * d = d * k
    BY <1>1, <1>2, <1>4, TimesMonotonic
  <1>6. d >= 2 => k * 2 <= k * d
    BY <1>1, <1>2, <1>4, TimesMonotonic
  <1>7. /\ k \in Nat /\ c - d * k \in Nat /\ c - d * k < d /\ k <= c
        /\ d >= 2 => 2 * k <= c
    BY <1>1, <1>2, <1>3, <1>4, <1>5, <1>6
  <1> QED
    BY <1>7 DEF c, d, k

\* The product of the divisor and the quotient, by the signs of the operands.
LEMMA SignedRemainder ==
    ASSUME NEW x \in Int, NEW y \in Int, y # 0
    PROVE  LET k == Magnitude(x) \div Magnitude(y)
               r == Magnitude(x) - Magnitude(y) * k
           IN  /\ Quotient(x, y) = IF (x < 0) = (y < 0) THEN k ELSE -k
               /\ Remainder(x, y) = IF x < 0 THEN -r ELSE r
               /\ y * Quotient(x, y) + Remainder(x, y) = x
  <1> DEFINE k == Magnitude(x) \div Magnitude(y)
             q == Quotient(x, y)
  <1>1. k \in Int
    BY MagnitudeDivision
  <1>2. q = IF (x < 0) = (y < 0) THEN k ELSE -k
    BY DEF Quotient
  <1>3. Remainder(x, y) = x - y * q
    BY DEF Remainder
  <1> HIDE DEF k, q
  <1>4. q \in Int
    BY <1>1, <1>2
  <1>5. y * q \in Int /\ y * k \in Int /\ (-y) * k = -(y * k) /\ y * (-k) = -(y * k)
    BY <1>1, <1>4
  <1>6. x - y * q = IF x < 0 THEN -(Magnitude(x) - Magnitude(y) * k)
                    ELSE Magnitude(x) - Magnitude(y) * k
    <2>1. CASE x < 0 /\ y < 0
      BY <1>2, <1>5, <2>1 DEF Magnitude
    <2>2. CASE x < 0 /\ ~ y < 0
      BY <1>2, <1>5, <2>2 DEF Magnitude
    <2>3. CASE ~ x < 0 /\ y < 0
      BY <1>2, <1>5, <2>3 DEF Magnitude
    <2>4. CASE ~ x < 0 /\ ~ y < 0
      BY <1>2, <1>5, <2>4 DEF Magnitude
    <2> QED
      BY <2>1, <2>2, <2>3, <2>4
  <1>7. y * q + (x - y * q) = x
    BY <1>5
  <1> QED
    BY <1>2, <1>3, <1>6, <1>7 DEF k, q

\* Zero and a modulus are multiples of the modulus.
LEMMA Multiples ==
    ASSUME NEW m \in Nat, m > 0
    PROVE  0 % m = 0 /\ m % m = 0
  <1>1. m = m * 1 + 0 /\ 0 \in 0 .. m - 1
    OBVIOUS
  <1> QED
    BY <1>1, DivUnique, ModSmall

\* Signed division, of any modulus: the results fit together and fit the type.
LEMMA SignedDivision ==
    ASSUME NEW m \in Nat, m >= 4, NEW x \in Int, NEW y \in Int, Fits(x, m), Fits(y, m)
    PROVE  LET q == rv_div(x, y, m)
               r == rv_rem(x, y, m)
           IN  /\ q \in Int /\ r \in Int /\ Fits(q, m) /\ Fits(r, m)
               /\ DividesInto(x, y, q, r, m)
  <1> DEFINE q == rv_div(x, y, m)
             r == rv_rem(x, y, m)
  <1>1. CASE y = 0
    <2>1. q = -1 /\ r = x
      BY <1>1 DEF rv_div, rv_rem
    <2>2. (-1 + 1) % m = 0
      BY Multiples
    <2> QED
      BY <1>1, <2>1, <2>2 DEF DividesInto, Fits
  <1>2. CASE 2 * x = -m /\ y = -1
    <2>1. q = x /\ r = 0
      BY <1>2 DEF rv_div, rv_rem
    <2>2. x * y + 0 - x = m
      BY <1>2
    <2>3. (x * y + 0 - x) % m = 0
      BY <2>2, Multiples
    <2> QED
      BY <1>2, <2>1, <2>3 DEF DividesInto, Fits, Magnitude
  <1>3. CASE y # 0 /\ ~ (2 * x = -m /\ y = -1)
    <2> DEFINE k == Magnitude(x) \div Magnitude(y)
               t == Magnitude(x) - Magnitude(y) * k
    <2>1. /\ k \in Nat /\ t \in Nat /\ t < Magnitude(y) /\ k <= Magnitude(x)
          /\ Magnitude(y) >= 2 => 2 * k <= Magnitude(x)
      BY <1>3, MagnitudeDivision
    <2>2. q = Quotient(x, y) /\ r = Remainder(x, y)
      BY <1>3 DEF rv_div, rv_rem
    <2>3. /\ q = IF (x < 0) = (y < 0) THEN k ELSE -k
          /\ r = IF x < 0 THEN -t ELSE t
          /\ y * q + r = x
      BY <1>3, <2>2, SignedRemainder
    <2>4. t <= Magnitude(x)
      <3>1. Magnitude(y) * k \in Nat /\ Magnitude(x) \in Nat
        BY <2>1 DEF Magnitude
      <3> QED
        BY <3>1
    <2> HIDE DEF k, t, q, r
    <2>5. q \in Int /\ r \in Int
      BY <2>1, <2>3
    <2>6. -m <= 2 * x /\ 2 * x < m /\ -m <= 2 * y /\ 2 * y < m
      BY DEF Fits
    <2>7. Fits(q, m)
      <3>1. CASE Magnitude(y) >= 2
        BY <2>1, <2>3, <2>6, <3>1 DEF Fits, Magnitude
      <3>2. CASE Magnitude(y) = 1
        BY <1>3, <2>1, <2>3, <2>6, <3>2 DEF Fits, Magnitude
      <3> QED
        BY <1>3, <3>1, <3>2 DEF Magnitude
    <2>8. Fits(r, m)
      BY <2>1, <2>3, <2>4, <2>6 DEF Fits, Magnitude
    <2>9. q * y + r - x = 0
      <3>1. y * q \in Int /\ q * y = y * q
        BY <2>5
      <3> QED
        BY <2>3, <2>5, <3>1
    <2>10. (q * y + r - x) % m = 0
      BY <2>9, Multiples
    <2>11. Magnitude(r) < Magnitude(y) /\ (r = 0 \/ (r < 0) = (x < 0))
      BY <2>1, <2>3 DEF Magnitude
    <2>12. DividesInto(x, y, q, r, m)
      BY <1>3, <2>10, <2>11 DEF DividesInto
    <2> QED
      BY <2>5, <2>7, <2>8, <2>12 DEF q, r
  <1> QED
    BY <1>1, <1>2, <1>3

\* Unsigned division, of any modulus.
LEMMA UnsignedDivision ==
    ASSUME NEW m \in Nat, m >= 4, NEW x \in 0 .. m - 1, NEW y \in 0 .. m - 1
    PROVE  LET q == rv_divu(x, y, m)
               r == rv_remu(x, y, m)
           IN  /\ q \in 0 .. m - 1 /\ r \in 0 .. m - 1
               /\ DividesInto(x, y, q, r, m)
  <1> DEFINE q == rv_divu(x, y, m)
             r == rv_remu(x, y, m)
  <1>1. CASE y = 0
    <2>1. q = m - 1 /\ r = x
      BY <1>1 DEF rv_divu, rv_remu
    <2>2. ((m - 1) + 1) % m = 0
      BY Multiples
    <2> QED
      BY <1>1, <2>1, <2>2 DEF DividesInto
  <1>2. CASE y # 0
    <2>1. q = x \div y /\ r = x % y
      BY <1>2 DEF rv_divu, rv_remu
    <2>2. q \in Int /\ r \in 0 .. y - 1 /\ x = y * q + r
      BY <1>2, <2>1, DivMod
    <2>3. Magnitude(x) = x /\ Magnitude(y) = y
      BY DEF Magnitude
    <2>4. q \in Nat /\ q <= x
      <3>1. /\ Magnitude(x) \div Magnitude(y) \in Nat
            /\ Magnitude(x) \div Magnitude(y) <= Magnitude(x)
        BY <1>2, MagnitudeDivision
      <3> QED
        BY <2>1, <2>3, <3>1
    <2> HIDE DEF q, r
    <2>5. y * q \in Nat /\ q * y = y * q
      BY <2>4
    <2>6. q * y + r - x = 0
      BY <2>2, <2>5
    <2>7. (q * y + r - x) % m = 0
      BY <2>6, Multiples
    <2>8. Magnitude(r) < Magnitude(y) /\ ~ r < 0 /\ ~ x < 0
      BY <2>2 DEF Magnitude
    <2>9. DividesInto(x, y, q, r, m)
      BY <1>2, <2>7, <2>8 DEF DividesInto
    <2>10. q \in 0 .. m - 1 /\ r \in 0 .. m - 1
      BY <2>2, <2>4, <2>5
    <2> QED
      BY <2>9, <2>10 DEF q, r
  <1> QED
    BY <1>1, <1>2

-----------------------------------------------------------------------------
(* Word instructions *)

\* The modulus of a register is a multiple of that of a word.
LEMMA WordDivides == \E k \in Nat : k > 0 /\ RegMod = WordMod * k
  <1>1. WordMod = WordMod * 1
    BY Moduli
  <1> QED
    BY <1>1, Moduli

\* The low half of a converted word is the word.
LEMMA LowFromLow ==
    ASSUME NEW n \in Int
    PROVE  FromLow(n) \in Word /\ Low(FromLow(n)) = n % WordMod
  <1> DEFINE h == WordMod
             m == RegMod
             u == n % h
             e == IF 2 * u >= h THEN -1 ELSE 0
             z == IF 2 * u >= h THEN u - h ELSE u
             w == z % m
             j == z \div m
  <1>1. h \in Nat /\ h > 0 /\ m \in Nat /\ m > 0
    BY Moduli
  <1>2. FromLow(n) = w /\ Low(FromLow(n)) = w % h
    BY DEF FromLow, SignExtend, Low, Wrap
  <1>3. PICK k \in Nat : m = h * k
    BY WordDivides
  <1>4. Word = 0 .. m - 1
    BY DEF Word
  <1> HIDE DEF h, m
  <1>5. u \in 0 .. h - 1
    BY <1>1, DivMod
  <1> HIDE DEF u
  <1>6. z \in Int /\ e \in Int /\ z = u + h * e
    BY <1>1, <1>5
  <1> HIDE DEF z, e
  <1>7. w \in 0 .. m - 1 /\ j \in Int /\ z = m * j + w
    BY <1>1, <1>6, DivMod
  <1> HIDE DEF w, j
  <1>8. w = u + h * (e - k * j)
    <2>1. h * (e - k * j) = h * e - (h * k) * j /\ h * e \in Int /\ (h * k) * j \in Int
      BY <1>1, <1>3, <1>6, <1>7
    <2> QED
      BY <1>1, <1>3, <1>5, <1>6, <1>7, <2>1
  <1>9. e - k * j \in Int /\ u \in Int
    BY <1>1, <1>3, <1>5, <1>6, <1>7
  <1>10. (u + h * (e - k * j)) % h = u % h
    BY <1>1, <1>9, DivShift, Zenon
  <1>11. u % h = u
    BY <1>1, <1>5, ModSmall
  <1> QED
    BY <1>2, <1>4, <1>7, <1>8, <1>10, <1>11 DEF u, h

\* The low half of a register, unsigned and signed, is in the range of its type.
LEMMA SignedLowFits ==
    ASSUME NEW w \in Word
    PROVE  Low(w) \in 0 .. WordMod - 1 /\ SignedLow(w) \in Int /\ Fits(SignedLow(w), WordMod)
  <1> DEFINE h == WordMod
             u == w % h
  <1>1. h \in Nat /\ h > 0 /\ w \in Int
    BY Moduli DEF Word
  <1>2. Low(w) = u /\ SignedLow(w) = IF 2 * u >= h THEN u - h ELSE u
    BY DEF Low, SignedLow
  <1> HIDE DEF h
  <1>3. u \in 0 .. h - 1
    BY <1>1, DivMod
  <1> HIDE DEF u
  <1> QED
    BY <1>1, <1>2, <1>3 DEF Fits, h

\* The conversion of a word to a register and back keeps what fits.
LEMMA SignedLowFromLow ==
    ASSUME NEW n \in Int, Fits(n, WordMod)
    PROVE  SignedLow(FromLow(n)) = n
  <1> DEFINE h == WordMod
             u == n % h
  <1>1. h \in Nat /\ h >= 4 /\ -h <= 2 * n /\ 2 * n < h
    BY Moduli DEF Fits
  <1>2. SignedLow(FromLow(n)) = IF 2 * u >= h THEN u - h ELSE u
    BY LowFromLow DEF SignedLow
  <1> HIDE DEF h
  <1>3. CASE n >= 0
    <2>1. u = n
      BY <1>1, <1>3, ModSmall
    <2> QED
      BY <1>1, <1>2, <2>1
  <1>4. CASE n < 0
    <2>1. n = h * (-1) + (n + h) /\ n + h \in 0 .. h - 1
      BY <1>1, <1>4
    <2>2. u = n + h
      BY <1>1, <2>1, DivUnique
    <2> QED
      BY <1>1, <1>2, <1>4, <2>2
  <1> QED
    BY <1>3, <1>4

\* What DivisionIsEuclidean says of a state, for any operands.
LEMMA DivisionsFit ==
    ASSUME a \in Word, b \in Word
    PROVE  DivisionIsEuclidean
  <1>1. RegMod \in Nat /\ RegMod >= 4 /\ WordMod \in Nat /\ WordMod >= 4
    BY Moduli
  <1>2. DividesInto(Signed(a), Signed(b), Signed(muldiv(4, a, b)), Signed(muldiv(6, a, b)), RegMod)
    <2> DEFINE x == Signed(a)
               y == Signed(b)
    <2>1. x \in Int /\ y \in Int /\ Fits(x, RegMod) /\ Fits(y, RegMod)
      BY SignedFits
    <2>2. muldiv(4, a, b) = Wrap(rv_div(x, y, RegMod)) /\ muldiv(6, a, b) = Wrap(rv_rem(x, y, RegMod))
      BY DEF muldiv
    <2> HIDE DEF x, y
    <2>3. /\ rv_div(x, y, RegMod) \in Int /\ Fits(rv_div(x, y, RegMod), RegMod)
          /\ rv_rem(x, y, RegMod) \in Int /\ Fits(rv_rem(x, y, RegMod), RegMod)
          /\ DividesInto(x, y, rv_div(x, y, RegMod), rv_rem(x, y, RegMod), RegMod)
      BY <1>1, <2>1, SignedDivision
    <2>4. /\ Signed(Wrap(rv_div(x, y, RegMod))) = rv_div(x, y, RegMod)
          /\ Signed(Wrap(rv_rem(x, y, RegMod))) = rv_rem(x, y, RegMod)
      BY <2>3, SignedWrap
    <2> QED
      BY <2>2, <2>3, <2>4 DEF x, y
  <1>3. DividesInto(a, b, muldiv(5, a, b), muldiv(7, a, b), RegMod)
    <2>1. a \in 0 .. RegMod - 1 /\ b \in 0 .. RegMod - 1
      BY DEF Word
    <2> QED
      BY <1>1, <2>1, UnsignedDivision DEF muldiv
  <1>4. DividesInto(SignedLow(a), SignedLow(b),
                    SignedLow(muldivw(4, a, b)), SignedLow(muldivw(6, a, b)), WordMod)
    <2> DEFINE x == SignedLow(a)
               y == SignedLow(b)
    <2>1. x \in Int /\ y \in Int /\ Fits(x, WordMod) /\ Fits(y, WordMod)
      BY SignedLowFits
    <2>2. /\ muldivw(4, a, b) = FromLow(rv_div(x, y, WordMod))
          /\ muldivw(6, a, b) = FromLow(rv_rem(x, y, WordMod))
      BY DEF muldivw
    <2> HIDE DEF x, y
    <2>3. /\ rv_div(x, y, WordMod) \in Int /\ Fits(rv_div(x, y, WordMod), WordMod)
          /\ rv_rem(x, y, WordMod) \in Int /\ Fits(rv_rem(x, y, WordMod), WordMod)
          /\ DividesInto(x, y, rv_div(x, y, WordMod), rv_rem(x, y, WordMod), WordMod)
      BY <1>1, <2>1, SignedDivision
    <2>4. /\ SignedLow(FromLow(rv_div(x, y, WordMod))) = rv_div(x, y, WordMod)
          /\ SignedLow(FromLow(rv_rem(x, y, WordMod))) = rv_rem(x, y, WordMod)
      BY <2>3, SignedLowFromLow
    <2> QED
      BY <2>2, <2>3, <2>4 DEF x, y
  <1>5. DividesInto(Low(a), Low(b), Low(muldivw(5, a, b)), Low(muldivw(7, a, b)), WordMod)
    <2> DEFINE x == Low(a)
               y == Low(b)
    <2>1. x \in 0 .. WordMod - 1 /\ y \in 0 .. WordMod - 1
      BY SignedLowFits
    <2>2. /\ muldivw(5, a, b) = FromLow(rv_divu(x, y, WordMod))
          /\ muldivw(7, a, b) = FromLow(rv_remu(x, y, WordMod))
      BY DEF muldivw
    <2> HIDE DEF x, y
    <2>3. /\ rv_divu(x, y, WordMod) \in 0 .. WordMod - 1
          /\ rv_remu(x, y, WordMod) \in 0 .. WordMod - 1
          /\ DividesInto(x, y, rv_divu(x, y, WordMod), rv_remu(x, y, WordMod), WordMod)
      BY <1>1, <2>1, UnsignedDivision
    <2>4. ASSUME NEW n \in 0 .. WordMod - 1 PROVE Low(FromLow(n)) = n
      <3>1. n % WordMod = n /\ n \in Int
        BY <1>1, <2>4, ModSmall
      <3> QED
        BY <3>1, LowFromLow
    <2>5. /\ Low(FromLow(rv_divu(x, y, WordMod))) = rv_divu(x, y, WordMod)
          /\ Low(FromLow(rv_remu(x, y, WordMod))) = rv_remu(x, y, WordMod)
      BY <2>3, <2>4
    <2> QED
      BY <2>2, <2>3, <2>5 DEF x, y
  <1> QED
    BY <1>2, <1>3, <1>4, <1>5 DEF DivisionIsEuclidean

\* A word in a register is sign-extended.
LEMMA FromLowExtended ==
    ASSUME NEW n \in Int
    PROVE  Signed(FromLow(n)) = SignedLow(FromLow(n))
  <1> DEFINE h == WordMod
             m == RegMod
             u == n % h
             z == IF 2 * u >= h THEN u - h ELSE u
  <1>1. h \in Nat /\ h > 0 /\ m \in Nat
    BY Moduli
  <1>2. m >= h
    <2>1. h * h >= h
      BY <1>1
    <2> QED
      BY <1>1, <2>1, Moduli
  <1>3. FromLow(n) = Wrap(z) /\ SignedLow(FromLow(n)) = z
    BY LowFromLow DEF FromLow, SignExtend, SignedLow
  <1>4. u \in 0 .. h - 1
    BY <1>1, DivMod
  <1>5. z \in Int /\ Fits(z, m)
    <2> HIDE DEF h, m, u
    <2> QED
      BY <1>1, <1>2, <1>4 DEF Fits
  <1>6. Signed(Wrap(z)) = z
    BY <1>5, SignedWrap
  <1> QED
    BY <1>3, <1>6

\* Cutting to a register first, or cutting twice, does not change the low half.
LEMMA LowTwice ==
    ASSUME NEW n \in Int
    PROVE  Low(Wrap(n)) = Low(n) /\ Low(Low(n)) = Low(n)
  <1> DEFINE h == WordMod
             m == RegMod
             r == n % m
             q == n \div m
  <1>1. h \in Nat /\ h > 0 /\ m \in Nat /\ m > 0
    BY Moduli
  <1>2. Low(Wrap(n)) = r % h /\ Low(Low(n)) = (n % h) % h /\ Low(n) = n % h
    BY DEF Low, Wrap
  <1>3. PICK k \in Nat : m = h * k
    BY WordDivides
  <1> HIDE DEF h, m
  <1>4. (n % h) % h = n % h
    BY <1>1, DivMod, ModSmall
  <1>5. r \in Int /\ q \in Int /\ n = m * q + r
    BY <1>1, DivMod
  <1> HIDE DEF r, q
  <1>6. n = r + h * (k * q) /\ k * q \in Int
    BY <1>1, <1>3, <1>5
  <1>7. (r + h * (k * q)) % h = r % h
    BY <1>1, <1>5, <1>6, DivShift, Zenon
  <1> QED
    BY <1>2, <1>4, <1>6, <1>7

\* Sums, differences and products of low halves have the low half of the result.
LEMMA LowHalves ==
    ASSUME NEW x \in Int, NEW y \in Int
    PROVE  /\ Low(Low(x) + Low(y)) = Low(x + y)
           /\ Low(Low(x) - Low(y)) = Low(x - y)
           /\ Low(Low(x) * Low(y)) = Low(x * y)
  <1> DEFINE h == WordMod
             c == x % h
             d == y % h
             i == x \div h
             j == y \div h
  <1>1. h \in Nat /\ h > 0
    BY Moduli
  <1>2. /\ Low(x) = c /\ Low(y) = d
        /\ Low(c + d) = (c + d) % h /\ Low(c - d) = (c - d) % h /\ Low(c * d) = (c * d) % h
        /\ Low(x + y) = (x + y) % h /\ Low(x - y) = (x - y) % h /\ Low(x * y) = (x * y) % h
    BY DEF Low
  <1> HIDE DEF h
  <1>3. c \in Int /\ d \in Int /\ i \in Int /\ j \in Int /\ x = h * i + c /\ y = h * j + d
    BY <1>1, DivMod
  <1> HIDE DEF c, d, i, j
  <1>4. /\ (h * i + c) + (h * j + d) = (c + d) + h * (i + j)
        /\ (h * i + c) - (h * j + d) = (c - d) + h * (i - j)
        /\ (h * i + c) * (h * j + d) = (c * d) + h * (h * (i * j) + i * d + c * j)
    BY <1>1, <1>3
  <1>5. /\ c + d \in Int /\ c - d \in Int /\ c * d \in Int
        /\ i + j \in Int /\ i - j \in Int /\ h * (i * j) + i * d + c * j \in Int
    BY <1>1, <1>3
  <1>6. /\ ((c + d) + h * (i + j)) % h = (c + d) % h
        /\ ((c - d) + h * (i - j)) % h = (c - d) % h
        /\ ((c * d) + h * (h * (i * j) + i * d + c * j)) % h = (c * d) % h
    BY <1>1, <1>5, DivShift, Zenon
  <1>7. /\ (x + y) % h = (c + d) % h
        /\ (x - y) % h = (c - d) % h
        /\ (x * y) % h = (c * d) % h
    BY <1>3, <1>4, <1>6, Zenon
  <1> QED
    BY <1>2, <1>7

\* What WordResults says of a state, for any operands.
LEMMA WordsExtended ==
    ASSUME a \in Word, b \in Word
    PROVE  WordResults
  <1> DEFINE x == Low(a)
             y == Low(b)
             s == SignedLow(a)
             t == SignedLow(b)
  <1>1. /\ RegMod \in Nat /\ WordMod \in Nat /\ WordMod >= 4 /\ a \in Int /\ b \in Int
        /\ x \in 0 .. WordMod - 1 /\ y \in 0 .. WordMod - 1
        /\ s \in Int /\ t \in Int /\ Fits(s, WordMod) /\ Fits(t, WordMod)
    BY Moduli, SignedLowFits DEF Word
  <1>2. Low(x) = x /\ Low(y) = y
    BY <1>1, LowTwice
  <1>3. SignedLow(x) = s /\ SignedLow(y) = t
    BY <1>2 DEF SignedLow
  <1>4. /\ x + y \in Int /\ x - y \in Int /\ x * y \in Int
        /\ rv_div(s, t, WordMod) \in Int /\ rv_rem(s, t, WordMod) \in Int
        /\ rv_divu(x, y, WordMod) \in Int /\ rv_remu(x, y, WordMod) \in Int
    <2>1. rv_div(s, t, WordMod) \in Int /\ rv_rem(s, t, WordMod) \in Int
      BY <1>1, SignedDivision
    <2>2. rv_divu(x, y, WordMod) \in 0 .. WordMod - 1 /\ rv_remu(x, y, WordMod) \in 0 .. WordMod - 1
      BY <1>1, UnsignedDivision
    <2>3. x + y \in Int /\ x - y \in Int /\ x * y \in Int
      <3> HIDE DEF x, y
      <3> QED
        BY <1>1
    <2> QED
      BY <1>1, <2>1, <2>2, <2>3
  <1>5. /\ aluw(0, a, b) = FromLow(x + y) /\ aluw(0, x, y) = FromLow(x + y)
        /\ aluw(8, a, b) = FromLow(x - y) /\ aluw(8, x, y) = FromLow(x - y)
    BY <1>2 DEF aluw
  <1>6. /\ muldivw(0, a, b) = FromLow(x * y) /\ muldivw(0, x, y) = FromLow(x * y)
        /\ muldivw(4, a, b) = FromLow(rv_div(s, t, WordMod))
        /\ muldivw(4, x, y) = FromLow(rv_div(s, t, WordMod))
        /\ muldivw(5, a, b) = FromLow(rv_divu(x, y, WordMod))
        /\ muldivw(5, x, y) = FromLow(rv_divu(x, y, WordMod))
        /\ muldivw(6, a, b) = FromLow(rv_rem(s, t, WordMod))
        /\ muldivw(6, x, y) = FromLow(rv_rem(s, t, WordMod))
        /\ muldivw(7, a, b) = FromLow(rv_remu(x, y, WordMod))
        /\ muldivw(7, x, y) = FromLow(rv_remu(x, y, WordMod))
    BY <1>2, <1>3 DEF muldivw
  <1>7. ASSUME NEW n \in Int
        PROVE  Signed(FromLow(n)) = SignedLow(FromLow(n)) /\ Low(FromLow(n)) = Low(n)
    BY <1>7, FromLowExtended, LowFromLow DEF Low
  <1>8. /\ Low(aluw(0, a, b)) = Low(alu(0, a, b))
        /\ Low(aluw(8, a, b)) = Low(alu(8, a, b))
        /\ Low(muldivw(0, a, b)) = Low(muldiv(0, a, b))
    <2>1. a + b \in Int /\ a - b \in Int /\ a * b \in Int
      BY <1>1
    <2>2. /\ Low(Wrap(a + b)) = Low(x + y)
          /\ Low(Wrap(a - b)) = Low(x - y)
          /\ Low(Wrap(a * b)) = Low(x * y)
      <3>1. /\ Low(Wrap(a + b)) = Low(a + b)
            /\ Low(Wrap(a - b)) = Low(a - b)
            /\ Low(Wrap(a * b)) = Low(a * b)
        BY <2>1, LowTwice, Zenon
      <3> QED
        BY <1>1, <3>1, LowHalves, Zenon
    <2>3. alu(0, a, b) = Wrap(a + b) /\ alu(8, a, b) = Wrap(a - b) /\ muldiv(0, a, b) = Wrap(a * b)
      BY DEF alu, muldiv
    <2>4. /\ Low(FromLow(x + y)) = Low(x + y) /\ Low(FromLow(x - y)) = Low(x - y)
          /\ Low(FromLow(x * y)) = Low(x * y)
      BY <1>4, <1>7
    <2> HIDE DEF x, y
    <2> QED
      BY <1>5, <1>6, <2>2, <2>3, <2>4
  <1> HIDE DEF x, y, s, t
  <1>9. ASSUME NEW op \in {0, 8}
        PROVE  aluw(op, a, b) = aluw(op, x, y) /\ Signed(aluw(op, a, b)) = SignedLow(aluw(op, a, b))
    BY <1>4, <1>5, <1>7, <1>9
  <1>10. ASSUME NEW op \in {0, 4, 5, 6, 7}
         PROVE  /\ muldivw(op, a, b) = muldivw(op, x, y)
                /\ Signed(muldivw(op, a, b)) = SignedLow(muldivw(op, a, b))
    BY <1>4, <1>6, <1>7, <1>10
  <1> QED
    BY <1>8, <1>9, <1>10 DEF WordResults, x, y

-----------------------------------------------------------------------------
(* The sweep *)

Registers == a \in Word /\ b \in Word

\* The operands are registers in every state.
LEMMA Operands == Spec => []Registers
  <1>1. Init => Registers
    BY Moduli DEF Init, Word, Registers
  <1>2. Registers /\ [Next]_<<a, b>> => Registers'
    <2> SUFFICES ASSUME a \in Word, b \in Word, [Next]_<<a, b>> PROVE a' \in Word /\ b' \in Word
      BY DEF Registers
    <2>1. CASE Next
      <3>1. RegMod \in Nat /\ RegMod > 0 /\ b + 1 \in Int /\ b' = (b + 1) % RegMod /\ a' = a
        BY <2>1, Moduli DEF Next, Word, Wrap
      <3> QED
        BY <3>1, DivMod DEF Word
    <2>2. CASE UNCHANGED <<a, b>>
      BY <2>2
    <2> QED
      BY <2>1, <2>2
  <1> QED
    BY <1>1, <1>2, PTL DEF Spec

\* MUL, MULH, MULHSU and MULHU of inc/mul.h return the halves of the exact
\* product, for every pair of operands and every register width.
THEOREM ProductsExact == Spec => []ProductHalves
  <1>1. Registers => ProductHalves
    BY HalvesOfProduct DEF Registers
  <1> QED
    BY <1>1, Operands, PTL

\* mulhudw of inc/mul.h and the signed forms built on it return what the 128-bit
\* type does, for every pair of operands and every width.  inc/mul.h has them
\* for RV64 only: the halves of a register are its two words.
THEOREM SoftwareProductExact == ASSUME RV64 PROVE Spec => []SoftwareProductAgrees
  <1>1. Registers => SoftwareProductAgrees
    BY SoftwareAgrees DEF Registers
  <1> QED
    BY <1>1, Operands, PTL

\* DIV, DIVU, REM, REMU and their word forms divide with remainder, for every
\* pair of operands and every register width, the two special cases included.
THEOREM DivisionExact == Spec => []DivisionIsEuclidean
  <1>1. Registers => DivisionIsEuclidean
    BY DivisionsFit DEF Registers
  <1> QED
    BY <1>1, Operands, PTL

\* The word forms of sum, difference, product and division read low halves and
\* leave sign-extended words, for every pair of operands and every width.
THEOREM WordsRight == Spec => []WordResults
  <1>1. Registers => WordResults
    BY WordsExtended DEF Registers
  <1> QED
    BY <1>1, Operands, PTL

=============================================================================
