------------------------------- MODULE GuestProofs -------------------------------
(***************************************************************************)
(* A linked program on the emulator does what its source says: the machine *)
(* code in Core implements Crt0 and Librv, for every layout and cycle      *)
(* limit, and what is proved of them holds of the guest.                   *)
(***************************************************************************)
EXTENDS Guest, CoreProofs

-----------------------------------------------------------------------------
(* Numbers *)

\* Multiplication by a natural number is monotonic.
LEMMA TimesMonotonic ==
    ASSUME NEW n \in Nat, NEW x \in Int, NEW y \in Int, x <= y
    PROVE  n * x <= n * y /\ n * x \in Int /\ n * y \in Int
  <1>1. n * (y - x) >= 0 /\ n * (y - x) = n * y - n * x
    OBVIOUS
  <1>2. n * x \in Int /\ n * y \in Int
    OBVIOUS
  <1> QED BY <1>1, <1>2

\* Quotient and remainder make up the dividend,
LEMMA DivMod ==
    ASSUME NEW n \in Int, NEW m \in Nat, m > 0
    PROVE  n \div m \in Int /\ n % m \in 0 .. m - 1 /\ n = m * (n \div m) + (n % m)
  OBVIOUS

\* in one way.
LEMMA DivUnique ==
    ASSUME NEW n \in Int, NEW m \in Nat, m > 0, NEW q \in Int, NEW r \in 0 .. m - 1,
           n = m * q + r
    PROVE  n \div m = q /\ n % m = r
  <1> DEFINE k == n \div m
             t == n % m
  <1>1. k \in Int /\ t \in 0 .. m - 1 /\ n = m * k + t
    BY DivMod
  <1> HIDE DEF k, t
  <1>2. m * k \in Int /\ m * q \in Int
    BY <1>1
  <1>3. m * (q + 1) = m * q + m /\ m * (k + 1) = m * k + m
    BY <1>1
  <1>4. CASE k > q
    <2>1. m * (q + 1) <= m * k
      BY <1>1, <1>4, TimesMonotonic
    <2> QED BY <1>1, <1>2, <1>3, <2>1
  <1>5. CASE q > k
    <2>1. m * (k + 1) <= m * q
      BY <1>1, <1>5, TimesMonotonic
    <2> QED BY <1>1, <1>2, <1>3, <2>1
  <1>6. k = q
    BY <1>1, <1>4, <1>5
  <1>7. t = r
    BY <1>1, <1>2, <1>6
  <1> QED BY <1>6, <1>7 DEF k, t

\* Dividing twice is dividing by the product.
LEMMA DivTwice ==
    ASSUME NEW n \in Nat, NEW a \in Nat, NEW b \in Nat, a > 0, b > 0
    PROVE  n \div (a * b) = (n \div a) \div b
  <1> DEFINE q == n \div a
             r == n % a
             k == q \div b
             t == q % b
  <1>1. q \in Int /\ r \in 0 .. a - 1 /\ n = a * q + r
    BY DivMod
  <1>2. k \in Int /\ t \in 0 .. b - 1 /\ q = b * k + t
    BY <1>1, DivMod
  <1> HIDE DEF q, r, k, t
  <1>3. a * q = a * (b * k) + a * t /\ a * (b * k) = (a * b) * k
    <2>1. b * k \in Int
      BY <1>2
    <2> QED BY <1>2, <2>1
  <1>4. a * b \in Nat /\ a * b > 0 /\ (a * b) * k \in Int /\ a * t \in Int /\ a * q \in Int
    BY <1>1, <1>2
  <1>5. a * t <= a * b - a /\ a * t >= 0
    <2>1. a * t <= a * (b - 1) /\ a * 0 <= a * t
      BY <1>2, TimesMonotonic
    <2>2. a * (b - 1) = a * b - a
      OBVIOUS
    <2> QED BY <1>4, <2>1, <2>2
  <1> DEFINE s == a * t + r
             m == a * b
  <1>6. s \in 0 .. m - 1 /\ n = m * k + s
    BY <1>1, <1>3, <1>4, <1>5
  <1>7. m \in Nat /\ m > 0
    BY <1>4
  <1> HIDE DEF s, m
  <1>8. n \div m = k
    BY <1>2, <1>6, <1>7, DivUnique
  <1> QED BY <1>8 DEF m, k, q

\* A register of RV32 is a word, and the memory lies in its lower half.
LEMMA Sizes ==
    /\ RegMod = WordMod /\ RegMod \in Nat /\ RegMod > 11
    /\ RAM_START \in Nat /\ RAM_SIZE \in Nat /\ ROM_SIZE \in Nat
    /\ ROM_SIZE <= RAM_START /\ RAM_SIZE >= 8
    /\ ram_end = RAM_START + RAM_SIZE /\ 2 * ram_end < RegMod
    /\ stack_top = ram_end /\ ~ RV64
  BY ArchAssumption, Moduli, LinkAssumption, GuestAssumption DEF RegMod, ram_end, stack_top

\* Wrap leaves a reg_t alone.
LEMMA WrapSmall ==
    ASSUME NEW n \in 0 .. RegMod - 1
    PROVE  Wrap(n) = n /\ n \in Word
  <1> DEFINE m == RegMod
  <1>1. m \in Nat /\ n \in 0 .. m - 1
    BY Sizes
  <1>2. n % m = n
    <2> HIDE DEF m
    <2> QED BY <1>1
  <1> QED BY <1>2 DEF Wrap, Word

\* Only the sum of an immediate and a register matters, not how either wraps.
LEMMA WrapSum ==
    ASSUME NEW x \in Int, NEW n \in Int
    PROVE  Wrap(x + Wrap(n)) = Wrap(x + n)
  <1> DEFINE m == RegMod
             q == n \div m
             r == n % m
  <1>1. m \in Nat /\ m > 0
    BY Sizes
  <1>2. Wrap(x + Wrap(n)) = (x + r) % m /\ Wrap(x + n) = (x + n) % m
    BY DEF Wrap
  <1> HIDE DEF m
  <1>3. q \in Int /\ r \in Int /\ n = m * q + r
    BY <1>1
  <1> HIDE DEF q, r
  <1> DEFINE s == (x + r) \div m
             t == (x + r) % m
  <1>4. s \in Int /\ t \in 0 .. m - 1 /\ x + r = m * s + t /\ x + r \in Int
    BY <1>1, <1>3
  <1> HIDE DEF s, t
  <1>5. m * (s + q) = m * s + m * q /\ m * s \in Int /\ m * q \in Int /\ s + q \in Int
    BY <1>1, <1>3, <1>4
  <1>6. x + n = m * (s + q) + t
    BY <1>3, <1>4, <1>5
  <1>7. (x + n) % m = t
    <2> DEFINE j == s + q
    <2>1. j \in Int /\ x + n = m * j + t /\ x + n \in Int
      BY <1>3, <1>5, <1>6
    <2> HIDE DEF j
    <2> QED BY <1>1, <1>4, <2>1, DivUnique
  <1> QED BY <1>2, <1>7 DEF t

-----------------------------------------------------------------------------
(* The fetch *)

\* The RAM follows the text, which holds the program.
LEMMA LayoutFacts ==
    ASSUME NEW l \in Layouts
    PROVE  /\ l.text \in Nat /\ l.data \in Nat /\ l.bss \in Nat
           /\ RAM_START <= sdata(l) /\ sdata(l) <= edata(l) /\ edata(l) <= sbss(l)
           /\ sbss(l) <= ebss(l) /\ ebss(l) + 8 <= ram_end
           /\ sdata(l) \in Nat /\ edata(l) \in Nat /\ sbss(l) \in Nat /\ ebss(l) \in Nat
           /\ sidata(l) \in Nat /\ 272 <= ROM_SIZE /\ sidata(l) + edata(l) - sdata(l) <= ROM_SIZE
           /\ sdata(l) + l.data <= edata(l)
  <1>1. l \in Layout /\ Linked(l) /\ l.text >= 272 /\ ebss(l) + 8 <= ram_end
    BY LinkAssumption, GuestAssumption
  <1>2. l.text \in Nat /\ l.data \in Nat /\ l.bss \in Nat
    BY <1>1 DEF Layout
  <1>3. ASSUME NEW n \in Nat PROVE ALIGN(n) \in Nat /\ n <= ALIGN(n)
    BY <1>3 DEF ALIGN
  <1>4. sdata(l) \in Nat /\ RAM_START <= sdata(l)
    BY <1>3, Sizes DEF sdata
  <1>5. edata(l) \in Nat /\ sdata(l) <= edata(l) /\ sdata(l) + l.data <= edata(l)
    BY <1>2, <1>3, <1>4 DEF edata
  <1>6. sbss(l) \in Nat /\ edata(l) <= sbss(l)
    BY <1>3, <1>5 DEF sbss
  <1>7. ebss(l) \in Nat /\ sbss(l) <= ebss(l)
    BY <1>2, <1>3, <1>6 DEF ebss
  <1>8. sidata(l) \in Nat /\ l.text <= sidata(l)
    BY <1>2, <1>3 DEF sidata
  <1>9. sidata(l) + edata(l) - sdata(l) <= ROM_SIZE
    BY <1>1 DEF Linked
  <1> QED BY <1>1, <1>2, <1>4, <1>5, <1>6, <1>7, <1>8, <1>9, Sizes

\* A word of the ROM is read back whole.
LEMMA WordKept ==
    ASSUME NEW n \in 0 .. WordMod - 1
    PROVE  SignExtend(n, WordMod) = n
  <1>1. n \in 0 .. RegMod - 1 /\ RegMod \in Nat /\ WordMod = RegMod
    BY Sizes
  <1>2. n - WordMod = n + RegMod * (-1) /\ n \in Int
    BY <1>1
  <1>3. Wrap(n - WordMod) = n
    <2> DEFINE m == RegMod
    <2>1. Wrap(n - WordMod) = (n - m) % m
      BY <1>1 DEF Wrap
    <2> HIDE DEF m
    <2>2. m \in Nat /\ n \in 0 .. m - 1
      BY <1>1 DEF m
    <2>3. (n - m) % m = n
      BY <2>2
    <2> QED BY <2>1, <2>3
  <1> QED BY <1>1, <1>3, WrapSmall DEF SignExtend

\* The states of the program: what is executed next is a word of its text.
InText(w) == phase = "loop" /\ rom = Rom(build) /\ build \in Layouts /\ pc = 4 * w

\* The emulator executes the word of the text at pc, which is not zero.
LEMMA Fetches ==
    ASSUME TypeOK, NEW w \in 0 .. 67, InText(w)
    PROVE  Reads(I, Text(build)[w + 1]) /\ Fetched # 0 /\ FetchStall = 0
  <1> DEFINE word == WordAt(rom, pc)
  <1>1. pc = 4 * w /\ rom \in [RomCells -> Byte] /\ 272 <= ROM_SIZE
    BY LayoutFacts DEF InText, TypeOK
  <1>2. word \in 0 .. WordMod - 1
    BY <1>1, LittleEndianType, Sizes DEF RomCells
  <1>3. Reach(MEM_W) = 3 /\ MEM_W \in LoadOps
    BY DEF Reach, MEM_W, MEM_H, MEM_HU, LoadOps
  <1>4. ~ InRam(pc, MEM_W) /\ InRom(pc, MEM_W)
    BY <1>1, <1>3, Sizes DEF InRam, InRom
  <1>5. bus_read(rom, ram, pc, MEM_W, 0) = word
    BY <1>2, <1>3, <1>4, LoadedCases, WordKept DEF bus_read
  <1>6. Fetched = word
    <2>1. word % WordMod = word
      <3> DEFINE m == WordMod
      <3>1. m \in Nat /\ word \in 0 .. m - 1
        BY <1>2, Moduli
      <3> HIDE DEF m, word
      <3>2. word % m = word
        BY <3>1
      <3> QED BY <3>2 DEF m
    <2> QED BY <1>5, <2>1 DEF Fetched
  <1>7. word # 0 /\ Reads(Decode(word), Text(build)[w + 1])
    <2>1. w + 1 \in 1 .. 68 /\ 4 * (w + 1) - 4 = pc
      BY <1>1
    <2>2. WordAt(Rom(build), 4 * (w + 1) - 4) # 0
          /\ Reads(Decode(WordAt(Rom(build), 4 * (w + 1) - 4)), Text(build)[w + 1])
      BY <2>1, GuestAssumption DEF InText
    <2> QED BY <2>1, <2>2 DEF InText
  <1>8. FetchStall = 0
    <2>1. pc % 4 = 0
      BY <1>1
    <2> QED BY <1>3, <2>1 DEF FetchStall, ReadStall, PERF_MODEL_MEMORY
  <1> QED BY <1>6, <1>7, <1>8 DEF I

-----------------------------------------------------------------------------
(* Words in memory *)

\* The four bytes of a number, as bus_write cuts it up,
Digit(v, k) == (v \div Scale(k)) % ByteMod

LEMMA Digits ==
    ASSUME NEW v \in Nat
    PROVE  /\ Digit(v, 0) = v % ByteMod
           /\ Digit(v, 1) = (v \div ByteMod) % ByteMod
           /\ Digit(v, 2) = ((v \div ByteMod) \div ByteMod) % ByteMod
           /\ Digit(v, 3) = (((v \div ByteMod) \div ByteMod) \div ByteMod) % ByteMod
  <1>1. ByteMod \in Nat /\ ByteMod > 0 /\ HalfMod \in Nat /\ HalfMod > 0
    BY Moduli
  <1>2. v \div HalfMod = (v \div ByteMod) \div ByteMod
    BY <1>1, DivTwice DEF HalfMod
  <1>3. v \div (HalfMod * ByteMod) = ((v \div ByteMod) \div ByteMod) \div ByteMod
    BY <1>1, <1>2, DivTwice
  <1>4. v \div 1 = v
    OBVIOUS
  <1>5. Scale(0) = 1 /\ Scale(1) = ByteMod /\ Scale(2) = HalfMod /\ Scale(3) = HalfMod * ByteMod
    BY DEF Scale
  <1> QED BY <1>2, <1>3, <1>4, <1>5 DEF Digit

\* are the bytes it was loaded from,
LEMMA DigitsOfBytes ==
    ASSUME NEW d0 \in Byte, NEW d1 \in Byte, NEW d2 \in Byte, NEW d3 \in Byte
    PROVE  LET v == (d3 * ByteMod + d2) * HalfMod + (d1 * ByteMod + d0)
           IN  /\ Digit(v, 0) = d0 /\ Digit(v, 1) = d1 /\ Digit(v, 2) = d2 /\ Digit(v, 3) = d3
  <1> DEFINE b == ByteMod
             q2 == b * d3 + d2
             q1 == b * q2 + d1
             v == (d3 * ByteMod + d2) * HalfMod + (d1 * ByteMod + d0)
  <1>1. b \in Nat /\ b > 1 /\ d0 \in 0 .. b - 1 /\ d1 \in 0 .. b - 1 /\ d2 \in 0 .. b - 1
        /\ d3 \in 0 .. b - 1
    BY Moduli DEF Byte
  <1>2. q2 \in Nat
    BY <1>1
  <1>3. q1 \in Nat
    <2> HIDE DEF q2
    <2> QED BY <1>1, <1>2
  <1>4. v = b * q1 + d0 /\ v \in Nat
    <2>1. v = (d3 * b + d2) * (b * b) + (d1 * b + d0)
      BY DEF HalfMod
    <2> HIDE DEF v
    <2>2. d3 * b + d2 = q2
      BY <1>1
    <2> HIDE DEF q2, b
    <2>3. q2 * (b * b) = b * (b * q2) /\ b * q2 \in Nat /\ d1 * b = b * d1
      BY <1>1, <1>2
    <2>4. b * (b * q2 + d1) = b * (b * q2) + b * d1 /\ b * (b * q2) \in Nat /\ b * d1 \in Nat
      BY <1>1, <2>3
    <2> QED BY <1>1, <2>1, <2>2, <2>3, <2>4
  <1> HIDE DEF v, q1
  <1>5. v \div b = q1 /\ v % b = d0
    BY <1>1, <1>3, <1>4, DivUnique
  <1>6. q1 \div b = q2 /\ q1 % b = d1
    <2>1. q1 = b * q2 + d1
      BY DEF q1
    <2> HIDE DEF q2
    <2> QED BY <1>1, <1>2, <1>3, <2>1, DivUnique
  <1>7. q2 \div b = d3 /\ q2 % b = d2
    <2>1. q2 = b * d3 + d2 /\ d3 \in Int
      BY <1>1 DEF q2
    <2> HIDE DEF q2
    <2> QED BY <1>1, <1>2, <2>1, DivUnique
  <1>8. d3 % b = d3
    <2>1. d3 = b * 0 + d3
      BY <1>1
    <2> QED BY <1>1, <2>1, DivUnique
  <1>9. /\ Digit(v, 0) = d0 /\ Digit(v, 1) = d1 /\ Digit(v, 2) = d2 /\ Digit(v, 3) = d3
    <2> HIDE DEF q2
    <2> QED BY <1>4, <1>5, <1>6, <1>7, <1>8, Digits
  <1> QED BY <1>9 DEF v

\* and make it up again.
LEMMA BytesOfDigits ==
    ASSUME NEW v \in 0 .. WordMod - 1
    PROVE  /\ \A k \in 0 .. 3 : Digit(v, k) \in Byte
           /\ v = (Digit(v, 3) * ByteMod + Digit(v, 2)) * HalfMod
                    + (Digit(v, 1) * ByteMod + Digit(v, 0))
  <1> DEFINE b == ByteMod
             q1 == v \div b
             q2 == q1 \div b
             q3 == q2 \div b
             r0 == v % b
             r1 == q1 % b
             r2 == q2 % b
  <1>1. b \in Nat /\ b > 1 /\ v \in Nat /\ HalfMod = b * b /\ WordMod = (b * b) * (b * b)
        /\ v < WordMod
    BY Moduli DEF HalfMod, WordMod
  <1>2. q1 \in Int /\ r0 \in 0 .. b - 1 /\ v = b * q1 + r0
    BY <1>1, DivMod
  <1>3. q2 \in Int /\ r1 \in 0 .. b - 1 /\ q1 = b * q2 + r1
    BY <1>1, <1>2, DivMod
  <1>4. q3 \in Int /\ r2 \in 0 .. b - 1 /\ q2 = b * q3 + r2
    BY <1>1, <1>3, DivMod
  <1>5. Digit(v, 0) = r0 /\ Digit(v, 1) = r1 /\ Digit(v, 2) = r2 /\ Digit(v, 3) = q3 % b
    BY <1>1, Digits
  <1> HIDE DEF q1, q2, q3, r0, r1, r2, b
  <1> DEFINE c == b * b
  <1>6. /\ b * q1 \in Int /\ b * q2 \in Int /\ b * q3 \in Int /\ c \in Nat /\ c > 0
        /\ c * c \in Nat /\ b * r1 \in Int
    BY <1>1, <1>2, <1>3, <1>4
  <1>7. v = c * q2 + (b * r1 + r0) /\ c * q2 \in Int
    <2>1. b * q1 = b * (b * q2) + b * r1
      BY <1>1, <1>3, <1>6
    <2>2. b * (b * q2) = c * q2 /\ c * q2 \in Int
      BY <1>1, <1>3
    <2> QED BY <1>2, <1>6, <2>1, <2>2
  <1>8. q2 \in 0 .. c - 1
    <2>1. b * r1 >= 0 /\ b * r1 + r0 <= c - 1
      <3>1. b * r1 <= b * (b - 1) /\ b * 0 <= b * r1
        BY <1>1, <1>3, TimesMonotonic
      <3>2. b * (b - 1) = c - b
        BY <1>1
      <3> QED BY <1>1, <1>2, <1>6, <3>1, <3>2
    <2> HIDE DEF c
    <2>2. v < c * c
      BY <1>1 DEF c
    <2>3. CASE q2 >= c
      <3>1. c * c <= c * q2
        BY <1>3, <1>6, <2>3, TimesMonotonic
      <3> QED BY <1>1, <1>2, <1>6, <1>7, <2>1, <2>2, <3>1
    <2>4. CASE q2 <= -1
      <3>1. c * q2 <= c * (-1)
        BY <1>3, <1>6, <2>4, TimesMonotonic
      <3>2. c * (-1) = -c
        BY <1>6
      <3> QED BY <1>1, <1>2, <1>6, <1>7, <2>1, <3>1, <3>2
    <2> QED BY <1>3, <1>6, <2>3, <2>4
  <1>9. q3 \in 0 .. b - 1
    <2>1. CASE q3 >= b
      <3>1. b * b <= b * q3
        BY <1>1, <1>4, <2>1, TimesMonotonic
      <3> QED BY <1>1, <1>4, <1>6, <1>8, <3>1
    <2>2. CASE q3 <= -1
      <3>1. b * q3 <= b * (-1)
        BY <1>1, <1>4, <2>2, TimesMonotonic
      <3>2. b * (-1) = -b
        BY <1>1
      <3> QED BY <1>1, <1>4, <1>6, <1>8, <3>1, <3>2
    <2> QED BY <1>1, <1>4, <2>1, <2>2
  <1>10. q3 % b = q3
    <2>1. q3 = b * 0 + q3
      BY <1>1, <1>9
    <2> QED BY <1>1, <1>9, <2>1, DivUnique
  <1>11. v = (q3 * b + r2) * c + (r1 * b + r0)
    <2>1. q3 * b + r2 = q2 /\ r1 * b = b * r1
      BY <1>1, <1>3, <1>4
    <2> HIDE DEF c
    <2>2. q2 * c = c * q2
      BY <1>3, <1>6
    <2> QED BY <1>7, <2>1, <2>2
  <1>12. r0 \in Byte /\ r1 \in Byte /\ r2 \in Byte /\ q3 \in Byte
    BY <1>2, <1>3, <1>4, <1>9 DEF Byte, b
  <1>13. \A k \in 0 .. 3 : Digit(v, k) \in Byte
    <2>1. ASSUME NEW k \in 0 .. 3 PROVE k = 0 \/ k = 1 \/ k = 2 \/ k = 3
      BY <2>1
    <2> QED BY <1>5, <1>10, <1>12, <2>1
  <1>14. v = (Digit(v, 3) * b + Digit(v, 2)) * HalfMod + (Digit(v, 1) * b + Digit(v, 0))
    BY <1>1, <1>5, <1>10, <1>11
  <1> QED BY <1>13, <1>14 DEF b

\* A word loaded from an array falls apart into the elements it was loaded from.
LEMMA BytesOfWord ==
    ASSUME NEW n \in Nat, NEW mem \in [0 .. n - 1 -> Byte], NEW p \in Nat, p + 3 < n,
           NEW k \in 0 .. 3
    PROVE  Digit(WordAt(mem, p), k) = mem[p + k]
  <1>1. /\ mem[p] \in Byte /\ mem[p + 1] \in Byte /\ mem[p + 2] \in Byte /\ mem[p + 3] \in Byte
        /\ p + 2 + 1 = p + 3 /\ p + 0 = p
    OBVIOUS
  <1> DEFINE v == (mem[p + 3] * ByteMod + mem[p + 2]) * HalfMod + (mem[p + 1] * ByteMod + mem[p])
  <1>2. WordAt(mem, p) = v
    BY <1>1 DEF WordAt, HalfAt
  <1>3. Digit(v, 0) = mem[p] /\ Digit(v, 1) = mem[p + 1] /\ Digit(v, 2) = mem[p + 2]
        /\ Digit(v, 3) = mem[p + 3]
    BY <1>1, DigitsOfBytes
  <1> HIDE DEF v
  <1>4. k = 0 \/ k = 1 \/ k = 2 \/ k = 3
    OBVIOUS
  <1> QED BY <1>1, <1>2, <1>3, <1>4

\* What the bus loads from the RAM and from the ROM.
LEMMA LoadsRam ==
    ASSUME TypeOK, NEW a \in RAM_START .. ram_end - 4, NEW val
    PROVE  bus_read(rom, ram, a, MEM_W, val) = WordAt(ram, a - RAM_START)
  <1>1. Reach(MEM_W) = 3 /\ MEM_W \in LoadOps
    BY DEF Reach, MEM_W, MEM_H, MEM_HU, LoadOps
  <1>2. a \in Nat /\ a - RAM_START \in Nat /\ a - RAM_START + 3 < RAM_SIZE /\ InRam(a, MEM_W)
    BY <1>1, Sizes DEF InRam
  <1>3. WordAt(ram, a - RAM_START) \in 0 .. WordMod - 1
    BY <1>2, Sizes, LittleEndianType DEF TypeOK, RamCells
  <1> QED BY <1>1, <1>2, <1>3, LoadedCases, WordKept DEF bus_read

\* A word of the ROM,
LEMMA LoadsRom ==
    ASSUME TypeOK, NEW a \in 0 .. ROM_SIZE - 4, NEW val
    PROVE  bus_read(rom, ram, a, MEM_W, val) = WordAt(rom, a)
  <1>1. Reach(MEM_W) = 3 /\ MEM_W \in LoadOps
    BY DEF Reach, MEM_W, MEM_H, MEM_HU, LoadOps
  <1>2. a \in Nat /\ a + 3 < ROM_SIZE /\ ~ InRam(a, MEM_W) /\ InRom(a, MEM_W)
    BY <1>1, Sizes DEF InRam, InRom
  <1>3. WordAt(rom, a) \in 0 .. WordMod - 1
    BY <1>2, Sizes, LittleEndianType DEF TypeOK, RomCells
  <1> QED BY <1>1, <1>2, <1>3, LoadedCases, WordKept DEF bus_read

\* and a byte of the RAM, which lbu does not extend.
LEMMA LoadsByte ==
    ASSUME TypeOK, NEW a \in RAM_START .. ram_end - 1, NEW val
    PROVE  bus_read(rom, ram, a, MEM_BU, val) = ram[a - RAM_START]
  <1>1. Reach(MEM_BU) = 0 /\ MEM_BU \in LoadOps
    BY Sizes DEF Reach, MEM_W, MEM_H, MEM_HU, MEM_BU, MEM_WU, MEM_D, LoadOps
  <1>2. InRam(a, MEM_BU)
    BY <1>1, Sizes DEF InRam
  <1> QED BY <1>1, <1>2, LoadedCases DEF bus_read

\* A word stored in the RAM can be loaded again, and leaves the rest alone.
LEMMA StoresRam ==
    ASSUME TypeOK, NEW a \in RAM_START .. ram_end - 4, NEW v \in Word
    PROVE  LET p    == a - RAM_START
               ram_ == bus_write(ram, a, MEM_W, v)
           IN  /\ ram_ = [c \in RamCells |-> IF c \in p .. p + 3 THEN Digit(v, c - p) ELSE ram[c]]
               /\ WordAt(ram_, p) = v
  <1> DEFINE p    == a - RAM_START
             ram_ == bus_write(ram, a, MEM_W, v)
  <1>1. Reach(MEM_W) = 3 /\ MEM_W \in StoreOps
    BY DEF Reach, MEM_W, MEM_H, MEM_HU, StoreOps
  <1>2. p \in Nat /\ p + 3 < RAM_SIZE /\ InRam(a, MEM_W)
    BY <1>1, Sizes DEF InRam
  <1>3. ram_ = [c \in RamCells |-> IF c \in p .. p + 3 THEN Digit(v, c - p) ELSE ram[c]]
    BY <1>1, <1>2 DEF bus_write, Digit
  <1> HIDE DEF p, ram_
  <1>4. /\ p \in RamCells /\ p + 1 \in RamCells /\ p + 2 \in RamCells /\ p + 3 \in RamCells
        /\ p - p = 0 /\ p + 1 - p = 1 /\ p + 2 - p = 2 /\ p + 3 - p = 3
    BY <1>2, Sizes DEF RamCells
  <1>5. /\ ram_[p] = Digit(v, 0) /\ ram_[p + 1] = Digit(v, 1)
        /\ ram_[p + 2] = Digit(v, 2) /\ ram_[p + 3] = Digit(v, 3)
    BY <1>2, <1>3, <1>4
  <1>6. WordAt(ram_, p) = (Digit(v, 3) * ByteMod + Digit(v, 2)) * HalfMod
                            + (Digit(v, 1) * ByteMod + Digit(v, 0))
    <2>1. p + 2 + 1 = p + 3
      BY <1>2
    <2> QED BY <1>5, <2>1 DEF WordAt, HalfAt
  <1>7. v \in 0 .. WordMod - 1
    BY Sizes DEF Word
  <1>8. WordAt(ram_, p) = v
    BY <1>6, <1>7, BytesOfDigits
  <1> QED BY <1>3, <1>8 DEF p, ram_

-----------------------------------------------------------------------------
(* The invariant *)

\* Where the program is: at a word of its text, until it has exited.
Placed ==
    /\ build \in Layouts
    /\ since \in [c : Int, i : Int]
    /\ phase \in {"boot", "loop", "total_cycles", "cycle_limit"}
    /\ phase = "boot" => pc = 0
    /\ phase # "boot" => rom = Rom(build)
    /\ \E w \in 0 .. 67 : pc = 4 * w
    /\ instr_loop <=> pc # 4 * 27

\* What the jumps of the program depend on: the stack pointer, the return addresses
\* in ra and in the frame of main, and the code of an environment call.
Frame ==
    /\ pc \in 4 * 4 .. 4 * 28 \cup {4 * 62} => regfile[sp] = stack_top
    /\ pc \in 4 * 29 .. 4 * 61 \cup 4 * 63 .. 4 * 67 => regfile[sp] = stack_top - 8
    /\ pc \in {4 * 28, 4 * 29, 4 * 61, 4 * 62} => regfile[ra] = 4 * 25
    /\ pc \in 4 * 63 .. 4 * 67 => regfile[ra] = 4 * 58
    /\ pc \in 4 * 30 .. 4 * 35 \cup 4 * 41 .. 4 * 60 \cup 4 * 63 .. 4 * 67 =>
          WordAt(ram, RAM_SIZE - 4) = 4 * 25
    /\ pc = 4 * 26 => regfile[A0] = E_EXIT
    /\ pc \in {4 * 65, 4 * 66} => regfile[A0] = E_CHAR

\* What the first half of a la at an address leaves in the register,
Upper(at, symbol) == Wrap(at + Hi(symbol - at))

\* where it is found by the second half.
Second == {4 * 1, 4 * 3, 4 * 5, 4 * 7, 4 * 9, 4 * 17, 4 * 19, 4 * 52, 4 * 54}

Halfway ==
    /\ pc = 4 * 1 => regfile[gp] = Upper(0, sdata(build) + GP_OFFSET)
    /\ pc = 4 * 3 => regfile[sp] = Upper(8, stack_top)
    /\ pc = 4 * 5 => regfile[A0] = Upper(16, sidata(build))
    /\ pc = 4 * 7 => regfile[A1] = Upper(24, sdata(build))
    /\ pc = 4 * 9 => regfile[12] = Upper(32, edata(build))
    /\ pc = 4 * 17 => regfile[A0] = Upper(64, sbss(build))
    /\ pc = 4 * 19 => regfile[A1] = Upper(72, ebss(build))
    /\ pc = 4 * 52 => regfile[s0] = Upper(204, sdata(build))
    /\ pc = 4 * 54 => regfile[s1] = Upper(212, sdata(build) + build.data)

GuestInv == Placed /\ Frame /\ Halfway

\* The initial values of the variables of the program.
Initial(k) == Rom(build)[sidata(build) + k]

\* Where the variables hold them, once main has been called: until it writes over them,
\* and the second time until they are printed.
Keeping == 4 * 28 .. 4 * 35 \cup 4 * 41 .. 4 * 59 \cup 4 * 63 .. 4 * 67

Kept == pc \in Keeping =>
            \A k \in 0 .. build.data - 1 : ram[sdata(build) - RAM_START + k] = Initial(k)

\* The first n of them have been printed.
Done(n) == out = [k \in 1 .. n |-> Initial(k - 1)]
AllDone == out = [k \in 1 .. build.data |-> Initial(k - 1)]

\* The turn of the output loop that prints the variable behind n others: s0 points to
\* it, and it goes through a0, a5 and a1 to the environment call.
Printing(n) ==
    /\ regfile[s0] = sdata(build) + n /\ regfile[s1] = sdata(build) + build.data
    /\ pc \notin {4 * 55, 4 * 59} => n < build.data
    /\ pc \in {4 * 57, 4 * 63} => regfile[A0] = Initial(n)
    /\ pc \in {4 * 64, 4 * 65} => regfile[15] = Initial(n)
    /\ pc = 4 * 66 => regfile[A1] = Initial(n)
    /\ pc \notin {4 * 58, 4 * 67} => Done(n)
    /\ pc \in {4 * 58, 4 * 67} => Done(n + 1)

BeforeOutput == 0 .. 4 * 24 \cup 4 * 28 .. 4 * 54

Printed ==
    /\ pc \in BeforeOutput => out = <<>>
    /\ pc \in {4 * 53, 4 * 54} => regfile[s0] = sdata(build)
    /\ pc \in 4 * 55 .. 4 * 59 \cup 4 * 63 .. 4 * 67 => \E n \in 0 .. build.data : Printing(n)
    /\ pc \in 4 * 60 .. 4 * 62 \cup 4 * 25 .. 4 * 27 => AllDone

-----------------------------------------------------------------------------
(* The instructions of the text *)

\* What an instruction does to the machine: it sets a register, only goes on, or
\* stores a register.
Sets(d, v, next) ==
    /\ regfile' = [regfile EXCEPT ![d] = v] /\ pc' = next
    /\ UNCHANGED <<ram, instr_loop, out>>
Goes(next) == pc' = next /\ UNCHANGED <<regfile, ram, instr_loop, out>>
Stores(addr, r, next) ==
    /\ ram' = bus_write(ram, addr, MEM_W, regfile[r]) /\ pc' = next
    /\ UNCHANGED <<regfile, instr_loop, out>>

\* A register plus an immediate, as a reg_t.
Sum(r, n) == Wrap(regfile[r] + n)

\* An address at or below the end of the RAM is its own immediate, and an immediate of
\* zero changes nothing.
LEMMA Sums ==
    ASSUME TypeOK
    PROVE  /\ \A n \in 0 .. ram_end : Sum(zero, n) = n
           /\ \A r \in Reg : Sum(r, 0) = regfile[r]
  <1>1. ASSUME NEW n \in 0 .. ram_end PROVE Sum(zero, n) = n
    <2>1. regfile[zero] = 0 /\ n \in 0 .. RegMod - 1 /\ 0 + n = n
      BY <1>1, Sizes DEF TypeOK, zero
    <2> QED BY <2>1, WrapSmall DEF Sum
  <1>2. ASSUME NEW r \in Reg PROVE Sum(r, 0) = regfile[r]
    <2>1. regfile[r] \in 0 .. RegMod - 1 /\ regfile[r] + 0 = regfile[r]
      BY <1>2, Sizes DEF TypeOK, Word
    <2> QED BY <2>1, WrapSmall DEF Sum
  <1> QED BY <1>1, <1>2

\* The case of process_instr follows from the opcode.
LEMMA Dispatch ==
    ASSUME Instr
    PROVE  /\ I.opcode = "OP_IMM" => Imm
           /\ I.opcode = "OP_LOAD" => Load
           /\ I.opcode = "OP_STORE" => Store
           /\ I.opcode = "OP_BRANCH" => Branch
           /\ I.opcode = "OP_AUIPC" => Auipc
           /\ I.opcode = "OP_JAL" => Jal
           /\ I.opcode = "OP_JALR" => Jalr
           /\ I.opcode = "OP_SYS" /\ I.funct3 = 0 /\ I.uimm # 1 => Ecall
           /\ I.opcode = "OP_SYS" /\ I.funct3 = 2 => Csr
  BY DEF Instr, Executing, RType, Imm, RTypeW, ImmW, Load, Store, Branch, Nop, Auipc, Lui,
         Jal, Jalr, Ebreak, Ecall, Csr, SysOther

\* The clearing of x0 at the commit is not seen after a write to another register,
LEMMA CommitSets ==
    ASSUME TypeOK, NEW d \in Reg \ {0}, NEW v \in Word
    PROVE  [[regfile EXCEPT ![d] = v] EXCEPT ![0] = 0] = [regfile EXCEPT ![d] = v]
  <1>1. regfile \in [Reg -> Word] /\ regfile[0] = 0 /\ 0 \in Reg
    BY DEF TypeOK, Reg
  <1> DEFINE f == [regfile EXCEPT ![d] = v]
  <1>2. f \in [Reg -> Word] /\ f[0] = 0
    BY <1>1
  <1> HIDE DEF f
  <1> QED BY <1>1, <1>2

\* and undoes a write to x0.
LEMMA CommitKeeps ==
    ASSUME TypeOK
    PROVE  /\ [regfile EXCEPT ![0] = 0] = regfile
           /\ \A v \in Word : [[regfile EXCEPT ![0] = v] EXCEPT ![0] = 0] = regfile
  <1>1. regfile \in [Reg -> Word] /\ regfile[0] = 0 /\ 0 \in Reg
    BY DEF TypeOK, Reg
  <1> QED BY <1>1

\* The next word of the text.
LEMMA NextWord ==
    ASSUME NEW w \in 0 .. 67, InText(w)
    PROVE  NextPc = 4 * w + 4 /\ NextPc \in Word /\ pc \in Int
  <1>1. pc = 4 * w /\ 272 <= ROM_SIZE
    BY LayoutFacts DEF InText
  <1>2. pc + 4 \in 0 .. RegMod - 1
    BY <1>1, Sizes
  <1> QED BY <1>1, <1>2, WrapSmall DEF NextPc

\* A jump within the text.
LEMMA Target ==
    ASSUME NEW w \in 0 .. 67, InText(w), NEW n \in Int, 4 * w + n \in 0 .. 272, I.imm = Wrap(n)
    PROVE  JumpTarget = 4 * w + n
  <1>1. 4 * w + n \in 0 .. RegMod - 1
    BY LayoutFacts, Sizes DEF InText
  <1>2. JumpTarget = Wrap(4 * w + n)
    BY NextWord, WrapSum DEF JumpTarget, InText
  <1> QED BY <1>1, <1>2, WrapSmall

\* Addi sets its target to the sum,
LEMMA AddiEffect ==
    ASSUME TypeOK, Instr, NEW w \in 0 .. 67, InText(w),
           NEW d \in Reg \ {0}, NEW s \in Reg, NEW n \in Int,
           Text(build)[w + 1] = Addi(d, s, n)
    PROVE  Sets(d, Sum(s, n), 4 * w + 4) /\ Sum(s, n) \in Word
  <1>1. Reads(I, Addi(d, s, n))
    BY Fetches
  <1>2. /\ I.opcode = "OP_IMM" /\ I.funct3 = 0
        /\ I.rd = d /\ I.rs1 = s /\ I.imm = Wrap(n)
    BY <1>1 DEF Reads, Addi, Op, Unknown
  <1>3. Imm
    BY <1>2, Dispatch
  <1>4. regfile[s] \in Word /\ regfile[s] \in Int /\ I.imm \in Word
    BY OperandTypes, Moduli DEF TypeOK, Word
  <1>5. ImmResult(I, Rs1) = Wrap(regfile[s] + n)
    <2>1. ImmResult(I, Rs1) = ALU(0, regfile[s], I.imm)
      BY <1>2 DEF ImmResult, ImmAluop, Rs1, ALU_SRL
    <2>2. ALU(0, regfile[s], I.imm) = Wrap(regfile[s] + I.imm)
      BY <1>4, GuestAssumption
    <2> QED BY <1>2, <1>4, <2>1, <2>2, WrapSum
  <1>6. Wrap(regfile[s] + n) \in Word
    BY <1>4, WrapType
  <1>7. regfile' = [[regfile EXCEPT ![d] = Wrap(regfile[s] + n)] EXCEPT ![0] = 0]
    BY <1>2, <1>3, <1>5 DEF Imm, Commit, WriteRd
  <1>8. pc' = 4 * w + 4 /\ UNCHANGED <<ram, instr_loop, out>>
    BY <1>3, NextWord DEF Imm, Commit
  <1> QED BY <1>6, <1>7, <1>8, CommitSets DEF Sets, Sum

\* a load to what the bus reads,
LEMMA LwEffect ==
    ASSUME TypeOK, Instr, NEW w \in 0 .. 67, InText(w),
           NEW d \in Reg \ {0}, NEW s \in Reg, NEW n \in Int, NEW op,
           Text(build)[w + 1] = Lw(op, d, s, n)
    PROVE  /\ Sets(d, bus_read(rom, ram, Sum(s, n), op, regfile[d]), 4 * w + 4)
           /\ bus_read(rom, ram, Sum(s, n), op, regfile[d]) \in Word
  <1>1. Reads(I, Lw(op, d, s, n))
    BY Fetches
  <1>2. I.opcode = "OP_LOAD" /\ I.funct3 = op /\ I.rd = d /\ I.rs1 = s /\ I.imm = Wrap(n)
    BY <1>1 DEF Reads, Lw, Op, Unknown
  <1>3. Load
    BY <1>2, Dispatch
  <1>4. regfile[s] \in Int /\ regfile[d] \in Word
    BY Moduli DEF TypeOK, Word
  <1>5. Address = Sum(s, n) /\ Address \in Word
    <2>1. Address = Wrap(regfile[s] + Wrap(n))
      BY <1>2 DEF Address, Rs1
    <2>2. Wrap(regfile[s] + Wrap(n)) = Wrap(regfile[s] + n)
      BY <1>4, WrapSum
    <2> QED BY <2>1, <2>2, OperandTypes DEF Sum
  <1> DEFINE v == bus_read(rom, ram, Address, op, regfile[d])
  <1>6. v \in Word
    BY <1>4, <1>5, BusReadType DEF TypeOK
  <1>7. /\ regfile' = [[regfile EXCEPT ![d] = v] EXCEPT ![0] = 0]
        /\ pc' = 4 * w + 4 /\ UNCHANGED <<ram, instr_loop, out>>
    BY <1>2, <1>3, NextWord DEF Load, Commit, WriteRd
  <1> HIDE DEF v
  <1>8. Sets(d, v, 4 * w + 4)
    BY <1>6, <1>7, CommitSets DEF Sets
  <1> QED BY <1>5, <1>6, <1>8 DEF v

\* a store only the RAM,
LEMMA SwEffect ==
    ASSUME TypeOK, Instr, NEW w \in 0 .. 67, InText(w),
           NEW r \in Reg, NEW s \in Reg, NEW n \in Int,
           Text(build)[w + 1] = Sw(MEM_W, r, s, n)
    PROVE  Stores(Sum(s, n), r, 4 * w + 4)
  <1>1. Reads(I, Sw(MEM_W, r, s, n))
    BY Fetches
  <1>2. /\ I.opcode = "OP_STORE" /\ I.funct3 = MEM_W
        /\ I.rs1 = s /\ I.rs2 = r /\ I.imm = Wrap(n)
    BY <1>1 DEF Reads, Sw, Op, Unknown
  <1>3. Store
    BY <1>2, Dispatch
  <1>4. regfile[s] \in Int
    BY Moduli DEF TypeOK, Word
  <1>5. Address = Sum(s, n)
    BY <1>2, <1>4, WrapSum DEF Address, Rs1, Sum
  <1>6. regfile' = regfile
    BY <1>3, CommitKeeps DEF Store, Commit
  <1> QED BY <1>2, <1>3, <1>5, <1>6, NextWord DEF Store, Commit, Stores, Rs2

\* a branch and a jump only the pc,
LEMMA BrEffect ==
    ASSUME TypeOK, Instr, NEW w \in 0 .. 67, InText(w),
           NEW op, NEW r \in Reg, NEW s \in Reg, NEW n \in Int,
           4 * w + n \in 0 .. 272, Text(build)[w + 1] = Br(op, r, s, n)
    PROVE  /\ I.funct3 = op
           /\ IF BranchTaken(I, regfile[r], regfile[s]) THEN Goes(4 * w + n) ELSE Goes(4 * w + 4)
  <1>1. Reads(I, Br(op, r, s, n))
    BY Fetches
  <1>2. /\ I.opcode = "OP_BRANCH" /\ I.funct3 = op
        /\ I.rs1 = r /\ I.rs2 = s /\ I.imm = Wrap(n)
    BY <1>1 DEF Reads, Br, Op, Unknown
  <1>3. Branch
    BY <1>2, Dispatch
  <1>4. JumpTarget = 4 * w + n
    BY <1>2, Target
  <1>5. regfile' = regfile
    BY <1>3, CommitKeeps DEF Branch, Commit
  <1>6. /\ pc' = IF BranchTaken(I, regfile[r], regfile[s]) THEN 4 * w + n ELSE 4 * w + 4
        /\ UNCHANGED <<ram, instr_loop, out>>
    BY <1>2, <1>3, <1>4, NextWord DEF Branch, Commit, Rs1, Rs2
  <1> QED BY <1>2, <1>5, <1>6 DEF Goes

\* taken as its operation says,
LEMMA BeqEffect ==
    ASSUME TypeOK, Instr, NEW w \in 0 .. 67, InText(w),
           NEW r \in Reg, NEW s \in Reg, NEW n \in Int,
           4 * w + n \in 0 .. 272, Text(build)[w + 1] = Br(0, r, s, n)
    PROVE  IF regfile[r] = regfile[s] THEN Goes(4 * w + n) ELSE Goes(4 * w + 4)
  <1>1. /\ I.funct3 = 0
        /\ IF BranchTaken(I, regfile[r], regfile[s]) THEN Goes(4 * w + n) ELSE Goes(4 * w + 4)
    BY BrEffect
  <1> QED BY <1>1 DEF BranchTaken

LEMMA BneEffect ==
    ASSUME TypeOK, Instr, NEW w \in 0 .. 67, InText(w),
           NEW r \in Reg, NEW s \in Reg, NEW n \in Int,
           4 * w + n \in 0 .. 272, Text(build)[w + 1] = Br(1, r, s, n)
    PROVE  IF regfile[r] # regfile[s] THEN Goes(4 * w + n) ELSE Goes(4 * w + 4)
  <1>1. /\ I.funct3 = 1
        /\ IF BranchTaken(I, regfile[r], regfile[s]) THEN Goes(4 * w + n) ELSE Goes(4 * w + 4)
    BY BrEffect
  <1> QED BY <1>1 DEF BranchTaken

LEMMA BgeEffect ==
    ASSUME TypeOK, Instr, NEW w \in 0 .. 67, InText(w),
           NEW r \in Reg, NEW s \in Reg, NEW n \in Int,
           4 * w + n \in 0 .. 272, Text(build)[w + 1] = Br(5, r, s, n)
    PROVE  IF Signed(regfile[r]) >= Signed(regfile[s])
           THEN Goes(4 * w + n) ELSE Goes(4 * w + 4)
  <1>1. /\ I.funct3 = 5
        /\ IF BranchTaken(I, regfile[r], regfile[s]) THEN Goes(4 * w + n) ELSE Goes(4 * w + 4)
    BY BrEffect
  <1> QED BY <1>1 DEF BranchTaken

\* or always.
LEMMA JEffect ==
    ASSUME TypeOK, Instr, NEW w \in 0 .. 67, InText(w), NEW n \in Int,
           4 * w + n \in 0 .. 272, Text(build)[w + 1] = Op("OP_JAL", 0, zero, zero, n)
    PROVE  Goes(4 * w + n)
  <1>1. Reads(I, Op("OP_JAL", 0, zero, zero, n))
    BY Fetches
  <1>2. I.opcode = "OP_JAL" /\ I.rd = 0 /\ I.imm = Wrap(n)
    BY <1>1 DEF Reads, Op, Unknown, zero
  <1>3. Jal
    BY <1>2, Dispatch
  <1>4. JumpTarget = 4 * w + n
    BY <1>2, Target
  <1>5. regfile' = regfile
    BY <1>2, <1>3, CommitKeeps, NextWord DEF Jal, Commit, WriteRd
  <1> QED BY <1>3, <1>4, <1>5 DEF Jal, Commit, Goes

\* a call also ra,
LEMMA CallEffect ==
    ASSUME TypeOK, Instr, NEW w \in 0 .. 67, InText(w), NEW n \in Int,
           4 * w + n \in 0 .. 272, Text(build)[w + 1] = Op("OP_JAL", 0, ra, zero, n)
    PROVE  Sets(ra, 4 * w + 4, 4 * w + n)
  <1>1. Reads(I, Op("OP_JAL", 0, ra, zero, n))
    BY Fetches
  <1>2. I.opcode = "OP_JAL" /\ I.rd = ra /\ I.imm = Wrap(n) /\ ra \in Reg \ {0}
    BY <1>1 DEF Reads, Op, Unknown, ra, Reg
  <1>3. Jal
    BY <1>2, Dispatch
  <1>4. JumpTarget = 4 * w + n /\ NextPc = 4 * w + 4 /\ NextPc \in Word
    BY <1>2, NextWord, Target
  <1>5. regfile' = [[regfile EXCEPT ![ra] = NextPc] EXCEPT ![0] = 0]
    BY <1>2, <1>3 DEF Jal, Commit, WriteRd
  <1>6. pc' = 4 * w + n /\ UNCHANGED <<ram, instr_loop, out>>
    BY <1>3, <1>4 DEF Jal, Commit
  <1> QED BY <1>2, <1>4, <1>5, <1>6, CommitSets DEF Sets

\* and a return goes to an even ra.
LEMMA RetEffect ==
    ASSUME TypeOK, Instr, NEW w \in 0 .. 67, InText(w),
           Text(build)[w + 1] = Op("OP_JALR", 0, zero, ra, 0), regfile[ra] % 2 = 0
    PROVE  Goes(regfile[ra])
  <1>1. Reads(I, Op("OP_JALR", 0, zero, ra, 0))
    BY Fetches
  <1>2. I.opcode = "OP_JALR" /\ I.rd = 0 /\ I.rs1 = ra /\ I.imm = Wrap(0) /\ ra \in Reg
    BY <1>1 DEF Reads, Op, Unknown, zero, ra, Reg
  <1>3. Jalr
    BY <1>2, Dispatch
  <1>4. regfile[ra] \in Int /\ regfile[ra] \in 0 .. RegMod - 1
    BY <1>2, Moduli DEF TypeOK, Word
  <1>5. Address = regfile[ra]
    <2>0. ASSUME NEW n \in Int PROVE Wrap(regfile[ra] + Wrap(n)) = Wrap(regfile[ra] + n)
      BY <1>4, <2>0, WrapSum
    <2>1. Address = Wrap(regfile[ra] + 0)
      BY <1>2, <2>0 DEF Address, Rs1
    <2>2. regfile[ra] + 0 = regfile[ra]
      BY <1>4
    <2> QED BY <1>4, <2>1, <2>2, WrapSmall
  <1>6. pc' = regfile[ra]
    BY <1>3, <1>4, <1>5 DEF Jalr, Commit
  <1>7. regfile' = regfile
    BY <1>2, <1>3, CommitKeeps, NextWord DEF Jalr, Commit, WriteRd
  <1> QED BY <1>3, <1>6, <1>7 DEF Jalr, Goes

\* A distance falls apart into a multiple of the page and an immediate.
LEMMA Distance ==
    ASSUME NEW x \in Int
    PROVE  /\ Hi(x) \in Int /\ Lo(x) \in - GP_OFFSET .. GP_OFFSET - 1 /\ Hi(x) + Lo(x) = x
           /\ \E k \in Int : Hi(x) = PAGE * k
  <1> DEFINE n == x + GP_OFFSET
             m == PAGE
             k == n \div m
  <1>1. GP_OFFSET \in Nat /\ m = 2 * GP_OFFSET /\ m \in Nat /\ m > 0 /\ n \in Int
    BY LinkAssumption, GuestAssumption DEF PAGE
  <1>2. Hi(x) = m * k
    BY DEF Hi
  <1> HIDE DEF m
  <1>3. k \in Int /\ n % m \in 0 .. m - 1 /\ n = m * k + (n % m)
    BY <1>1, DivMod
  <1> DEFINE r == n % m
  <1> HIDE DEF k, r
  <1>4. m * k \in Int /\ r \in 0 .. m - 1 /\ x + GP_OFFSET = m * k + r
    BY <1>1, <1>3 DEF r
  <1>5. Lo(x) = x - m * k
    BY <1>2 DEF Lo
  <1>6. Lo(x) \in - GP_OFFSET .. GP_OFFSET - 1 /\ m * k + Lo(x) = x
    BY <1>1, <1>4, <1>5
  <1> QED BY <1>2, <1>3, <1>4, <1>6 DEF m

\* The first half of la adds to its own address,
LEMMA AuipcEffect ==
    ASSUME TypeOK, Instr, NEW w \in 0 .. 67, InText(w),
           NEW d \in Reg \ {0}, NEW symbol \in Int, NEW at, at = 4 * w,
           Text(build)[w + 1] = Op("OP_AUIPC", 0, d, zero, Hi(symbol - at))
    PROVE  Sets(d, Upper(at, symbol), 4 * w + 4) /\ Upper(at, symbol) \in Word
  <1> DEFINE n == Hi(symbol - at)
  <1>1. Reads(I, Op("OP_AUIPC", 0, d, zero, n))
    BY Fetches
  <1>2. at \in Int /\ n \in Int
    <2>1. at \in Int /\ symbol - at \in Int
      OBVIOUS
    <2> QED BY <2>1, Distance
  <1>3. Upper(at, symbol) = Wrap(at + n)
    BY DEF Upper
  <1> HIDE DEF n
  <1>4. I.opcode = "OP_AUIPC" /\ I.rd = d /\ I.imm = Wrap(n)
    BY <1>1 DEF Reads, Op, Unknown
  <1>5. Auipc
    BY <1>4, Dispatch
  <1>6. JumpTarget = Wrap(at + n) /\ Wrap(at + n) \in Word
    <2>1. pc = at
      BY DEF InText
    <2>2. JumpTarget = Wrap(at + Wrap(n))
      BY <1>4, <2>1 DEF JumpTarget
    <2>3. Wrap(at + Wrap(n)) = Wrap(at + n)
      BY <1>2, WrapSum
    <2>4. at + n \in Int
      BY <1>2
    <2>5. Wrap(at + n) \in Word
      BY <2>4, WrapType
    <2> QED BY <2>2, <2>3, <2>5
  <1>7. /\ regfile' = [[regfile EXCEPT ![d] = Wrap(at + n)] EXCEPT ![0] = 0]
        /\ pc' = 4 * w + 4 /\ UNCHANGED <<ram, instr_loop, out>>
    BY <1>4, <1>5, <1>6, NextWord DEF Auipc, Commit, WriteRd
  <1> QED BY <1>3, <1>6, <1>7, CommitSets DEF Sets

\* and the second the rest of the distance to the symbol.
LEMMA LaEffect ==
    ASSUME TypeOK, Instr, NEW w \in 1 .. 67, InText(w),
           NEW d \in Reg \ {0}, NEW symbol \in Int, NEW at, at = 4 * w - 4,
           Text(build)[w + 1] = Addi(d, d, Lo(symbol - at)), regfile[d] = Upper(at, symbol)
    PROVE  /\ Sets(d, Wrap(symbol), 4 * w + 4)
           /\ symbol \in 0 .. ram_end => Sets(d, symbol, 4 * w + 4)
  <1> DEFINE n == Hi(symbol - at)
             i == Lo(symbol - at)
  <1>1. at \in Int /\ n \in Int /\ i \in Int /\ n + i = symbol - at
    <2>1. at \in Int /\ symbol - at \in Int /\ GP_OFFSET \in Int
      BY LinkAssumption
    <2> QED BY <2>1, Distance
  <1>2. Sets(d, Sum(d, i), 4 * w + 4)
    <2>1. w \in 0 .. 67 /\ d \in Reg
      OBVIOUS
    <2> HIDE DEF n, i
    <2>2. Text(build)[w + 1] = Addi(d, d, i)
      BY DEF i
    <2> QED BY <1>1, <2>1, <2>2, AddiEffect
  <1>3. regfile[d] = Wrap(at + n)
    BY DEF Upper
  <1> HIDE DEF n, i
  <1>4. Sum(d, i) = Wrap(symbol)
    <2>1. Wrap(i + Wrap(at + n)) = Wrap(i + (at + n))
      BY <1>1, WrapSum
    <2>2. i + (at + n) = symbol
      BY <1>1
    <2>3. regfile[d] \in Int
      BY Moduli DEF TypeOK, Word
    <2>4. regfile[d] + i = i + Wrap(at + n)
      BY <1>1, <1>3, <2>3
    <2> QED BY <2>1, <2>2, <2>4 DEF Sum
  <1>5. symbol \in 0 .. ram_end => Wrap(symbol) = symbol
    <2>1. symbol \in 0 .. ram_end => symbol \in 0 .. RegMod - 1
      BY Sizes
    <2> QED BY <2>1, WrapSmall
  <1> QED BY <1>2, <1>4, <1>5

\* A csrr reads a counter, and takes the fetch and the hazard with it.
LEMMA CsrrEffect ==
    ASSUME TypeOK, Instr, NEW w \in 0 .. 67, InText(w),
           NEW d \in Reg \ {0}, NEW csr,
           Text(build)[w + 1] = Sys(2, d, zero, csr)
    PROVE  Sets(d, read_csr(csr), 4 * w + 4) /\ McycleAtRead \in mcycle .. mcycle'
  <1>1. Reads(I, Sys(2, d, zero, csr))
    BY Fetches
  <1>2. I.opcode = "OP_SYS" /\ I.funct3 = 2 /\ I.rd = d /\ I.uimm = csr
    BY <1>1 DEF Reads, Sys, Op, Unknown
  <1>3. Csr
    BY <1>2, Dispatch
  <1>4. read_csr(csr) \in Word
    BY CsrType
  <1>5. regfile' = [[regfile EXCEPT ![d] = read_csr(csr)] EXCEPT ![0] = 0]
    BY <1>2, <1>3 DEF Csr, Commit, WriteRd
  <1>6. pc' = 4 * w + 4 /\ UNCHANGED <<ram, instr_loop, out>>
    BY <1>3, NextWord DEF Csr, Commit
  <1>7. SysHazard \in {0, 1} /\ FetchStall \in {0, 1} /\ mcycle \in Nat
    BY FetchType, HazardStall DEF TypeOK, SysHazard, Hazard
  <1>8. mcycle' = mcycle + FetchStall + SysHazard + 1
    BY <1>3 DEF Csr, Commit
  <1>9. McycleAtRead \in mcycle .. mcycle'
    BY <1>7, <1>8 DEF McycleAtRead
  <1> QED BY <1>4, <1>5, <1>6, <1>9, CommitSets DEF Sets

\* An environment call leaves the registers alone.
LEMMA EcallEffect ==
    ASSUME TypeOK, Instr, NEW w \in 0 .. 67, InText(w), Text(build)[w + 1] = Sys(0, zero, zero, 0)
    PROVE  /\ pc' = 4 * w + 4 /\ UNCHANGED <<regfile, ram>>
           /\ instr_loop' = (regfile[A0] # E_EXIT)
           /\ out' = IF regfile[A0] = E_CHAR THEN Append(out, regfile[A1] % ByteMod) ELSE out
  <1>1. Reads(I, Sys(0, zero, zero, 0))
    BY Fetches
  <1>2. I.opcode = "OP_SYS" /\ I.funct3 = 0 /\ I.uimm = 0
    BY <1>1 DEF Reads, Sys, Op, Unknown
  <1>3. Ecall
    BY <1>2, Dispatch
  <1>4. regfile' = regfile
    BY <1>3, CommitKeeps DEF Ecall, Commit
  <1> QED BY <1>3, <1>4, NextWord DEF Ecall, Commit

-----------------------------------------------------------------------------
(* The listing of the text *)

\* crt0.S, as it is laid out from address zero.
LEMMA ListingStart ==
    ASSUME NEW l
    PROVE  /\ Text(l)[1] = Op("OP_AUIPC", 0, gp, zero, Hi(gp_symbol(l) - 0))
           /\ Text(l)[2] = Addi(gp, gp, Lo(gp_symbol(l) - 0))
           /\ Text(l)[3] = Op("OP_AUIPC", 0, sp, zero, Hi(stack_top - 8))
           /\ Text(l)[4] = Addi(sp, sp, Lo(stack_top - 8))
           /\ Text(l)[5] = Op("OP_AUIPC", 0, A0, zero, Hi(sidata(l) - 16))
           /\ Text(l)[6] = Addi(A0, A0, Lo(sidata(l) - 16))
           /\ Text(l)[7] = Op("OP_AUIPC", 0, A1, zero, Hi(sdata(l) - 24))
           /\ Text(l)[8] = Addi(A1, A1, Lo(sdata(l) - 24))
           /\ Text(l)[9] = Op("OP_AUIPC", 0, 12, zero, Hi(edata(l) - 32))
           /\ Text(l)[10] = Addi(12, 12, Lo(edata(l) - 32))
           /\ Text(l)[11] = Br(5, A1, 12, 24)
           /\ Text(l)[12] = Lw(2, t0, A0, 0)
           /\ Text(l)[13] = Sw(2, t0, A1, 0)
           /\ Text(l)[14] = Addi(A0, A0, 4)
           /\ Text(l)[15] = Addi(A1, A1, 4)
           /\ Text(l)[16] = Op("OP_JAL", 0, zero, zero, -20)
           /\ Text(l)[17] = Op("OP_AUIPC", 0, A0, zero, Hi(sbss(l) - 64))
           /\ Text(l)[18] = Addi(A0, A0, Lo(sbss(l) - 64))
           /\ Text(l)[19] = Op("OP_AUIPC", 0, A1, zero, Hi(ebss(l) - 72))
           /\ Text(l)[20] = Addi(A1, A1, Lo(ebss(l) - 72))
           /\ Text(l)[21] = Br(5, A0, A1, 16)
           /\ Text(l)[22] = Sw(2, zero, A0, 0)
           /\ Text(l)[23] = Addi(A0, A0, 4)
           /\ Text(l)[24] = Op("OP_JAL", 0, zero, zero, -12)
           /\ Text(l)[25] = Op("OP_JAL", 0, ra, zero, 16)
           /\ Text(l)[26] = Addi(A0, zero, E_EXIT)
           /\ Text(l)[27] = Sys(0, zero, zero, 0)
           /\ Text(l)[28] = Op("OP_JAL", 0, zero, zero, 0)
  <1> USE DEF Text, main, putchar_, query_performance_counter, query_instruction_counter, start_,
               copy_data_loop, zero_bss_loop, call_main, Pad, La, J, Call, Ret, Ecall_, csrr
  <1>1. Text(l)[1] = Op("OP_AUIPC", 0, gp, zero, Hi(gp_symbol(l) - 0))
    OBVIOUS
  <1>2. Text(l)[2] = Addi(gp, gp, Lo(gp_symbol(l) - 0))
    OBVIOUS
  <1>3. Text(l)[3] = Op("OP_AUIPC", 0, sp, zero, Hi(stack_top - 8))
    OBVIOUS
  <1>4. Text(l)[4] = Addi(sp, sp, Lo(stack_top - 8))
    OBVIOUS
  <1>5. Text(l)[5] = Op("OP_AUIPC", 0, A0, zero, Hi(sidata(l) - 16))
    OBVIOUS
  <1>6. Text(l)[6] = Addi(A0, A0, Lo(sidata(l) - 16))
    OBVIOUS
  <1>7. Text(l)[7] = Op("OP_AUIPC", 0, A1, zero, Hi(sdata(l) - 24))
    OBVIOUS
  <1>8. Text(l)[8] = Addi(A1, A1, Lo(sdata(l) - 24))
    OBVIOUS
  <1>9. Text(l)[9] = Op("OP_AUIPC", 0, 12, zero, Hi(edata(l) - 32))
    OBVIOUS
  <1>10. Text(l)[10] = Addi(12, 12, Lo(edata(l) - 32))
    OBVIOUS
  <1>11. Text(l)[11] = Br(5, A1, 12, 24)
    OBVIOUS
  <1>12. Text(l)[12] = Lw(2, t0, A0, 0)
    OBVIOUS
  <1>13. Text(l)[13] = Sw(2, t0, A1, 0)
    OBVIOUS
  <1>14. Text(l)[14] = Addi(A0, A0, 4)
    OBVIOUS
  <1>15. Text(l)[15] = Addi(A1, A1, 4)
    OBVIOUS
  <1>16. Text(l)[16] = Op("OP_JAL", 0, zero, zero, -20)
    OBVIOUS
  <1>17. Text(l)[17] = Op("OP_AUIPC", 0, A0, zero, Hi(sbss(l) - 64))
    OBVIOUS
  <1>18. Text(l)[18] = Addi(A0, A0, Lo(sbss(l) - 64))
    OBVIOUS
  <1>19. Text(l)[19] = Op("OP_AUIPC", 0, A1, zero, Hi(ebss(l) - 72))
    OBVIOUS
  <1>20. Text(l)[20] = Addi(A1, A1, Lo(ebss(l) - 72))
    OBVIOUS
  <1>21. Text(l)[21] = Br(5, A0, A1, 16)
    OBVIOUS
  <1>22. Text(l)[22] = Sw(2, zero, A0, 0)
    OBVIOUS
  <1>23. Text(l)[23] = Addi(A0, A0, 4)
    OBVIOUS
  <1>24. Text(l)[24] = Op("OP_JAL", 0, zero, zero, -12)
    OBVIOUS
  <1>25. Text(l)[25] = Op("OP_JAL", 0, ra, zero, 16)
    OBVIOUS
  <1>26. Text(l)[26] = Addi(A0, zero, E_EXIT)
    OBVIOUS
  <1>27. Text(l)[27] = Sys(0, zero, zero, 0)
    OBVIOUS
  <1>28. Text(l)[28] = Op("OP_JAL", 0, zero, zero, 0)
    OBVIOUS
  <1> HIDE DEF Text, main, putchar_, query_performance_counter, query_instruction_counter, start_,
                copy_data_loop, zero_bss_loop, call_main, Pad, La, J, Call, Ret, Ecall_, csrr
  <1> QED BY <1>1, <1>2, <1>3, <1>4, <1>5, <1>6, <1>7, <1>8, <1>9, <1>10, <1>11, <1>12,
            <1>13, <1>14, <1>15, <1>16, <1>17, <1>18, <1>19, <1>20, <1>21, <1>22, <1>23,
            <1>24, <1>25, <1>26, <1>27, <1>28

\* main and putchar_, which follow it.
LEMMA ListingMain ==
    ASSUME NEW l
    PROVE  /\ Text(l)[29] = Addi(sp, sp, -8)
           /\ Text(l)[30] = Sw(2, ra, sp, 4)
           /\ Text(l)[31] = Op("OP_AUIPC", 0, s0, zero, Hi(sdata(l) - 120))
           /\ Text(l)[32] = Addi(s0, s0, Lo(sdata(l) - 120))
           /\ Text(l)[33] = Op("OP_AUIPC", 0, s1, zero, Hi(ebss(l) - 128))
           /\ Text(l)[34] = Addi(s1, s1, Lo(ebss(l) - 128))
           /\ Text(l)[35] = Lw(2, t0, s1, 0)
           /\ Text(l)[36] = Br(1, t0, zero, 24)
           /\ Text(l)[37] = Sw(2, sp, s0, 0)
           /\ Text(l)[38] = Sw(2, sp, s1, -4)
           /\ Text(l)[39] = Addi(t0, zero, 1)
           /\ Text(l)[40] = Sw(2, t0, s1, 0)
           /\ Text(l)[41] = Op("OP_JAL", 0, zero, zero, -160)
           /\ Text(l)[42] = Sys(2, 15, zero, 2944)
           /\ Text(l)[43] = Sys(2, 14, zero, 2816)
           /\ Text(l)[44] = Sys(2, 13, zero, 2944)
           /\ Text(l)[45] = Br(1, 15, 13, -12)
           /\ Text(l)[46] = Addi(16, 14, 0)
           /\ Text(l)[47] = Sys(2, 28, zero, 2946)
           /\ Text(l)[48] = Sys(2, 29, zero, 2818)
           /\ Text(l)[49] = Sys(2, 30, zero, 2946)
           /\ Text(l)[50] = Br(1, 28, 30, -12)
           /\ Text(l)[51] = Br(0, 28, zero, -36)
           /\ Text(l)[52] = Op("OP_AUIPC", 0, s0, zero, Hi(sdata(l) - 204))
           /\ Text(l)[53] = Addi(s0, s0, Lo(sdata(l) - 204))
           /\ Text(l)[54] = Op("OP_AUIPC", 0, s1, zero, Hi(data_end(l) - 212))
           /\ Text(l)[55] = Addi(s1, s1, Lo(data_end(l) - 212))
           /\ Text(l)[56] = Br(5, s0, s1, 20)
           /\ Text(l)[57] = Lw(4, A0, s0, 0)
           /\ Text(l)[58] = Op("OP_JAL", 0, ra, zero, 24)
           /\ Text(l)[59] = Addi(s0, s0, 1)
           /\ Text(l)[60] = Op("OP_JAL", 0, zero, zero, -16)
           /\ Text(l)[61] = Lw(2, ra, sp, 4)
           /\ Text(l)[62] = Addi(sp, sp, 8)
           /\ Text(l)[63] = Op("OP_JALR", 0, zero, ra, 0)
           /\ Text(l)[64] = Addi(15, A0, 0)
           /\ Text(l)[65] = Addi(A0, zero, E_CHAR)
           /\ Text(l)[66] = Addi(A1, 15, 0)
           /\ Text(l)[67] = Sys(0, zero, zero, 0)
           /\ Text(l)[68] = Op("OP_JALR", 0, zero, ra, 0)
  <1> USE DEF Text, main, putchar_, query_performance_counter, query_instruction_counter, start_,
               copy_data_loop, zero_bss_loop, call_main, Pad, La, J, Call, Ret, Ecall_, csrr
  <1>1. Text(l)[29] = Addi(sp, sp, -8)
    OBVIOUS
  <1>2. Text(l)[30] = Sw(2, ra, sp, 4)
    OBVIOUS
  <1>3. Text(l)[31] = Op("OP_AUIPC", 0, s0, zero, Hi(sdata(l) - 120))
    OBVIOUS
  <1>4. Text(l)[32] = Addi(s0, s0, Lo(sdata(l) - 120))
    OBVIOUS
  <1>5. Text(l)[33] = Op("OP_AUIPC", 0, s1, zero, Hi(ebss(l) - 128))
    OBVIOUS
  <1>6. Text(l)[34] = Addi(s1, s1, Lo(ebss(l) - 128))
    OBVIOUS
  <1>7. Text(l)[35] = Lw(2, t0, s1, 0)
    OBVIOUS
  <1>8. Text(l)[36] = Br(1, t0, zero, 24)
    OBVIOUS
  <1>9. Text(l)[37] = Sw(2, sp, s0, 0)
    OBVIOUS
  <1>10. Text(l)[38] = Sw(2, sp, s1, -4)
    OBVIOUS
  <1>11. Text(l)[39] = Addi(t0, zero, 1)
    OBVIOUS
  <1>12. Text(l)[40] = Sw(2, t0, s1, 0)
    OBVIOUS
  <1>13. Text(l)[41] = Op("OP_JAL", 0, zero, zero, -160)
    OBVIOUS
  <1>14. Text(l)[42] = Sys(2, 15, zero, 2944)
    OBVIOUS
  <1>15. Text(l)[43] = Sys(2, 14, zero, 2816)
    OBVIOUS
  <1>16. Text(l)[44] = Sys(2, 13, zero, 2944)
    OBVIOUS
  <1>17. Text(l)[45] = Br(1, 15, 13, -12)
    OBVIOUS
  <1>18. Text(l)[46] = Addi(16, 14, 0)
    OBVIOUS
  <1>19. Text(l)[47] = Sys(2, 28, zero, 2946)
    OBVIOUS
  <1>20. Text(l)[48] = Sys(2, 29, zero, 2818)
    OBVIOUS
  <1>21. Text(l)[49] = Sys(2, 30, zero, 2946)
    OBVIOUS
  <1>22. Text(l)[50] = Br(1, 28, 30, -12)
    OBVIOUS
  <1>23. Text(l)[51] = Br(0, 28, zero, -36)
    OBVIOUS
  <1>24. Text(l)[52] = Op("OP_AUIPC", 0, s0, zero, Hi(sdata(l) - 204))
    OBVIOUS
  <1>25. Text(l)[53] = Addi(s0, s0, Lo(sdata(l) - 204))
    OBVIOUS
  <1>26. Text(l)[54] = Op("OP_AUIPC", 0, s1, zero, Hi(data_end(l) - 212))
    OBVIOUS
  <1>27. Text(l)[55] = Addi(s1, s1, Lo(data_end(l) - 212))
    OBVIOUS
  <1>28. Text(l)[56] = Br(5, s0, s1, 20)
    OBVIOUS
  <1>29. Text(l)[57] = Lw(4, A0, s0, 0)
    OBVIOUS
  <1>30. Text(l)[58] = Op("OP_JAL", 0, ra, zero, 24)
    OBVIOUS
  <1>31. Text(l)[59] = Addi(s0, s0, 1)
    OBVIOUS
  <1>32. Text(l)[60] = Op("OP_JAL", 0, zero, zero, -16)
    OBVIOUS
  <1>33. Text(l)[61] = Lw(2, ra, sp, 4)
    OBVIOUS
  <1>34. Text(l)[62] = Addi(sp, sp, 8)
    OBVIOUS
  <1>35. Text(l)[63] = Op("OP_JALR", 0, zero, ra, 0)
    OBVIOUS
  <1>36. Text(l)[64] = Addi(15, A0, 0)
    OBVIOUS
  <1>37. Text(l)[65] = Addi(A0, zero, E_CHAR)
    OBVIOUS
  <1>38. Text(l)[66] = Addi(A1, 15, 0)
    OBVIOUS
  <1>39. Text(l)[67] = Sys(0, zero, zero, 0)
    OBVIOUS
  <1>40. Text(l)[68] = Op("OP_JALR", 0, zero, ra, 0)
    OBVIOUS
  <1> HIDE DEF Text, main, putchar_, query_performance_counter, query_instruction_counter, start_,
                copy_data_loop, zero_bss_loop, call_main, Pad, La, J, Call, Ret, Ecall_, csrr
  <1> QED BY <1>1, <1>2, <1>3, <1>4, <1>5, <1>6, <1>7, <1>8, <1>9, <1>10, <1>11, <1>12,
            <1>13, <1>14, <1>15, <1>16, <1>17, <1>18, <1>19, <1>20, <1>21, <1>22, <1>23,
            <1>24, <1>25, <1>26, <1>27, <1>28, <1>29, <1>30, <1>31, <1>32, <1>33, <1>34,
            <1>35, <1>36, <1>37, <1>38, <1>39, <1>40

-----------------------------------------------------------------------------
(* What the words of the text do *)

\* The global pointer is a register value, although it may lie behind the RAM.
LEMMA GlobalPointer ==
    ASSUME NEW l \in Layouts
    PROVE  global_pointer(l) \in Word /\ global_pointer(l) \in Int /\ GP_OFFSET \in Int
  <1>1. sdata(l) + GP_OFFSET \in Int /\ GP_OFFSET \in Int
    BY LayoutFacts, LinkAssumption
  <1> QED BY <1>1, WrapType, Moduli DEF global_pointer, Word

\* crt0.S,
LEMMA StartText ==
    ASSUME TypeOK, Halfway, Instr, NEW w \in 0 .. 25, InText(w)
    PROVE  /\ w = 0 => Sets(gp, Upper(0, sdata(build) + GP_OFFSET), 4)
           /\ w = 1 => Sets(gp, global_pointer(build), 8)
           /\ w = 2 => Sets(sp, Upper(8, stack_top), 12)
           /\ w = 3 => Sets(sp, stack_top, 16)
           /\ w = 4 => Sets(A0, Upper(16, sidata(build)), 20)
           /\ w = 5 => Sets(A0, sidata(build), 24)
           /\ w = 6 => Sets(A1, Upper(24, sdata(build)), 28)
           /\ w = 7 => Sets(A1, sdata(build), 32)
           /\ w = 8 => Sets(12, Upper(32, edata(build)), 36)
           /\ w = 9 => Sets(12, edata(build), 40)
           /\ w = 10 => IF Signed(regfile[A1]) >= Signed(regfile[12]) THEN Goes(64) ELSE Goes(44)
           /\ w = 11 => Sets(t0, bus_read(rom, ram, regfile[A0], MEM_W, regfile[t0]), 48)
           /\ w = 12 => Stores(regfile[A1], t0, 52)
           /\ w = 13 => Sets(A0, Sum(A0, 4), 56)
           /\ w = 14 => Sets(A1, Sum(A1, 4), 60)
           /\ w = 15 => Goes(40)
           /\ w = 16 => Sets(A0, Upper(64, sbss(build)), 68)
           /\ w = 17 => Sets(A0, sbss(build), 72)
           /\ w = 18 => Sets(A1, Upper(72, ebss(build)), 76)
           /\ w = 19 => Sets(A1, ebss(build), 80)
           /\ w = 20 => IF Signed(regfile[A0]) >= Signed(regfile[A1]) THEN Goes(96) ELSE Goes(84)
           /\ w = 21 => Stores(regfile[A0], zero, 88)
           /\ w = 22 => Sets(A0, Sum(A0, 4), 92)
           /\ w = 23 => Goes(80)
           /\ w = 24 => Sets(ra, 100, 112)
           /\ w = 25 => Sets(A0, E_EXIT, 104)
  <1>1. /\ w \in 0 .. 67 /\ zero \in Reg /\ ra \in Reg \ {0} /\ sp \in Reg \ {0} /\ gp \in Reg \ {0}
        /\ t0 \in Reg \ {0} /\ s0 \in Reg \ {0} /\ s1 \in Reg \ {0}
        /\ A0 \in Reg \ {0} /\ A1 \in Reg \ {0}
        /\ \A r \in 12 .. 30 : r \in Reg \ {0}
    BY DEF Reg, zero, ra, sp, gp, t0, s0, s1, A0, A1
  <1>2. /\ build \in Layouts /\ stack_top \in 0 .. ram_end /\ sidata(build) \in 0 .. ram_end
        /\ stack_top \in Int /\ GP_OFFSET \in Int /\ sdata(build) + GP_OFFSET \in Int
        /\ sdata(build) \in 0 .. ram_end /\ edata(build) \in 0 .. ram_end
        /\ sbss(build) \in 0 .. ram_end /\ ebss(build) \in 0 .. ram_end
        /\ ebss(build) - 4 \in 0 .. ram_end /\ sdata(build) + build.data \in 0 .. ram_end
        /\ 1 \in 0 .. ram_end /\ E_EXIT \in 0 .. ram_end /\ E_CHAR \in 0 .. ram_end
    BY LayoutFacts, Sizes, LinkAssumption DEF InText, E_EXIT, E_CHAR
  <1>3. w = 0 => Sets(gp, Upper(0, sdata(build) + GP_OFFSET), 4)
    <2> SUFFICES ASSUME w = 0 PROVE Sets(gp, Upper(0, sdata(build) + GP_OFFSET), 4)
      OBVIOUS
    <2>1. Text(build)[w + 1] = Op("OP_AUIPC", 0, gp, zero, Hi(gp_symbol(build) - 0))
      BY ListingStart
    <2>2. gp_symbol(build) \in Int
      BY <1>2 DEF gp_symbol
    <2>3. w \in 0 .. 67 /\ gp \in Reg \ {0} /\ 0 = 4 * w /\ 4 * w + 4 = 4
      BY <1>1
    <2>4. Sets(gp, Upper(0, gp_symbol(build)), 4 * w + 4)
      BY <2>1, <2>2, <2>3, AuipcEffect
    <2>5. Sets(gp, Upper(0, gp_symbol(build)), 4)
      BY <2>3, <2>4
    <2> QED BY <2>5 DEF gp_symbol
  <1>4. w = 1 => Sets(gp, global_pointer(build), 8)
    <2> SUFFICES ASSUME w = 1 PROVE Sets(gp, global_pointer(build), 8)
      OBVIOUS
    <2>1. Text(build)[w + 1] = Addi(gp, gp, Lo(gp_symbol(build) - 0))
      BY ListingStart
    <2>2. regfile[gp] = Upper(0, gp_symbol(build))
      BY DEF Halfway, InText, gp_symbol
    <2>3. gp_symbol(build) \in Int
      BY <1>2 DEF gp_symbol
    <2>4. w \in 1 .. 67 /\ gp \in Reg \ {0} /\ 0 = 4 * w - 4 /\ 4 * w + 4 = 8
      BY <1>1
    <2>5. Sets(gp, Wrap(gp_symbol(build)), 4 * w + 4)
      BY <2>1, <2>2, <2>3, <2>4, LaEffect
    <2>6. Sets(gp, Wrap(gp_symbol(build)), 8)
      BY <2>4, <2>5
    <2> QED BY <2>6 DEF gp_symbol, global_pointer
  <1>5. w = 2 => Sets(sp, Upper(8, stack_top), 12)
    <2> SUFFICES ASSUME w = 2 PROVE Sets(sp, Upper(8, stack_top), 12)
      OBVIOUS
    <2>1. Text(build)[w + 1] = Op("OP_AUIPC", 0, sp, zero, Hi(stack_top - 8))
      BY ListingStart
    <2>2. w \in 0 .. 67 /\ sp \in Reg \ {0} /\ stack_top \in Int /\ 8 = 4 * w /\ 4 * w + 4 = 12
      BY <1>1, <1>2
    <2>3. Sets(sp, Upper(8, stack_top), 4 * w + 4)
      BY <2>1, <2>2, AuipcEffect
    <2> QED BY <2>2, <2>3
  <1>6. w = 3 => Sets(sp, stack_top, 16)
    <2> SUFFICES ASSUME w = 3 PROVE Sets(sp, stack_top, 16)
      OBVIOUS
    <2>1. Text(build)[w + 1] = Addi(sp, sp, Lo(stack_top - 8))
      BY ListingStart
    <2>2. regfile[sp] = Upper(8, stack_top)
      BY DEF Halfway, InText
    <2>3. w \in 1 .. 67 /\ sp \in Reg \ {0} /\ stack_top \in 0 .. ram_end /\ stack_top \in Int
          /\ 8 = 4 * w - 4 /\ 4 * w + 4 = 16
      BY <1>1, <1>2
    <2>4. Sets(sp, stack_top, 4 * w + 4)
      BY <2>1, <2>2, <2>3, LaEffect
    <2> QED BY <2>3, <2>4
  <1>7. w = 4 => Sets(A0, Upper(16, sidata(build)), 20)
    <2> SUFFICES ASSUME w = 4 PROVE Sets(A0, Upper(16, sidata(build)), 20)
      OBVIOUS
    <2>1. Text(build)[w + 1] = Op("OP_AUIPC", 0, A0, zero, Hi(sidata(build) - 16))
      BY ListingStart
    <2>2. w \in 0 .. 67 /\ A0 \in Reg \ {0} /\ sidata(build) \in Int /\ 16 = 4 * w /\ 4 * w + 4 = 20
      BY <1>1, <1>2
    <2>3. Sets(A0, Upper(16, sidata(build)), 4 * w + 4)
      BY <2>1, <2>2, AuipcEffect
    <2> QED BY <2>2, <2>3
  <1>8. w = 5 => Sets(A0, sidata(build), 24)
    <2> SUFFICES ASSUME w = 5 PROVE Sets(A0, sidata(build), 24)
      OBVIOUS
    <2>1. Text(build)[w + 1] = Addi(A0, A0, Lo(sidata(build) - 16))
      BY ListingStart
    <2>2. regfile[A0] = Upper(16, sidata(build))
      BY DEF Halfway, InText
    <2>3. w \in 1 .. 67 /\ A0 \in Reg \ {0} /\ sidata(build) \in 0 .. ram_end
          /\ sidata(build) \in Int
          /\ 16 = 4 * w - 4 /\ 4 * w + 4 = 24
      BY <1>1, <1>2
    <2>4. Sets(A0, sidata(build), 4 * w + 4)
      BY <2>1, <2>2, <2>3, LaEffect
    <2> QED BY <2>3, <2>4
  <1>9. w = 6 => Sets(A1, Upper(24, sdata(build)), 28)
    <2> SUFFICES ASSUME w = 6 PROVE Sets(A1, Upper(24, sdata(build)), 28)
      OBVIOUS
    <2>1. Text(build)[w + 1] = Op("OP_AUIPC", 0, A1, zero, Hi(sdata(build) - 24))
      BY ListingStart
    <2>2. w \in 0 .. 67 /\ A1 \in Reg \ {0} /\ sdata(build) \in Int /\ 24 = 4 * w /\ 4 * w + 4 = 28
      BY <1>1, <1>2
    <2>3. Sets(A1, Upper(24, sdata(build)), 4 * w + 4)
      BY <2>1, <2>2, AuipcEffect
    <2> QED BY <2>2, <2>3
  <1>10. w = 7 => Sets(A1, sdata(build), 32)
    <2> SUFFICES ASSUME w = 7 PROVE Sets(A1, sdata(build), 32)
      OBVIOUS
    <2>1. Text(build)[w + 1] = Addi(A1, A1, Lo(sdata(build) - 24))
      BY ListingStart
    <2>2. regfile[A1] = Upper(24, sdata(build))
      BY DEF Halfway, InText
    <2>3. w \in 1 .. 67 /\ A1 \in Reg \ {0} /\ sdata(build) \in 0 .. ram_end /\ sdata(build) \in Int
          /\ 24 = 4 * w - 4 /\ 4 * w + 4 = 32
      BY <1>1, <1>2
    <2>4. Sets(A1, sdata(build), 4 * w + 4)
      BY <2>1, <2>2, <2>3, LaEffect
    <2> QED BY <2>3, <2>4
  <1>11. w = 8 => Sets(12, Upper(32, edata(build)), 36)
    <2> SUFFICES ASSUME w = 8 PROVE Sets(12, Upper(32, edata(build)), 36)
      OBVIOUS
    <2>1. Text(build)[w + 1] = Op("OP_AUIPC", 0, 12, zero, Hi(edata(build) - 32))
      BY ListingStart
    <2>2. w \in 0 .. 67 /\ 12 \in Reg \ {0} /\ edata(build) \in Int /\ 32 = 4 * w /\ 4 * w + 4 = 36
      BY <1>1, <1>2
    <2>3. Sets(12, Upper(32, edata(build)), 4 * w + 4)
      BY <2>1, <2>2, AuipcEffect
    <2> QED BY <2>2, <2>3
  <1>12. w = 9 => Sets(12, edata(build), 40)
    <2> SUFFICES ASSUME w = 9 PROVE Sets(12, edata(build), 40)
      OBVIOUS
    <2>1. Text(build)[w + 1] = Addi(12, 12, Lo(edata(build) - 32))
      BY ListingStart
    <2>2. regfile[12] = Upper(32, edata(build))
      BY DEF Halfway, InText
    <2>3. w \in 1 .. 67 /\ 12 \in Reg \ {0} /\ edata(build) \in 0 .. ram_end /\ edata(build) \in Int
          /\ 32 = 4 * w - 4 /\ 4 * w + 4 = 40
      BY <1>1, <1>2
    <2>4. Sets(12, edata(build), 4 * w + 4)
      BY <2>1, <2>2, <2>3, LaEffect
    <2> QED BY <2>3, <2>4
  <1>13. w = 10 => IF Signed(regfile[A1]) >= Signed(regfile[12]) THEN Goes(64) ELSE Goes(44)
    <2> SUFFICES ASSUME w = 10
                 PROVE IF Signed(regfile[A1]) >= Signed(regfile[12]) THEN Goes(64) ELSE Goes(44)
      OBVIOUS
    <2>1. Text(build)[w + 1] = Br(5, A1, 12, 24)
      BY ListingStart
    <2>2. 4 * w + 24 = 64 /\ 4 * w + 4 = 44 /\ 64 \in 0 .. 272 /\ 24 \in Int
      OBVIOUS
    <2>3. w \in 0 .. 67 /\ A1 \in Reg /\ 12 \in Reg
      BY <1>1
    <2>4. IF Signed(regfile[A1]) >= Signed(regfile[12]) THEN Goes(4 * w + 24) ELSE Goes(4 * w + 4)
      BY <2>1, <2>2, <2>3, BgeEffect
    <2> QED BY <2>2, <2>4
  <1>14. w = 11 => Sets(t0, bus_read(rom, ram, regfile[A0], MEM_W, regfile[t0]), 48)
    BY <1>1, <1>2, LwEffect, ListingStart, Sums DEF MEM_W, MEM_BU
  <1>15. w = 12 => Stores(regfile[A1], t0, 52)
    BY <1>1, <1>2, SwEffect, ListingStart, Sums DEF MEM_W, MEM_BU
  <1>16. w = 13 => Sets(A0, Sum(A0, 4), 56)
    BY <1>1, <1>2, AddiEffect, ListingStart, Sums
  <1>17. w = 14 => Sets(A1, Sum(A1, 4), 60)
    BY <1>1, <1>2, AddiEffect, ListingStart, Sums
  <1>18. w = 15 => Goes(40)
    BY <1>1, <1>2, JEffect, ListingStart
  <1>19. w = 16 => Sets(A0, Upper(64, sbss(build)), 68)
    <2> SUFFICES ASSUME w = 16 PROVE Sets(A0, Upper(64, sbss(build)), 68)
      OBVIOUS
    <2>1. Text(build)[w + 1] = Op("OP_AUIPC", 0, A0, zero, Hi(sbss(build) - 64))
      BY ListingStart
    <2>2. w \in 0 .. 67 /\ A0 \in Reg \ {0} /\ sbss(build) \in Int /\ 64 = 4 * w /\ 4 * w + 4 = 68
      BY <1>1, <1>2
    <2>3. Sets(A0, Upper(64, sbss(build)), 4 * w + 4)
      BY <2>1, <2>2, AuipcEffect
    <2> QED BY <2>2, <2>3
  <1>20. w = 17 => Sets(A0, sbss(build), 72)
    <2> SUFFICES ASSUME w = 17 PROVE Sets(A0, sbss(build), 72)
      OBVIOUS
    <2>1. Text(build)[w + 1] = Addi(A0, A0, Lo(sbss(build) - 64))
      BY ListingStart
    <2>2. regfile[A0] = Upper(64, sbss(build))
      BY DEF Halfway, InText
    <2>3. w \in 1 .. 67 /\ A0 \in Reg \ {0} /\ sbss(build) \in 0 .. ram_end /\ sbss(build) \in Int
          /\ 64 = 4 * w - 4 /\ 4 * w + 4 = 72
      BY <1>1, <1>2
    <2>4. Sets(A0, sbss(build), 4 * w + 4)
      BY <2>1, <2>2, <2>3, LaEffect
    <2> QED BY <2>3, <2>4
  <1>21. w = 18 => Sets(A1, Upper(72, ebss(build)), 76)
    <2> SUFFICES ASSUME w = 18 PROVE Sets(A1, Upper(72, ebss(build)), 76)
      OBVIOUS
    <2>1. Text(build)[w + 1] = Op("OP_AUIPC", 0, A1, zero, Hi(ebss(build) - 72))
      BY ListingStart
    <2>2. w \in 0 .. 67 /\ A1 \in Reg \ {0} /\ ebss(build) \in Int /\ 72 = 4 * w /\ 4 * w + 4 = 76
      BY <1>1, <1>2
    <2>3. Sets(A1, Upper(72, ebss(build)), 4 * w + 4)
      BY <2>1, <2>2, AuipcEffect
    <2> QED BY <2>2, <2>3
  <1>22. w = 19 => Sets(A1, ebss(build), 80)
    <2> SUFFICES ASSUME w = 19 PROVE Sets(A1, ebss(build), 80)
      OBVIOUS
    <2>1. Text(build)[w + 1] = Addi(A1, A1, Lo(ebss(build) - 72))
      BY ListingStart
    <2>2. regfile[A1] = Upper(72, ebss(build))
      BY DEF Halfway, InText
    <2>3. w \in 1 .. 67 /\ A1 \in Reg \ {0} /\ ebss(build) \in 0 .. ram_end /\ ebss(build) \in Int
          /\ 72 = 4 * w - 4 /\ 4 * w + 4 = 80
      BY <1>1, <1>2
    <2>4. Sets(A1, ebss(build), 4 * w + 4)
      BY <2>1, <2>2, <2>3, LaEffect
    <2> QED BY <2>3, <2>4
  <1>23. w = 20 => IF Signed(regfile[A0]) >= Signed(regfile[A1]) THEN Goes(96) ELSE Goes(84)
    <2> SUFFICES ASSUME w = 20
                 PROVE IF Signed(regfile[A0]) >= Signed(regfile[A1]) THEN Goes(96) ELSE Goes(84)
      OBVIOUS
    <2>1. Text(build)[w + 1] = Br(5, A0, A1, 16)
      BY ListingStart
    <2>2. 4 * w + 16 = 96 /\ 4 * w + 4 = 84 /\ 96 \in 0 .. 272 /\ 16 \in Int
      OBVIOUS
    <2>3. w \in 0 .. 67 /\ A0 \in Reg /\ A1 \in Reg
      BY <1>1
    <2>4. IF Signed(regfile[A0]) >= Signed(regfile[A1]) THEN Goes(4 * w + 16) ELSE Goes(4 * w + 4)
      BY <2>1, <2>2, <2>3, BgeEffect
    <2> QED BY <2>2, <2>4
  <1>24. w = 21 => Stores(regfile[A0], zero, 88)
    BY <1>1, <1>2, SwEffect, ListingStart, Sums DEF MEM_W, MEM_BU
  <1>25. w = 22 => Sets(A0, Sum(A0, 4), 92)
    BY <1>1, <1>2, AddiEffect, ListingStart, Sums
  <1>26. w = 23 => Goes(80)
    BY <1>1, <1>2, JEffect, ListingStart
  <1>27. w = 24 => Sets(ra, 100, 112)
    BY <1>1, <1>2, CallEffect, ListingStart
  <1>28. w = 25 => Sets(A0, E_EXIT, 104)
    BY <1>1, <1>2, AddiEffect, ListingStart, Sums
  <1> QED BY <1>3, <1>4, <1>5, <1>6, <1>7, <1>8, <1>9, <1>10, <1>11, <1>12, <1>13, <1>14,
             <1>15, <1>16, <1>17, <1>18, <1>19, <1>20, <1>21, <1>22, <1>23, <1>24, <1>25,
             <1>26, <1>27, <1>28

\* main up to the restart,
LEMMA MainText ==
    ASSUME TypeOK, Halfway, Instr, NEW w \in 28 .. 40, InText(w)
    PROVE  /\ w = 28 => Sets(sp, Sum(sp, -8), 116)
           /\ w = 29 => Stores(Sum(sp, 4), ra, 120)
           /\ w = 30 => Sets(s0, Upper(120, sdata(build)), 124)
           /\ w = 31 => Sets(s0, Sum(s0, Lo(sdata(build) - 120)), 128)
           /\ w = 32 => Sets(s1, Upper(128, ebss(build)), 132)
           /\ w = 33 => Sets(s1, Sum(s1, Lo(ebss(build) - 128)), 136)
           /\ w = 34 => Sets(t0, bus_read(rom, ram, regfile[s1], MEM_W, regfile[t0]), 140)
           /\ w = 35 => IF regfile[t0] # regfile[zero] THEN Goes(164) ELSE Goes(144)
           /\ w = 36 => Stores(regfile[s0], sp, 148)
           /\ w = 37 => Stores(Sum(s1, -4), sp, 152)
           /\ w = 38 => Sets(t0, 1, 156)
           /\ w = 39 => Stores(regfile[s1], t0, 160)
           /\ w = 40 => Goes(0)
  <1>1. /\ w \in 0 .. 67 /\ zero \in Reg /\ ra \in Reg \ {0} /\ sp \in Reg \ {0} /\ gp \in Reg \ {0}
        /\ t0 \in Reg \ {0} /\ s0 \in Reg \ {0} /\ s1 \in Reg \ {0}
        /\ A0 \in Reg \ {0} /\ A1 \in Reg \ {0}
        /\ \A r \in 12 .. 30 : r \in Reg \ {0}
    BY DEF Reg, zero, ra, sp, gp, t0, s0, s1, A0, A1
  <1>2. /\ build \in Layouts /\ stack_top \in 0 .. ram_end /\ sidata(build) \in 0 .. ram_end
        /\ stack_top \in Int /\ GP_OFFSET \in Int /\ sdata(build) + GP_OFFSET \in Int
        /\ sdata(build) \in 0 .. ram_end /\ edata(build) \in 0 .. ram_end
        /\ sbss(build) \in 0 .. ram_end /\ ebss(build) \in 0 .. ram_end
        /\ ebss(build) - 4 \in 0 .. ram_end /\ sdata(build) + build.data \in 0 .. ram_end
        /\ 1 \in 0 .. ram_end /\ E_EXIT \in 0 .. ram_end /\ E_CHAR \in 0 .. ram_end
    BY LayoutFacts, Sizes, LinkAssumption DEF InText, E_EXIT, E_CHAR
  <1>3. w = 28 => Sets(sp, Sum(sp, -8), 116)
    BY <1>1, <1>2, AddiEffect, ListingMain, Sums
  <1>4. w = 29 => Stores(Sum(sp, 4), ra, 120)
    BY <1>1, <1>2, SwEffect, ListingMain, Sums DEF MEM_W, MEM_BU
  <1>5. w = 30 => Sets(s0, Upper(120, sdata(build)), 124)
    <2> SUFFICES ASSUME w = 30 PROVE Sets(s0, Upper(120, sdata(build)), 124)
      OBVIOUS
    <2>1. Text(build)[w + 1] = Op("OP_AUIPC", 0, s0, zero, Hi(sdata(build) - 120))
      BY ListingMain
    <2>2. w \in 0 .. 67 /\ s0 \in Reg \ {0} /\ sdata(build) \in Int /\ 120 = 4 * w
          /\ 4 * w + 4 = 124
      BY <1>1, <1>2
    <2>3. Sets(s0, Upper(120, sdata(build)), 4 * w + 4)
      BY <2>1, <2>2, AuipcEffect
    <2> QED BY <2>2, <2>3
  <1>6. w = 31 => Sets(s0, Sum(s0, Lo(sdata(build) - 120)), 128)
    <2> SUFFICES ASSUME w = 31 PROVE Sets(s0, Sum(s0, Lo(sdata(build) - 120)), 128)
      OBVIOUS
    <2>1. Text(build)[w + 1] = Addi(s0, s0, Lo(sdata(build) - 120))
      BY ListingMain
    <2>2. w \in 0 .. 67 /\ s0 \in Reg \ {0} /\ s0 \in Reg /\ Lo(sdata(build) - 120) \in Int
          /\ 4 * w + 4 = 128
      BY <1>1, <1>2, Distance, LinkAssumption
    <2>3. Sets(s0, Sum(s0, Lo(sdata(build) - 120)), 4 * w + 4)
      BY <2>1, <2>2, AddiEffect
    <2> QED BY <2>2, <2>3
  <1>7. w = 32 => Sets(s1, Upper(128, ebss(build)), 132)
    <2> SUFFICES ASSUME w = 32 PROVE Sets(s1, Upper(128, ebss(build)), 132)
      OBVIOUS
    <2>1. Text(build)[w + 1] = Op("OP_AUIPC", 0, s1, zero, Hi(ebss(build) - 128))
      BY ListingMain
    <2>2. w \in 0 .. 67 /\ s1 \in Reg \ {0} /\ ebss(build) \in Int /\ 128 = 4 * w /\ 4 * w + 4 = 132
      BY <1>1, <1>2
    <2>3. Sets(s1, Upper(128, ebss(build)), 4 * w + 4)
      BY <2>1, <2>2, AuipcEffect
    <2> QED BY <2>2, <2>3
  <1>8. w = 33 => Sets(s1, Sum(s1, Lo(ebss(build) - 128)), 136)
    <2> SUFFICES ASSUME w = 33 PROVE Sets(s1, Sum(s1, Lo(ebss(build) - 128)), 136)
      OBVIOUS
    <2>1. Text(build)[w + 1] = Addi(s1, s1, Lo(ebss(build) - 128))
      BY ListingMain
    <2>2. w \in 0 .. 67 /\ s1 \in Reg \ {0} /\ s1 \in Reg /\ Lo(ebss(build) - 128) \in Int
          /\ 4 * w + 4 = 136
      BY <1>1, <1>2, Distance, LinkAssumption
    <2>3. Sets(s1, Sum(s1, Lo(ebss(build) - 128)), 4 * w + 4)
      BY <2>1, <2>2, AddiEffect
    <2> QED BY <2>2, <2>3
  <1>9. w = 34 => Sets(t0, bus_read(rom, ram, regfile[s1], MEM_W, regfile[t0]), 140)
    BY <1>1, <1>2, LwEffect, ListingMain, Sums DEF MEM_W, MEM_BU
  <1>10. w = 35 => IF regfile[t0] # regfile[zero] THEN Goes(164) ELSE Goes(144)
    <2> SUFFICES ASSUME w = 35 PROVE IF regfile[t0] # regfile[zero] THEN Goes(164) ELSE Goes(144)
      OBVIOUS
    <2>1. Text(build)[w + 1] = Br(1, t0, zero, 24)
      BY ListingMain
    <2>2. 4 * w + 24 = 164 /\ 4 * w + 4 = 144 /\ 164 \in 0 .. 272 /\ 24 \in Int
      OBVIOUS
    <2>3. w \in 0 .. 67 /\ t0 \in Reg /\ zero \in Reg
      BY <1>1
    <2>4. IF regfile[t0] # regfile[zero] THEN Goes(4 * w + 24) ELSE Goes(4 * w + 4)
      BY <2>1, <2>2, <2>3, BneEffect
    <2> QED BY <2>2, <2>4
  <1>11. w = 36 => Stores(regfile[s0], sp, 148)
    BY <1>1, <1>2, SwEffect, ListingMain, Sums DEF MEM_W, MEM_BU
  <1>12. w = 37 => Stores(Sum(s1, -4), sp, 152)
    BY <1>1, <1>2, SwEffect, ListingMain, Sums DEF MEM_W, MEM_BU
  <1>13. w = 38 => Sets(t0, 1, 156)
    BY <1>1, <1>2, AddiEffect, ListingMain, Sums
  <1>14. w = 39 => Stores(regfile[s1], t0, 160)
    BY <1>1, <1>2, SwEffect, ListingMain, Sums DEF MEM_W, MEM_BU
  <1>15. w = 40 => Goes(0)
    BY <1>1, <1>2, JEffect, ListingMain
  <1> QED BY <1>3, <1>4, <1>5, <1>6, <1>7, <1>8, <1>9, <1>10, <1>11, <1>12, <1>13, <1>14, <1>15

\* its reads of the counters,
LEMMA CounterText ==
    ASSUME TypeOK, Instr, NEW w \in 41 .. 50, InText(w)
    PROVE  /\ w = 41 => Sets(15, read_csr(2944), 168)
           /\ w = 42 => Sets(14, read_csr(2816), 172)
           /\ w = 43 => Sets(13, read_csr(2944), 176)
           /\ w = 44 => IF regfile[15] # regfile[13] THEN Goes(164) ELSE Goes(180)
           /\ w = 45 => Sets(16, regfile[14], 184)
           /\ w = 46 => Sets(28, read_csr(2946), 188)
           /\ w = 47 => Sets(29, read_csr(2818), 192)
           /\ w = 48 => Sets(30, read_csr(2946), 196)
           /\ w = 49 => IF regfile[28] # regfile[30] THEN Goes(184) ELSE Goes(200)
           /\ w = 50 => IF regfile[28] = regfile[zero] THEN Goes(164) ELSE Goes(204)
  <1>1. /\ w \in 0 .. 67 /\ zero \in Reg /\ ra \in Reg \ {0} /\ sp \in Reg \ {0} /\ gp \in Reg \ {0}
        /\ t0 \in Reg \ {0} /\ s0 \in Reg \ {0} /\ s1 \in Reg \ {0}
        /\ A0 \in Reg \ {0} /\ A1 \in Reg \ {0}
        /\ \A r \in 12 .. 30 : r \in Reg \ {0}
    BY DEF Reg, zero, ra, sp, gp, t0, s0, s1, A0, A1
  <1>2. /\ build \in Layouts /\ stack_top \in 0 .. ram_end /\ sidata(build) \in 0 .. ram_end
        /\ sdata(build) \in 0 .. ram_end /\ edata(build) \in 0 .. ram_end
        /\ sbss(build) \in 0 .. ram_end /\ ebss(build) \in 0 .. ram_end
        /\ ebss(build) - 4 \in 0 .. ram_end /\ sdata(build) + build.data \in 0 .. ram_end
        /\ 1 \in 0 .. ram_end /\ E_EXIT \in 0 .. ram_end /\ E_CHAR \in 0 .. ram_end
    BY LayoutFacts, Sizes DEF InText, E_EXIT, E_CHAR
  <1>3. w = 41 => Sets(15, read_csr(2944), 168)
    BY <1>1, <1>2, CsrrEffect, ListingMain DEF Reg
  <1>4. w = 42 => Sets(14, read_csr(2816), 172)
    BY <1>1, <1>2, CsrrEffect, ListingMain DEF Reg
  <1>5. w = 43 => Sets(13, read_csr(2944), 176)
    BY <1>1, <1>2, CsrrEffect, ListingMain DEF Reg
  <1>6. w = 44 => IF regfile[15] # regfile[13] THEN Goes(164) ELSE Goes(180)
    <2> SUFFICES ASSUME w = 44 PROVE IF regfile[15] # regfile[13] THEN Goes(164) ELSE Goes(180)
      OBVIOUS
    <2>1. Text(build)[w + 1] = Br(1, 15, 13, -12)
      BY ListingMain
    <2>2. 4 * w + (-12) = 164 /\ 4 * w + 4 = 180 /\ 164 \in 0 .. 272 /\ -12 \in Int
      OBVIOUS
    <2>3. w \in 0 .. 67 /\ 15 \in Reg /\ 13 \in Reg
      BY <1>1
    <2>4. IF regfile[15] # regfile[13] THEN Goes(4 * w + (-12)) ELSE Goes(4 * w + 4)
      BY <2>1, <2>2, <2>3, BneEffect
    <2> QED BY <2>2, <2>4
  <1>7. w = 45 => Sets(16, regfile[14], 184)
    BY <1>1, <1>2, AddiEffect, ListingMain, Sums
  <1>8. w = 46 => Sets(28, read_csr(2946), 188)
    BY <1>1, <1>2, CsrrEffect, ListingMain DEF Reg
  <1>9. w = 47 => Sets(29, read_csr(2818), 192)
    BY <1>1, <1>2, CsrrEffect, ListingMain DEF Reg
  <1>10. w = 48 => Sets(30, read_csr(2946), 196)
    BY <1>1, <1>2, CsrrEffect, ListingMain DEF Reg
  <1>11. w = 49 => IF regfile[28] # regfile[30] THEN Goes(184) ELSE Goes(200)
    <2> SUFFICES ASSUME w = 49 PROVE IF regfile[28] # regfile[30] THEN Goes(184) ELSE Goes(200)
      OBVIOUS
    <2>1. Text(build)[w + 1] = Br(1, 28, 30, -12)
      BY ListingMain
    <2>2. 4 * w + (-12) = 184 /\ 4 * w + 4 = 200 /\ 184 \in 0 .. 272 /\ -12 \in Int
      OBVIOUS
    <2>3. w \in 0 .. 67 /\ 28 \in Reg /\ 30 \in Reg
      BY <1>1
    <2>4. IF regfile[28] # regfile[30] THEN Goes(4 * w + (-12)) ELSE Goes(4 * w + 4)
      BY <2>1, <2>2, <2>3, BneEffect
    <2> QED BY <2>2, <2>4
  <1>12. w = 50 => IF regfile[28] = regfile[zero] THEN Goes(164) ELSE Goes(204)
    <2> SUFFICES ASSUME w = 50 PROVE IF regfile[28] = regfile[zero] THEN Goes(164) ELSE Goes(204)
      OBVIOUS
    <2>1. Text(build)[w + 1] = Br(0, 28, zero, -36)
      BY ListingMain
    <2>2. 4 * w + (-36) = 164 /\ 4 * w + 4 = 204 /\ 164 \in 0 .. 272 /\ -36 \in Int
      OBVIOUS
    <2>3. w \in 0 .. 67 /\ 28 \in Reg /\ zero \in Reg
      BY <1>1
    <2>4. IF regfile[28] = regfile[zero] THEN Goes(4 * w + (-36)) ELSE Goes(4 * w + 4)
      BY <2>1, <2>2, <2>3, BeqEffect
    <2> QED BY <2>2, <2>4
  <1> QED BY <1>3, <1>4, <1>5, <1>6, <1>7, <1>8, <1>9, <1>10, <1>11, <1>12

\* its output and its return, and putchar_.
LEMMA PrintText ==
    ASSUME TypeOK, Halfway, Instr, NEW w \in 51 .. 67, InText(w)
    PROVE  /\ w = 51 => Sets(s0, Upper(204, sdata(build)), 208)
           /\ w = 52 => Sets(s0, sdata(build), 212)
           /\ w = 53 => Sets(s1, Upper(212, sdata(build) + build.data), 216)
           /\ w = 54 => Sets(s1, sdata(build) + build.data, 220)
           /\ w = 55 => IF Signed(regfile[s0]) >= Signed(regfile[s1]) THEN Goes(240) ELSE Goes(224)
           /\ w = 56 => Sets(A0, bus_read(rom, ram, regfile[s0], MEM_BU, regfile[A0]), 228)
           /\ w = 57 => Sets(ra, 232, 252)
           /\ w = 58 => Sets(s0, Sum(s0, 1), 236)
           /\ w = 59 => Goes(220)
           /\ w = 60 => Sets(ra, bus_read(rom, ram, Sum(sp, 4), MEM_W, regfile[ra]), 244)
           /\ w = 61 => Sets(sp, Sum(sp, 8), 248)
           /\ w = 62 /\ regfile[ra] % 2 = 0 => Goes(regfile[ra])
           /\ w = 63 => Sets(15, regfile[A0], 256)
           /\ w = 64 => Sets(A0, E_CHAR, 260)
           /\ w = 65 => Sets(A1, regfile[15], 264)
           /\ w = 67 /\ regfile[ra] % 2 = 0 => Goes(regfile[ra])
  <1>1. /\ w \in 0 .. 67 /\ zero \in Reg /\ ra \in Reg \ {0} /\ sp \in Reg \ {0} /\ gp \in Reg \ {0}
        /\ t0 \in Reg \ {0} /\ s0 \in Reg \ {0} /\ s1 \in Reg \ {0}
        /\ A0 \in Reg \ {0} /\ A1 \in Reg \ {0}
        /\ \A r \in 12 .. 30 : r \in Reg \ {0}
    BY DEF Reg, zero, ra, sp, gp, t0, s0, s1, A0, A1
  <1>2. /\ build \in Layouts /\ stack_top \in 0 .. ram_end /\ sidata(build) \in 0 .. ram_end
        /\ stack_top \in Int /\ GP_OFFSET \in Int /\ sdata(build) + GP_OFFSET \in Int
        /\ sdata(build) \in 0 .. ram_end /\ edata(build) \in 0 .. ram_end
        /\ sbss(build) \in 0 .. ram_end /\ ebss(build) \in 0 .. ram_end
        /\ ebss(build) - 4 \in 0 .. ram_end /\ sdata(build) + build.data \in 0 .. ram_end
        /\ 1 \in 0 .. ram_end /\ E_EXIT \in 0 .. ram_end /\ E_CHAR \in 0 .. ram_end
    BY LayoutFacts, Sizes, LinkAssumption DEF InText, E_EXIT, E_CHAR
  <1>3. w = 51 => Sets(s0, Upper(204, sdata(build)), 208)
    <2> SUFFICES ASSUME w = 51 PROVE Sets(s0, Upper(204, sdata(build)), 208)
      OBVIOUS
    <2>1. Text(build)[w + 1] = Op("OP_AUIPC", 0, s0, zero, Hi(sdata(build) - 204))
      BY ListingMain
    <2>2. w \in 0 .. 67 /\ s0 \in Reg \ {0} /\ sdata(build) \in Int /\ 204 = 4 * w
          /\ 4 * w + 4 = 208
      BY <1>1, <1>2
    <2>3. Sets(s0, Upper(204, sdata(build)), 4 * w + 4)
      BY <2>1, <2>2, AuipcEffect
    <2> QED BY <2>2, <2>3
  <1>4. w = 52 => Sets(s0, sdata(build), 212)
    <2> SUFFICES ASSUME w = 52 PROVE Sets(s0, sdata(build), 212)
      OBVIOUS
    <2>1. Text(build)[w + 1] = Addi(s0, s0, Lo(sdata(build) - 204))
      BY ListingMain
    <2>2. regfile[s0] = Upper(204, sdata(build))
      BY DEF Halfway, InText
    <2>3. w \in 1 .. 67 /\ s0 \in Reg \ {0} /\ sdata(build) \in 0 .. ram_end /\ sdata(build) \in Int
          /\ 204 = 4 * w - 4 /\ 4 * w + 4 = 212
      BY <1>1, <1>2
    <2>4. Sets(s0, sdata(build), 4 * w + 4)
      BY <2>1, <2>2, <2>3, LaEffect
    <2> QED BY <2>3, <2>4
  <1>5. w = 53 => Sets(s1, Upper(212, sdata(build) + build.data), 216)
    <2> SUFFICES ASSUME w = 53 PROVE Sets(s1, Upper(212, sdata(build) + build.data), 216)
      OBVIOUS
    <2>1. Text(build)[w + 1] = Op("OP_AUIPC", 0, s1, zero, Hi(data_end(build) - 212))
      BY ListingMain
    <2>2. data_end(build) \in Int
      BY <1>2 DEF data_end
    <2>3. w \in 0 .. 67 /\ s1 \in Reg \ {0} /\ 212 = 4 * w /\ 4 * w + 4 = 216
      BY <1>1
    <2>4. Sets(s1, Upper(212, data_end(build)), 4 * w + 4)
      BY <2>1, <2>2, <2>3, AuipcEffect
    <2>5. Sets(s1, Upper(212, data_end(build)), 216)
      BY <2>3, <2>4
    <2> QED BY <2>5 DEF data_end
  <1>6. w = 54 => Sets(s1, sdata(build) + build.data, 220)
    <2> SUFFICES ASSUME w = 54 PROVE Sets(s1, sdata(build) + build.data, 220)
      OBVIOUS
    <2>1. Text(build)[w + 1] = Addi(s1, s1, Lo(data_end(build) - 212))
      BY ListingMain
    <2>2. regfile[s1] = Upper(212, data_end(build))
      BY DEF Halfway, InText, data_end
    <2>3. data_end(build) \in Int /\ data_end(build) \in 0 .. ram_end
      BY <1>2 DEF data_end
    <2>4. w \in 1 .. 67 /\ s1 \in Reg \ {0} /\ 212 = 4 * w - 4 /\ 4 * w + 4 = 220
      BY <1>1
    <2>5. Sets(s1, data_end(build), 4 * w + 4)
      BY <2>1, <2>2, <2>3, <2>4, LaEffect
    <2>6. Sets(s1, data_end(build), 220)
      BY <2>4, <2>5
    <2> QED BY <2>6 DEF data_end
  <1>7. w = 55 => IF Signed(regfile[s0]) >= Signed(regfile[s1]) THEN Goes(240) ELSE Goes(224)
    <2> SUFFICES ASSUME w = 55
                 PROVE IF Signed(regfile[s0]) >= Signed(regfile[s1]) THEN Goes(240) ELSE Goes(224)
      OBVIOUS
    <2>1. Text(build)[w + 1] = Br(5, s0, s1, 20)
      BY ListingMain
    <2>2. 4 * w + 20 = 240 /\ 4 * w + 4 = 224 /\ 240 \in 0 .. 272 /\ 20 \in Int
      OBVIOUS
    <2>3. w \in 0 .. 67 /\ s0 \in Reg /\ s1 \in Reg
      BY <1>1
    <2>4. IF Signed(regfile[s0]) >= Signed(regfile[s1]) THEN Goes(4 * w + 20) ELSE Goes(4 * w + 4)
      BY <2>1, <2>2, <2>3, BgeEffect
    <2> QED BY <2>2, <2>4
  <1>8. w = 56 => Sets(A0, bus_read(rom, ram, regfile[s0], MEM_BU, regfile[A0]), 228)
    BY <1>1, <1>2, LwEffect, ListingMain, Sums DEF MEM_W, MEM_BU
  <1>9. w = 57 => Sets(ra, 232, 252)
    BY <1>1, <1>2, CallEffect, ListingMain
  <1>10. w = 58 => Sets(s0, Sum(s0, 1), 236)
    BY <1>1, <1>2, AddiEffect, ListingMain, Sums
  <1>11. w = 59 => Goes(220)
    BY <1>1, <1>2, JEffect, ListingMain
  <1>12. w = 60 => Sets(ra, bus_read(rom, ram, Sum(sp, 4), MEM_W, regfile[ra]), 244)
    BY <1>1, <1>2, LwEffect, ListingMain, Sums DEF MEM_W, MEM_BU
  <1>13. w = 61 => Sets(sp, Sum(sp, 8), 248)
    BY <1>1, <1>2, AddiEffect, ListingMain, Sums
  <1>14. w = 62 /\ regfile[ra] % 2 = 0 => Goes(regfile[ra])
    BY <1>1, <1>2, RetEffect, ListingMain
  <1>15. w = 63 => Sets(15, regfile[A0], 256)
    <2> SUFFICES ASSUME w = 63 PROVE Sets(15, regfile[A0], 256)
      OBVIOUS
    <2>1. Text(build)[w + 1] = Addi(15, A0, 0) /\ 15 \in Reg \ {0} /\ A0 \in Reg
      BY ListingMain, <1>1
    <2>2. ASSUME NEW n \in Int, Text(build)[w + 1] = Addi(15, A0, n)
          PROVE  Sets(15, Sum(A0, n), 4 * w + 4)
      BY <1>1, <2>1, <2>2, AddiEffect
    <2>3. Sets(15, Sum(A0, 0), 4 * w + 4)
      BY <2>1, <2>2
    <2> QED BY <2>1, <2>3, Sums
  <1>16. w = 64 => Sets(A0, E_CHAR, 260)
    BY <1>1, <1>2, AddiEffect, ListingMain, Sums
  <1>17. w = 65 => Sets(A1, regfile[15], 264)
    BY <1>1, <1>2, AddiEffect, ListingMain, Sums
  <1>18. w = 67 /\ regfile[ra] % 2 = 0 => Goes(regfile[ra])
    BY <1>1, <1>2, RetEffect, ListingMain
  <1> QED BY <1>3, <1>4, <1>5, <1>6, <1>7, <1>8, <1>9, <1>10, <1>11, <1>12, <1>13, <1>14,
             <1>15, <1>16, <1>17, <1>18

\* The steps that the program does not see: main of the emulator loads the image and
\* ends its loop.
Quiet == UNCHANGED <<regfile, pc, ram, mcycle, minstret, instr_loop, out, build, before, since>>

\* The emulator executes word w of the text.
Runs(w) ==
    /\ Instr /\ InText(w) /\ UNCHANGED <<rom, phase, build>>
    /\ minstret' = minstret + 1 /\ mcycle' \in mcycle + 1 .. mcycle + 6
    /\ before' = IF pc # 0 /\ pc' = 0 THEN ram' ELSE before
    /\ since' = [c |-> IF pc = CyclesAt THEN mcycle ELSE since.c,
                 i |-> IF pc = InstretAt THEN minstret ELSE since.i]

\* There are no other steps: no word of the text is zero, and the last jump of crt0.S
\* is not reached, as the emulator stops at the environment call before it.
LEMMA GuestSteps ==
    ASSUME TypeOK, Placed, [GuestNext]_guestVars
    PROVE  (Quiet /\ Placed') \/ \E w \in (0 .. 67) \ {27} : Runs(w)
  <1>0. mcycle \in Nat /\ minstret \in Nat /\ since \in [c : Int, i : Int]
    BY DEF TypeOK, Placed
  <1>1. CASE GuestLoad /\ GuestNext
    <2>1. /\ UNCHANGED <<ram, regfile, pc, mcycle, minstret, instr_loop, out, build>>
          /\ phase = "boot" /\ phase' = "loop" /\ rom' = Rom(build)
      BY <1>1 DEF GuestLoad, LoadRom, GuestNext, counters
    <2>2. before' = before /\ since' = since
      BY <1>0, <1>1, <2>1 DEF GuestNext
    <2> QED BY <2>1, <2>2 DEF Quiet, Placed
  <1>2. CASE Report /\ GuestNext
    <2>1. /\ UNCHANGED <<rom, ram, regfile, pc, mcycle, minstret, instr_loop, out, build>>
          /\ phase = "loop" /\ phase' \in {"total_cycles", "cycle_limit"}
      BY <1>2 DEF Report, GuestNext, counters, memory
    <2>2. before' = before /\ since' = since
      BY <1>0, <1>2, <2>1 DEF GuestNext
    <2> QED BY <2>1, <2>2 DEF Quiet, Placed
  <1>3. CASE ZeroInstr /\ GuestNext
    <2>1. phase = "loop" /\ Fetched = 0
      BY <1>3 DEF ZeroInstr
    <2>2. PICK w \in 0 .. 67 : InText(w)
      BY <2>1 DEF Placed, InText
    <2> QED BY <2>1, <2>2, Fetches
  <1>4. CASE Instr /\ GuestNext
    <2>1. /\ phase = "loop" /\ phase' = phase /\ minstret' = minstret + 1
          /\ mcycle' \in mcycle + 1 .. mcycle + 6
      BY <1>4, InstrCost
    <2>2. rom' = rom /\ instr_loop
      BY <1>4, InstrCommits DEF Commit, LoopGuard
    <2>3. PICK w \in 0 .. 67 : InText(w)
      BY <2>1 DEF Placed, InText
    <2>4. w # 27
      BY <2>2, <2>3 DEF Placed, InText
    <2>5. minstret' # minstret
      BY <1>0, <2>1
    <2> QED BY <1>4, <2>1, <2>2, <2>3, <2>4, <2>5 DEF Runs, GuestNext
  <1>5. CASE UNCHANGED guestVars
    BY <1>5 DEF guestVars, vars, Quiet, Placed
  <1> QED BY <1>1, <1>2, <1>3, <1>4, <1>5 DEF GuestNext, Loop

\* The step leads to a word of the text again, ends the program at the call for it,
\* enters the loops of librv.h and each la at its start only, and leaves main for the
\* start of the program or for the word behind its call only.  Few words store or print.
Lands ==
    /\ \E u \in 0 .. 67 : pc' = 4 * u
    /\ instr_loop' <=> pc' # 4 * 27
    /\ pc' \in 4 * 42 .. 4 * 45 \cup 4 * 47 .. 4 * 50 \cup Second => pc' = pc + 4
    /\ pc \in 4 * 28 .. 4 * 67 => pc' \in {0, 4 * 25} \cup 4 * 28 .. 4 * 67
    /\ pc' \in BeforeOutput => pc \in BeforeOutput
    /\ pc' \in Keeping => pc \in Keeping \cup {4 * 24}
    /\ pc' \in 4 * 53 .. 4 * 67 => pc \in 4 * 52 .. 4 * 67
    /\ pc' \in 4 * 25 .. 4 * 27 => pc \in {4 * 25, 4 * 26, 4 * 62}
    /\ pc \notin {4 * 12, 4 * 21, 4 * 29, 4 * 36, 4 * 37, 4 * 39} => ram' = ram
    /\ pc # 4 * 66 => out' = out

\* The second word of the frame of main, where it keeps ra, is the last of the RAM.
LEMMA FrameSlot ==
    ASSUME regfile[sp] = stack_top - 8
    PROVE  Sum(sp, 4) = ram_end - 4 /\ ram_end - 4 \in RAM_START .. ram_end - 4
  <1>1. regfile[sp] + 4 \in 0 .. RegMod - 1 /\ regfile[sp] + 4 = ram_end - 4
        /\ ram_end - 4 \in RAM_START .. ram_end - 4
    BY Sizes
  <1> QED BY <1>1, WrapSmall DEF Sum

\* The frame, through crt0.S,
LEMMA FrameStart ==
    ASSUME TypeOK, GuestInv, NEW w \in 0 .. 26, Runs(w)
    PROVE  Lands /\ Frame'
  <1>1. /\ regfile \in [Reg -> Word] /\ pc = 4 * w /\ build' = build /\ instr_loop /\ InText(w)
        /\ Instr /\ w \in 0 .. 67
    BY DEF TypeOK, Runs, InText, GuestInv, Placed
  <1>2. Frame /\ Halfway
    BY DEF GuestInv
  <1>3. CASE w = 0
    BY <1>1, <1>2, <1>3, StartText DEF Sets, Lands, Second, BeforeOutput, Keeping, Frame, Reg,
       gp, sp, ra, A0
  <1>4. CASE w = 1
    BY <1>1, <1>2, <1>4, StartText DEF Sets, Lands, Second, BeforeOutput, Keeping, Frame, Reg,
       gp, sp, ra, A0
  <1>5. CASE w = 2
    BY <1>1, <1>2, <1>5, StartText DEF Sets, Lands, Second, BeforeOutput, Keeping, Frame, Reg,
       gp, sp, ra, A0
  <1>6. CASE w = 3
    BY <1>1, <1>2, <1>6, StartText DEF Sets, Lands, Second, BeforeOutput, Keeping, Frame, Reg,
       gp, sp, ra, A0
  <1>7. CASE w = 4
    BY <1>1, <1>2, <1>7, StartText DEF Sets, Lands, Second, BeforeOutput, Keeping, Frame, Reg,
       gp, sp, ra, A0
  <1>8. CASE w = 5
    BY <1>1, <1>2, <1>8, StartText DEF Sets, Lands, Second, BeforeOutput, Keeping, Frame, Reg,
       gp, sp, ra, A0
  <1>9. CASE w = 6
    BY <1>1, <1>2, <1>9, StartText DEF Sets, Lands, Second, BeforeOutput, Keeping, Frame, Reg,
       gp, sp, ra, A0, A1
  <1>10. CASE w = 7
    BY <1>1, <1>2, <1>10, StartText DEF Sets, Lands, Second, BeforeOutput, Keeping, Frame, Reg,
       gp, sp, ra, A0, A1
  <1>11. CASE w = 8
    BY <1>1, <1>2, <1>11, StartText DEF Sets, Lands, Second, BeforeOutput, Keeping, Frame, Reg,
       gp, sp, ra, A0
  <1>12. CASE w = 9
    BY <1>1, <1>2, <1>12, StartText DEF Sets, Lands, Second, BeforeOutput, Keeping, Frame, Reg,
       gp, sp, ra, A0
  <1>13. CASE w = 10
    <2>1. ASSUME Goes(64) PROVE Lands /\ Frame'
      BY <1>1, <1>2, <1>13, <2>1 DEF Goes, Lands, Second, BeforeOutput, Keeping, Frame
    <2>2. ASSUME Goes(44) PROVE Lands /\ Frame'
      BY <1>1, <1>2, <1>13, <2>2 DEF Goes, Lands, Second, BeforeOutput, Keeping, Frame
    <2> QED BY <1>1, <1>2, <1>13, <2>1, <2>2, StartText
  <1>14. CASE w = 11
    BY <1>1, <1>2, <1>14, StartText DEF Sets, Lands, Second, BeforeOutput, Keeping, Frame, Reg, gp,
       sp, ra, A0, t0
  <1>15. CASE w = 12
    BY <1>1, <1>2, <1>15, StartText DEF Stores, Lands, Second, BeforeOutput, Keeping, Frame,
       Reg, gp, sp, ra, A0
  <1>16. CASE w = 13
    BY <1>1, <1>2, <1>16, StartText DEF Sets, Lands, Second, BeforeOutput, Keeping, Frame, Reg, gp,
       sp, ra, A0
  <1>17. CASE w = 14
    BY <1>1, <1>2, <1>17, StartText DEF Sets, Lands, Second, BeforeOutput, Keeping, Frame, Reg, gp,
       sp, ra, A0, A1
  <1>18. CASE w = 15
    BY <1>1, <1>2, <1>18, StartText DEF Goes, Lands, Second, BeforeOutput, Keeping, Frame
  <1>19. CASE w = 16
    BY <1>1, <1>2, <1>19, StartText DEF Sets, Lands, Second, BeforeOutput, Keeping, Frame, Reg,
       gp, sp, ra, A0
  <1>20. CASE w = 17
    BY <1>1, <1>2, <1>20, StartText DEF Sets, Lands, Second, BeforeOutput, Keeping, Frame, Reg, gp,
       sp, ra, A0
  <1>21. CASE w = 18
    BY <1>1, <1>2, <1>21, StartText DEF Sets, Lands, Second, BeforeOutput, Keeping, Frame, Reg,
       gp, sp, ra, A0, A1
  <1>22. CASE w = 19
    BY <1>1, <1>2, <1>22, StartText DEF Sets, Lands, Second, BeforeOutput, Keeping, Frame, Reg, gp,
       sp, ra, A0, A1
  <1>23. CASE w = 20
    <2>1. ASSUME Goes(96) PROVE Lands /\ Frame'
      BY <1>1, <1>2, <1>23, <2>1 DEF Goes, Lands, Second, BeforeOutput, Keeping, Frame
    <2>2. ASSUME Goes(84) PROVE Lands /\ Frame'
      BY <1>1, <1>2, <1>23, <2>2 DEF Goes, Lands, Second, BeforeOutput, Keeping, Frame
    <2> QED BY <1>1, <1>2, <1>23, <2>1, <2>2, StartText
  <1>24. CASE w = 21
    BY <1>1, <1>2, <1>24, StartText DEF Stores, Lands, Second, BeforeOutput, Keeping, Frame,
       Reg, gp, sp, ra, A0
  <1>25. CASE w = 22
    BY <1>1, <1>2, <1>25, StartText DEF Sets, Lands, Second, BeforeOutput, Keeping, Frame, Reg, gp,
       sp, ra, A0
  <1>26. CASE w = 23
    BY <1>1, <1>2, <1>26, StartText DEF Goes, Lands, Second, BeforeOutput, Keeping, Frame
  <1>27. CASE w = 24
    BY <1>1, <1>2, <1>27, StartText DEF Sets, Lands, Second, BeforeOutput, Keeping, Frame, Reg, gp,
       sp, ra, A0
  <1>28. CASE w = 25
    BY <1>1, <1>2, <1>28, StartText DEF Sets, Lands, Second, BeforeOutput, Keeping, Frame, Reg, gp,
       sp, ra, A0
  <1>29. CASE w = 26
    <2>0. Text(build)[w + 1] = Sys(0, zero, zero, 0) /\ 4 * w + 4 = 108
      BY <1>1, <1>29, ListingStart DEF InText
    <2>1. /\ pc' = 108 /\ UNCHANGED <<regfile, ram>> /\ instr_loop' = (regfile[A0] # E_EXIT)
          /\ out' = IF regfile[A0] = E_CHAR THEN Append(out, regfile[A1] % ByteMod) ELSE out
      BY <1>1, <2>0, EcallEffect
    <2>2. regfile[A0] = E_EXIT
      BY <1>1, <1>2, <1>29 DEF Frame
    <2>4. out' = out
      BY <2>1, <2>2 DEF E_EXIT, E_CHAR
    <2>3. Lands
      <3>1. ~ instr_loop'
        BY <2>1, <2>2
      <3> QED BY <1>1, <1>29, <2>1, <2>4, <3>1 DEF Lands, Second, BeforeOutput, Keeping
    <2> QED BY <1>1, <1>2, <1>29, <2>1, <2>3 DEF Frame
  <1> QED BY <1>1, <1>3, <1>4, <1>5, <1>6, <1>7, <1>8, <1>9, <1>10, <1>11, <1>12, <1>13, <1>14,
             <1>15, <1>16, <1>17, <1>18, <1>19, <1>20, <1>21, <1>22, <1>23, <1>24, <1>25,
             <1>26, <1>27, <1>28, <1>29

\* through main up to the restart,
LEMMA FrameMain ==
    ASSUME TypeOK, GuestInv, NEW w \in 28 .. 40, Runs(w)
    PROVE  Lands /\ Frame'
  <1>1. /\ regfile \in [Reg -> Word] /\ pc = 4 * w /\ build' = build /\ instr_loop /\ InText(w)
        /\ Instr /\ w \in 0 .. 67
    BY DEF TypeOK, Runs, InText, GuestInv, Placed
  <1>2. Frame /\ Halfway
    BY DEF GuestInv
  <1>3. CASE w = 28
    <2>1. Sets(sp, Sum(sp, -8), 116)
      BY <1>1, <1>2, <1>3, MainText
    <2>2. regfile[sp] = stack_top /\ regfile[ra] = 4 * 25
      BY <1>1, <1>2, <1>3 DEF Frame
    <2>3. Sum(sp, -8) = stack_top - 8
      <3>1. regfile[sp] + (-8) \in 0 .. RegMod - 1 /\ regfile[sp] + (-8) = stack_top - 8
        BY <2>2, Sizes
      <3> QED BY <3>1, WrapSmall DEF Sum
    <2> QED BY <1>1, <1>3, <2>1, <2>2, <2>3 DEF Sets, Lands, Second, BeforeOutput, Keeping, Frame,
               Reg, gp, sp, ra, A0
  <1>4. CASE w = 29
    <2>1. Stores(Sum(sp, 4), ra, 120)
      BY <1>1, <1>2, <1>4, MainText
    <2>2. regfile[sp] = stack_top - 8 /\ regfile[ra] = 4 * 25 /\ 4 * 25 \in Word
      BY <1>1, <1>2, <1>4 DEF Frame, ra, Reg
    <2>3. Sum(sp, 4) = ram_end - 4 /\ ram_end - 4 \in RAM_START .. ram_end - 4
      BY <2>2, FrameSlot
    <2>4. WordAt(ram', RAM_SIZE - 4) = 4 * 25
      <3>1. WordAt(ram', (ram_end - 4) - RAM_START) = 4 * 25
        BY <2>1, <2>2, <2>3, StoresRam DEF Stores
      <3>2. (ram_end - 4) - RAM_START = RAM_SIZE - 4
        BY Sizes
      <3> QED BY <3>1, <3>2
    <2> QED BY <1>1, <1>4, <2>1, <2>2, <2>4 DEF Stores, Lands, Second, BeforeOutput, Keeping, Frame
  <1>5. CASE w = 30
    BY <1>1, <1>2, <1>5, MainText DEF Sets, Lands, Second, BeforeOutput, Keeping, Frame, Reg,
       gp, sp, ra, A0, s0
  <1>6. CASE w = 31
    BY <1>1, <1>2, <1>6, MainText DEF Sets, Lands, Second, BeforeOutput, Keeping, Frame, Reg,
       gp, sp, ra, A0, s0
  <1>7. CASE w = 32
    BY <1>1, <1>2, <1>7, MainText DEF Sets, Lands, Second, BeforeOutput, Keeping, Frame, Reg,
       gp, sp, ra, A0, s1
  <1>8. CASE w = 33
    BY <1>1, <1>2, <1>8, MainText DEF Sets, Lands, Second, BeforeOutput, Keeping, Frame, Reg,
       gp, sp, ra, A0, s1
  <1>9. CASE w = 34
    BY <1>1, <1>2, <1>9, MainText DEF Sets, Lands, Second, BeforeOutput, Keeping, Frame, Reg,
       gp, sp, ra, A0, t0
  <1>10. CASE w = 35
    <2>1. ASSUME Goes(164) PROVE Lands /\ Frame'
      BY <1>1, <1>2, <1>10, <2>1 DEF Goes, Lands, Second, BeforeOutput, Keeping, Frame
    <2>2. ASSUME Goes(144) PROVE Lands /\ Frame'
      BY <1>1, <1>2, <1>10, <2>2 DEF Goes, Lands, Second, BeforeOutput, Keeping, Frame
    <2> QED BY <1>1, <1>2, <1>10, <2>1, <2>2, MainText
  <1>11. CASE w = 36
    BY <1>1, <1>2, <1>11, MainText DEF Stores, Lands, Second, BeforeOutput, Keeping, Frame, Reg, gp,
       sp, ra, A0
  <1>12. CASE w = 37
    BY <1>1, <1>2, <1>12, MainText DEF Stores, Lands, Second, BeforeOutput, Keeping, Frame, Reg, gp,
       sp, ra, A0
  <1>13. CASE w = 38
    BY <1>1, <1>2, <1>13, MainText DEF Sets, Lands, Second, BeforeOutput, Keeping, Frame, Reg,
       gp, sp, ra, A0, t0
  <1>14. CASE w = 39
    BY <1>1, <1>2, <1>14, MainText DEF Stores, Lands, Second, BeforeOutput, Keeping, Frame, Reg, gp,
       sp, ra, A0
  <1>15. CASE w = 40
    BY <1>1, <1>2, <1>15, MainText DEF Goes, Lands, Second, BeforeOutput, Keeping, Frame
  <1> QED BY <1>1, <1>3, <1>4, <1>5, <1>6, <1>7, <1>8, <1>9, <1>10, <1>11, <1>12, <1>13, <1>14,
             <1>15

\* through the reads of the counters,
LEMMA FrameCounters ==
    ASSUME TypeOK, GuestInv, NEW w \in 41 .. 50, Runs(w)
    PROVE  Lands /\ Frame'
  <1>1. /\ regfile \in [Reg -> Word] /\ pc = 4 * w /\ build' = build /\ instr_loop /\ InText(w)
        /\ Instr /\ w \in 0 .. 67
    BY DEF TypeOK, Runs, InText, GuestInv, Placed
  <1>2. Frame /\ Halfway
    BY DEF GuestInv
  <1>3. CASE w = 41
    BY <1>1, <1>2, <1>3, CounterText DEF Sets, Lands, Second, BeforeOutput, Keeping, Frame, Reg, gp,
       sp, ra, A0
  <1>4. CASE w = 42
    BY <1>1, <1>2, <1>4, CounterText DEF Sets, Lands, Second, BeforeOutput, Keeping, Frame, Reg, gp,
       sp, ra, A0
  <1>5. CASE w = 43
    BY <1>1, <1>2, <1>5, CounterText DEF Sets, Lands, Second, BeforeOutput, Keeping, Frame, Reg, gp,
       sp, ra, A0
  <1>6. CASE w = 44
    <2>1. ASSUME Goes(164) PROVE Lands /\ Frame'
      BY <1>1, <1>2, <1>6, <2>1 DEF Goes, Lands, Second, BeforeOutput, Keeping, Frame
    <2>2. ASSUME Goes(180) PROVE Lands /\ Frame'
      BY <1>1, <1>2, <1>6, <2>2 DEF Goes, Lands, Second, BeforeOutput, Keeping, Frame
    <2> QED BY <1>1, <1>2, <1>6, <2>1, <2>2, CounterText
  <1>7. CASE w = 45
    BY <1>1, <1>2, <1>7, CounterText DEF Sets, Lands, Second, BeforeOutput, Keeping, Frame, Reg, gp,
       sp, ra, A0
  <1>8. CASE w = 46
    BY <1>1, <1>2, <1>8, CounterText DEF Sets, Lands, Second, BeforeOutput, Keeping, Frame, Reg, gp,
       sp, ra, A0
  <1>9. CASE w = 47
    BY <1>1, <1>2, <1>9, CounterText DEF Sets, Lands, Second, BeforeOutput, Keeping, Frame, Reg, gp,
       sp, ra, A0
  <1>10. CASE w = 48
    BY <1>1, <1>2, <1>10, CounterText DEF Sets, Lands, Second, BeforeOutput, Keeping, Frame,
       Reg, gp, sp, ra, A0
  <1>11. CASE w = 49
    <2>1. ASSUME Goes(184) PROVE Lands /\ Frame'
      BY <1>1, <1>2, <1>11, <2>1 DEF Goes, Lands, Second, BeforeOutput, Keeping, Frame
    <2>2. ASSUME Goes(200) PROVE Lands /\ Frame'
      BY <1>1, <1>2, <1>11, <2>2 DEF Goes, Lands, Second, BeforeOutput, Keeping, Frame
    <2> QED BY <1>1, <1>2, <1>11, <2>1, <2>2, CounterText
  <1>12. CASE w = 50
    <2>1. ASSUME Goes(164) PROVE Lands /\ Frame'
      BY <1>1, <1>2, <1>12, <2>1 DEF Goes, Lands, Second, BeforeOutput, Keeping, Frame
    <2>2. ASSUME Goes(204) PROVE Lands /\ Frame'
      BY <1>1, <1>2, <1>12, <2>2 DEF Goes, Lands, Second, BeforeOutput, Keeping, Frame
    <2> QED BY <1>1, <1>2, <1>12, <2>1, <2>2, CounterText
  <1> QED BY <1>1, <1>3, <1>4, <1>5, <1>6, <1>7, <1>8, <1>9, <1>10, <1>11, <1>12

\* and through the output and the return.
LEMMA FramePrint ==
    ASSUME TypeOK, GuestInv, NEW w \in 51 .. 67, Runs(w)
    PROVE  Lands /\ Frame'
  <1>1. /\ regfile \in [Reg -> Word] /\ pc = 4 * w /\ build' = build /\ instr_loop /\ InText(w)
        /\ Instr /\ w \in 0 .. 67
    BY DEF TypeOK, Runs, InText, GuestInv, Placed
  <1>2. Frame /\ Halfway
    BY DEF GuestInv
  <1>3. CASE w = 51
    BY <1>1, <1>2, <1>3, PrintText DEF Sets, Lands, Second, BeforeOutput, Keeping, Frame, Reg,
       gp, sp, ra, A0, s0
  <1>4. CASE w = 52
    BY <1>1, <1>2, <1>4, PrintText DEF Sets, Lands, Second, BeforeOutput, Keeping, Frame, Reg,
       gp, sp, ra, A0, s0
  <1>5. CASE w = 53
    BY <1>1, <1>2, <1>5, PrintText DEF Sets, Lands, Second, BeforeOutput, Keeping, Frame, Reg,
       gp, sp, ra, A0, s1
  <1>6. CASE w = 54
    BY <1>1, <1>2, <1>6, PrintText DEF Sets, Lands, Second, BeforeOutput, Keeping, Frame, Reg,
       gp, sp, ra, A0, s1
  <1>7. CASE w = 55
    <2>1. ASSUME Goes(240) PROVE Lands /\ Frame'
      BY <1>1, <1>2, <1>7, <2>1 DEF Goes, Lands, Second, BeforeOutput, Keeping, Frame
    <2>2. ASSUME Goes(224) PROVE Lands /\ Frame'
      BY <1>1, <1>2, <1>7, <2>2 DEF Goes, Lands, Second, BeforeOutput, Keeping, Frame
    <2> QED BY <1>1, <1>2, <1>7, <2>1, <2>2, PrintText
  <1>8. CASE w = 56
    BY <1>1, <1>2, <1>8, PrintText DEF Sets, Lands, Second, BeforeOutput, Keeping, Frame, Reg,
       gp, sp, ra, A0
  <1>9. CASE w = 57
    BY <1>1, <1>2, <1>9, PrintText DEF Sets, Lands, Second, BeforeOutput, Keeping, Frame, Reg,
       gp, sp, ra, A0
  <1>10. CASE w = 58
    BY <1>1, <1>2, <1>10, PrintText DEF Sets, Lands, Second, BeforeOutput, Keeping, Frame, Reg,
       gp, sp, ra, A0, s0
  <1>11. CASE w = 59
    BY <1>1, <1>2, <1>11, PrintText DEF Goes, Lands, Second, BeforeOutput, Keeping, Frame
  <1>12. CASE w = 60
    <2>1. Sets(ra, bus_read(rom, ram, Sum(sp, 4), MEM_W, regfile[ra]), 244)
      BY <1>1, <1>2, <1>12, PrintText
    <2>2. regfile[sp] = stack_top - 8 /\ WordAt(ram, RAM_SIZE - 4) = 4 * 25
      BY <1>1, <1>2, <1>12 DEF Frame
    <2>3. bus_read(rom, ram, Sum(sp, 4), MEM_W, regfile[ra]) = 4 * 25
      <3>1. Sum(sp, 4) = ram_end - 4 /\ ram_end - 4 \in RAM_START .. ram_end - 4
        BY <2>2, FrameSlot
      <3>2. (ram_end - 4) - RAM_START = RAM_SIZE - 4
        BY Sizes
      <3> QED BY <2>2, <3>1, <3>2, LoadsRam
    <2> QED BY <1>1, <1>12, <2>1, <2>2, <2>3 DEF Sets, Lands, Second, BeforeOutput, Keeping,
               Frame, Reg, gp, sp, ra, A0
  <1>13. CASE w = 61
    <2>1. Sets(sp, Sum(sp, 8), 248)
      BY <1>1, <1>2, <1>13, PrintText
    <2>2. regfile[sp] = stack_top - 8 /\ regfile[ra] = 4 * 25
      BY <1>1, <1>2, <1>13 DEF Frame
    <2>3. Sum(sp, 8) = stack_top
      <3>1. regfile[sp] + 8 \in 0 .. RegMod - 1 /\ regfile[sp] + 8 = stack_top
        BY <2>2, Sizes
      <3> QED BY <3>1, WrapSmall DEF Sum
    <2> QED BY <1>1, <1>13, <2>1, <2>2, <2>3 DEF Sets, Lands, Second, BeforeOutput, Keeping,
               Frame, Reg, gp, sp, ra, A0
  <1>14. CASE w = 62
    <2>1. regfile[ra] = 100
      BY <1>1, <1>2, <1>14 DEF Frame
    <2>2. 100 % 2 = 0
      OBVIOUS
    <2>3. Goes(100)
      BY <1>1, <1>2, <1>14, <2>1, <2>2, PrintText
    <2> QED BY <1>1, <1>2, <1>14, <2>3 DEF Goes, Lands, Second, BeforeOutput, Keeping, Frame
  <1>15. CASE w = 63
    BY <1>1, <1>2, <1>15, PrintText DEF Sets, Lands, Second, BeforeOutput, Keeping, Frame, Reg, gp,
       sp, ra, A0
  <1>16. CASE w = 64
    BY <1>1, <1>2, <1>16, PrintText DEF Sets, Lands, Second, BeforeOutput, Keeping, Frame, Reg, gp,
       sp, ra, A0
  <1>17. CASE w = 65
    BY <1>1, <1>2, <1>17, PrintText DEF Sets, Lands, Second, BeforeOutput, Keeping, Frame, Reg, gp,
       sp, ra, A0, A1
  <1>18. CASE w = 66
    <2>0. Text(build)[w + 1] = Sys(0, zero, zero, 0) /\ 4 * w + 4 = 268
      BY <1>1, <1>18, ListingMain DEF InText
    <2>1. /\ pc' = 268 /\ UNCHANGED <<regfile, ram>> /\ instr_loop' = (regfile[A0] # E_EXIT)
      BY <1>1, <2>0, EcallEffect
    <2>2. regfile[A0] # E_EXIT
      BY <1>1, <1>2, <1>18 DEF Frame, E_EXIT, E_CHAR
    <2>3. Lands
      <3>1. instr_loop' = TRUE
        BY <2>1, <2>2
      <3> QED BY <1>1, <1>18, <2>1, <3>1 DEF Lands, Second, BeforeOutput, Keeping
    <2> QED BY <1>1, <1>2, <1>18, <2>1, <2>3 DEF Frame
  <1>19. CASE w = 67
    <2>1. regfile[ra] = 232
      BY <1>1, <1>2, <1>19 DEF Frame
    <2>2. Goes(232)
      BY <1>1, <1>2, <1>19, <2>1, PrintText
    <2> QED BY <1>1, <1>2, <1>19, <2>2 DEF Goes, Lands, Second, BeforeOutput, Keeping, Frame
  <1> QED BY <1>1, <1>3, <1>4, <1>5, <1>6, <1>7, <1>8, <1>9, <1>10, <1>11, <1>12, <1>13, <1>14,
             <1>15, <1>16, <1>17, <1>18, <1>19

\* Every instruction of the program keeps it.
LEMMA FrameNext ==
    ASSUME TypeOK, GuestInv, NEW w \in (0 .. 67) \ {27}, Runs(w)
    PROVE  Lands /\ Frame'
  <1>1. w \in 0 .. 26 \/ w \in 28 .. 40 \/ w \in 41 .. 50 \/ w \in 51 .. 67
    OBVIOUS
  <1> QED BY <1>1, FrameStart, FrameMain, FrameCounters, FramePrint

\* The symbols stay where they are.
LEMMA SymbolsSame ==
    ASSUME build' = build
    PROVE  /\ sidata(build)' = sidata(build) /\ sdata(build)' = sdata(build)
           /\ edata(build)' = edata(build) /\ sbss(build)' = sbss(build)
           /\ ebss(build)' = ebss(build) /\ build.data' = build.data
  BY DEF sidata, sdata, edata, sbss, ebss, ALIGN

\* The first half of every la is followed by its second half.
LEMMA HalfwayNext ==
    ASSUME TypeOK, GuestInv, NEW w \in (0 .. 67) \ {27}, Runs(w), Lands
    PROVE  Halfway'
  <1>1. /\ regfile \in [Reg -> Word] /\ pc = 4 * w /\ build' = build /\ InText(w)
        /\ Instr /\ Halfway
    BY DEF TypeOK, Runs, InText, GuestInv
  <1>2. /\ sidata(build)' = sidata(build) /\ sdata(build)' = sdata(build)
        /\ edata(build)' = edata(build) /\ sbss(build)' = sbss(build)
        /\ ebss(build)' = ebss(build) /\ build.data' = build.data
    BY <1>1, SymbolsSame
  <1>3. CASE w = 0
    <2>1. Sets(gp, Upper(0, sdata(build) + GP_OFFSET), 4)
      BY <1>1, <1>3, StartText
    <2>2. regfile'[gp] = Upper(0, sdata(build) + GP_OFFSET) /\ pc' = 4
      BY <1>1, <2>1 DEF Sets, Reg, gp
    <2> QED BY <1>2, <2>2 DEF Halfway
  <1>4. CASE w = 2
    <2>1. Sets(sp, Upper(8, stack_top), 12)
      BY <1>1, <1>4, StartText
    <2>2. regfile'[sp] = Upper(8, stack_top) /\ pc' = 12
      BY <1>1, <2>1 DEF Sets, Reg, sp
    <2> QED BY <1>2, <2>2 DEF Halfway
  <1>5. CASE w = 4
    <2>1. Sets(A0, Upper(16, sidata(build)), 20)
      BY <1>1, <1>5, StartText
    <2>2. regfile'[A0] = Upper(16, sidata(build)) /\ pc' = 20
      BY <1>1, <2>1 DEF Sets, Reg, A0
    <2> QED BY <1>2, <2>2 DEF Halfway
  <1>6. CASE w = 6
    <2>1. Sets(A1, Upper(24, sdata(build)), 28)
      BY <1>1, <1>6, StartText
    <2>2. regfile'[A1] = Upper(24, sdata(build)) /\ pc' = 28
      BY <1>1, <2>1 DEF Sets, Reg, A1
    <2> QED BY <1>2, <2>2 DEF Halfway
  <1>7. CASE w = 8
    <2>1. Sets(12, Upper(32, edata(build)), 36)
      BY <1>1, <1>7, StartText
    <2>2. regfile'[12] = Upper(32, edata(build)) /\ pc' = 36
      BY <1>1, <2>1 DEF Sets, Reg
    <2> QED BY <1>2, <2>2 DEF Halfway
  <1>8. CASE w = 16
    <2>1. Sets(A0, Upper(64, sbss(build)), 68)
      BY <1>1, <1>8, StartText
    <2>2. regfile'[A0] = Upper(64, sbss(build)) /\ pc' = 68
      BY <1>1, <2>1 DEF Sets, Reg, A0
    <2> QED BY <1>2, <2>2 DEF Halfway
  <1>9. CASE w = 18
    <2>1. Sets(A1, Upper(72, ebss(build)), 76)
      BY <1>1, <1>9, StartText
    <2>2. regfile'[A1] = Upper(72, ebss(build)) /\ pc' = 76
      BY <1>1, <2>1 DEF Sets, Reg, A1
    <2> QED BY <1>2, <2>2 DEF Halfway
  <1>10. CASE w = 51
    <2>1. Sets(s0, Upper(204, sdata(build)), 208)
      BY <1>1, <1>10, PrintText
    <2>2. regfile'[s0] = Upper(204, sdata(build)) /\ pc' = 208
      BY <1>1, <2>1 DEF Sets, Reg, s0
    <2> QED BY <1>2, <2>2 DEF Halfway
  <1>11. CASE w = 53
    <2>1. Sets(s1, Upper(212, sdata(build) + build.data), 216)
      BY <1>1, <1>11, PrintText
    <2>2. regfile'[s1] = Upper(212, sdata(build) + build.data) /\ pc' = 216
      BY <1>1, <2>1 DEF Sets, Reg, s1
    <2> QED BY <1>2, <2>2 DEF Halfway
  <1>12. CASE w \notin {0, 2, 4, 6, 8, 16, 18, 51, 53}
    <2>1. pc' \notin Second
      BY <1>1, <1>12 DEF Lands, Second
    <2> QED BY <2>1 DEF Halfway, Second
  <1> QED BY <1>3, <1>4, <1>5, <1>6, <1>7, <1>8, <1>9, <1>10, <1>11, <1>12

\* The invariant is inductive, with the types.
LEMMA GuestInvNext ==
    ASSUME TypeOK, GuestInv, [GuestNext]_guestVars
    PROVE  GuestInv'
  <1>1. CASE Quiet /\ Placed'
    <2>1. Frame' /\ Placed'
      BY <1>1 DEF Quiet, GuestInv, Frame
    <2>2. /\ sidata(build)' = sidata(build) /\ sdata(build)' = sdata(build)
          /\ edata(build)' = edata(build) /\ sbss(build)' = sbss(build)
          /\ ebss(build)' = ebss(build) /\ build.data' = build.data
      BY <1>1, SymbolsSame DEF Quiet
    <2>3. Halfway'
      BY <1>1, <2>2 DEF Quiet, GuestInv, Halfway
    <2> QED BY <2>1, <2>3 DEF GuestInv
  <1>2. ASSUME NEW w \in (0 .. 67) \ {27}, Runs(w) PROVE GuestInv'
    <2>1. Lands /\ Frame' /\ Halfway'
      BY <1>2, FrameNext, HalfwayNext
    <2>2. /\ phase' = "loop" /\ build' = build /\ build \in Layouts /\ rom' = rom
          /\ rom = Rom(build)
          /\ since' \in [c : Int, i : Int]
      BY <1>2 DEF Runs, InText, TypeOK, GuestInv, Placed
    <2>3. Rom(build)' = Rom(build)
      BY <2>2 DEF Rom
    <2> QED BY <2>1, <2>2, <2>3 DEF Lands, GuestInv, Placed
  <1> QED BY <1>1, <1>2, GuestSteps DEF GuestInv

-----------------------------------------------------------------------------
(* The steps of a guest are steps of Core *)

\* The guest only chooses the image and watches.
LEMMA GuestCore == [GuestNext]_guestVars => [Next]_vars
  BY DEF GuestNext, GuestLoad, guestVars, vars, Next

\* Before the first instruction.
LEMMA GuestInvInit == GuestInit => TypeOK /\ CycleBudget /\ GuestInv
  <1> SUFFICES ASSUME GuestInit PROVE TypeOK /\ CycleBudget /\ GuestInv
    OBVIOUS
  <1>1. TypeOK /\ CycleBudget
    BY TypeInit, ArchAssumption DEF GuestInit, Init, CycleBudget
  <1>2. pc = 0 /\ phase = "boot" /\ instr_loop = TRUE /\ build \in Layouts
    BY DEF GuestInit, Init
  <1>3. since \in [c : Int, i : Int]
    BY <1>1 DEF GuestInit, TypeOK
  <1>4. Placed
    BY <1>2, <1>3 DEF Placed
  <1>5. Frame /\ Halfway
    BY <1>2 DEF Frame, Halfway
  <1> QED BY <1>1, <1>4, <1>5 DEF GuestInv

Steady == TypeOK /\ CycleBudget /\ GuestInv

\* The invariant of every guest, with the types and the cycle budget of Core,
LEMMA SteadyNext == Steady /\ [GuestNext]_guestVars => Steady'
  BY GuestCore, TypeNext, BudgetNext, GuestInvNext DEF Steady

\* so that pc stays in the text, the stack pointer and the return addresses are where
\* crt0.S and main put them, and no word is executed that the program does not hold.
THEOREM GuestSteady == GuestSpec => []Steady
  <1>1. GuestInit => Steady
    BY GuestInvInit DEF Steady
  <1> QED BY <1>1, SteadyNext, PTL DEF GuestSpec

-----------------------------------------------------------------------------
(* The loops of librv.h *)

\* The loops run in a machine of the same width.
LEMMA SameWidth ==
    /\ Cycles!RegMod = RegMod /\ Cycles!Word = Word
    /\ Instructions!RegMod = RegMod /\ Instructions!Word = Word
  BY DEF RegMod, WordMod, HalfMod, Word,
         Cycles!RegMod, Cycles!WordMod, Cycles!HalfMod, Cycles!Word,
         Instructions!RegMod, Instructions!WordMod, Instructions!HalfMod, Instructions!Word

\* Where the program is, as a loop at start sees it.
LEMMA LoopPlace ==
    ASSUME NEW start \in Int
    PROVE  /\ pc = start + 0 => LoopAt(start) = "csrr hi"
           /\ pc = start + 4 => LoopAt(start) = "csrr lo"
           /\ pc = start + 8 => LoopAt(start) = "csrr hi2"
           /\ pc = start + 12 => LoopAt(start) = "bne"
           /\ pc = start + 16 => LoopAt(start) = "return"
           /\ \A k \in Int \ (0 .. 4) : pc = start + 4 * k => LoopAt(start) = "out"
  <1>1. pc = start + 0 => LoopAt(start) = "csrr hi"
    <2>1. pc = start + 0 => (pc - start) \div 4 = 0 /\ pc >= start
      OBVIOUS
    <2> QED BY <2>1 DEF LoopAt
  <1>2. pc = start + 4 => LoopAt(start) = "csrr lo"
    <2>1. pc = start + 4 => (pc - start) \div 4 = 1 /\ pc >= start
      OBVIOUS
    <2> QED BY <2>1 DEF LoopAt
  <1>3. pc = start + 8 => LoopAt(start) = "csrr hi2"
    <2>1. pc = start + 8 => (pc - start) \div 4 = 2 /\ pc >= start
      OBVIOUS
    <2> QED BY <2>1 DEF LoopAt
  <1>4. pc = start + 12 => LoopAt(start) = "bne"
    <2>1. pc = start + 12 => (pc - start) \div 4 = 3 /\ pc >= start
      OBVIOUS
    <2> QED BY <2>1 DEF LoopAt
  <1>5. pc = start + 16 => LoopAt(start) = "return"
    <2>1. pc = start + 16 => (pc - start) \div 4 = 4 /\ pc >= start
      OBVIOUS
    <2> QED BY <2>1 DEF LoopAt
  <1>6. ASSUME NEW k \in Int \ (0 .. 4), pc = start + 4 * k PROVE LoopAt(start) = "out"
    <2>1. (pc - start) \div 4 = k
      BY <1>6
    <2>2. CASE k < 0
      <3>1. ~ pc >= start
        BY <1>6, <2>2
      <3> QED BY <3>1 DEF LoopAt
    <2>3. CASE k > 4
      <3>1. ~ (pc - start) \div 4 < 5
        BY <2>1, <2>3
      <3> QED BY <3>1 DEF LoopAt
    <2> QED BY <1>6, <2>2, <2>3
  <1> QED BY <1>1, <1>2, <1>3, <1>4, <1>5, <1>6, Zenon

\* The same of the next state.
LEMMA LoopPlaceNext ==
    ASSUME NEW start \in Int
    PROVE  /\ pc' = start + 0 => LoopAt(start)' = "csrr hi"
           /\ pc' = start + 4 => LoopAt(start)' = "csrr lo"
           /\ pc' = start + 8 => LoopAt(start)' = "csrr hi2"
           /\ pc' = start + 12 => LoopAt(start)' = "bne"
           /\ pc' = start + 16 => LoopAt(start)' = "return"
           /\ \A k \in Int \ (0 .. 4) : pc' = start + 4 * k => LoopAt(start)' = "out"
  <1>1. pc' = start + 0 => LoopAt(start)' = "csrr hi"
    <2>1. pc' = start + 0 => (pc' - start) \div 4 = 0 /\ pc' >= start
      OBVIOUS
    <2> QED BY <2>1 DEF LoopAt
  <1>2. pc' = start + 4 => LoopAt(start)' = "csrr lo"
    <2>1. pc' = start + 4 => (pc' - start) \div 4 = 1 /\ pc' >= start
      OBVIOUS
    <2> QED BY <2>1 DEF LoopAt
  <1>3. pc' = start + 8 => LoopAt(start)' = "csrr hi2"
    <2>1. pc' = start + 8 => (pc' - start) \div 4 = 2 /\ pc' >= start
      OBVIOUS
    <2> QED BY <2>1 DEF LoopAt
  <1>4. pc' = start + 12 => LoopAt(start)' = "bne"
    <2>1. pc' = start + 12 => (pc' - start) \div 4 = 3 /\ pc' >= start
      OBVIOUS
    <2> QED BY <2>1 DEF LoopAt
  <1>5. pc' = start + 16 => LoopAt(start)' = "return"
    <2>1. pc' = start + 16 => (pc' - start) \div 4 = 4 /\ pc' >= start
      OBVIOUS
    <2> QED BY <2>1 DEF LoopAt
  <1>6. ASSUME NEW k \in Int \ (0 .. 4), pc' = start + 4 * k PROVE LoopAt(start)' = "out"
    <2>1. (pc' - start) \div 4 = k
      BY <1>6
    <2>2. CASE k < 0
      <3>1. ~ pc' >= start
        BY <1>6, <2>2
      <3> QED BY <3>1 DEF LoopAt
    <2>3. CASE k > 4
      <3>1. ~ (pc' - start) \div 4 < 5
        BY <2>1, <2>3
      <3> QED BY <3>1 DEF LoopAt
    <2> QED BY <1>6, <2>2, <2>3
  <1> QED BY <1>1, <1>2, <1>3, <1>4, <1>5, <1>6, Zenon

\* The counters fit two registers.
Fits == mcycle \in 0 .. RegMod * RegMod - 1 /\ minstret \in 0 .. RegMod * RegMod - 1

\* The limit of the emulator keeps them from wrapping.
LEMMA CountersFit == Steady => Fits
  <1> SUFFICES ASSUME Steady PROVE Fits
    OBVIOUS
  <1> DEFINE top == RegMod * RegMod
  <1>1. mcycle \in Nat /\ minstret \in Nat /\ minstret + 4 <= mcycle
        /\ (mcycle > 4 => mcycle < MAX_CYCLES + 6) /\ MAX_CYCLES \in Nat
    BY ArchAssumption DEF Steady, TypeOK, CycleBudget
  <1>2. top \in Int /\ MAX_CYCLES + 6 <= top
    BY Moduli, GuestAssumption
  <1> HIDE DEF top
  <1>3. mcycle \in 0 .. top - 1 /\ minstret \in 0 .. top - 1
    BY <1>1, <1>2
  <1> QED BY <1>3 DEF top, Fits

LEMMA CountersFitNext == Steady' => Fits'
  BY CountersFit, PTL

\* What csrr reads of them.
LEMMA Halves ==
    ASSUME NEW c \in 0 .. RegMod * RegMod - 1
    PROVE  Wrap(c \div RegMod) = c \div RegMod /\ Wrap(c) = c % RegMod
  <1> DEFINE m == RegMod
             q == c \div m
             r == c % m
  <1>1. m \in Nat /\ m > 0 /\ m * m \in Int
    BY Moduli
  <1>2. c \in Nat /\ c < m * m
    BY <1>1
  <1> HIDE DEF m
  <1>3. q \in Int /\ r \in 0 .. m - 1 /\ c = m * q + r
    BY <1>1, <1>2, DivMod
  <1> HIDE DEF q, r
  <1>4. m * q \in Int /\ m * q < m * m /\ m * q > -m
    BY <1>1, <1>2, <1>3
  <1>5. q < m
    <2>1. SUFFICES ASSUME q >= m PROVE FALSE
      BY <1>1, <1>3
    <2>2. m * m <= m * q
      BY <1>1, <1>3, <2>1, TimesMonotonic
    <2> QED BY <1>1, <1>4, <2>2
  <1>6. q >= 0
    <2>1. SUFFICES ASSUME q <= -1 PROVE FALSE
      BY <1>1, <1>3
    <2>2. m * q <= m * (-1) /\ m * (-1) = -m
      BY <1>1, <1>3, <2>1, TimesMonotonic
    <2> QED BY <1>1, <1>4, <2>2
  <1>7. q \in 0 .. RegMod - 1
    BY <1>1, <1>3, <1>5, <1>6 DEF m
  <1> QED BY <1>7, WrapSmall DEF m, q, Wrap

\* A counter is read at a moment of the instruction that reads it.
LEMMA ReadsInside ==
    ASSUME Steady, Steady', NEW w \in 41 .. 43, Runs(w)
    PROVE  McycleAtRead \in mcycle .. mcycle' /\ McycleAtRead \in 0 .. RegMod * RegMod - 1
  <1>1. w \in 0 .. 67 /\ TypeOK /\ Instr /\ InText(w) /\ mcycle \in Nat /\ build \in Layouts
    BY DEF Steady, Runs, InText, TypeOK
  <1>2. PICK d \in Reg \ {0}, csr \in {2944, 2816} : Text(build)[w + 1] = Sys(2, d, zero, csr)
    <2>1. Text(build)[42] = Sys(2, 15, zero, 2944) /\ Text(build)[43] = Sys(2, 14, zero, 2816)
          /\ Text(build)[44] = Sys(2, 13, zero, 2944)
      BY ListingMain
    <2> QED BY <2>1 DEF Reg
  <1>3. McycleAtRead \in mcycle .. mcycle'
    BY <1>1, <1>2, CsrrEffect
  <1> DEFINE top == RegMod * RegMod
  <1>4. top \in Int /\ mcycle' \in 0 .. top - 1
    BY Moduli, CountersFitNext DEF Fits
  <1> HIDE DEF top
  <1>5. McycleAtRead \in 0 .. top - 1
    BY <1>1, <1>3, <1>4
  <1> QED BY <1>3, <1>5 DEF top

\* Every step of the guest is one of the loop that reads mcycle, or stutters.
LEMMA CyclesStep ==
    ASSUME Steady, Steady', [GuestNext]_guestVars
    PROVE  [Cycles!Next]_(Cycles!vars)
  <1>0. TypeOK /\ GuestInv
    BY DEF Steady
  <1>1. CASE Quiet
    <2>1. LoopAt(CyclesAt)' = LoopAt(CyclesAt)
      BY <1>1 DEF Quiet, LoopAt
    <2> QED BY <1>1, <2>1 DEF Quiet, Cycles!vars
  <1>2. ASSUME NEW w \in (0 .. 67) \ {27}, Runs(w) PROVE Cycles!Next
    <2>1. /\ pc = 4 * w /\ w \in 0 .. 67 /\ TypeOK /\ Instr /\ InText(w) /\ mcycle' >= mcycle
          /\ regfile \in [Reg -> Word] /\ regfile' \in [Reg -> Word]
          /\ since'.c = IF w = 41 THEN mcycle ELSE since.c
      <3>1. TypeOK' /\ mcycle \in Nat /\ minstret \in Nat
        BY DEF Steady, TypeOK
      <3> QED BY <1>0, <1>2, <3>1 DEF Runs, InText, TypeOK, CyclesAt
    <2>2. Cycles!Runs
      <3>1. mcycle' \in Cycles!Counter
        BY CountersFitNext, SameWidth DEF Fits, Cycles!Counter
      <3> QED BY <2>1, <3>1 DEF Cycles!Runs
    <2>3. w \in 41 .. 43 => McycleAtRead \in mcycle .. mcycle'
          /\ McycleAtRead \in 0 .. RegMod * RegMod - 1
      BY <1>2, ReadsInside
    <2>4. CASE w = 41
      <3>1. McycleAtRead \in mcycle .. mcycle' /\ McycleAtRead \in 0 .. RegMod * RegMod - 1
        BY <2>3, <2>4
      <3>2. Sets(15, read_csr(2944), 168)
        BY <2>1, <2>4, CounterText
      <3>3. read_csr(2944) = McycleAtRead \div RegMod
        BY <3>1, Halves, GuestAssumption DEF read_csr
      <3>4. LoopAt(CyclesAt) = "csrr hi" /\ LoopAt(CyclesAt)' = "csrr lo"
        <4>1. CyclesAt \in Int /\ pc = CyclesAt + 0 /\ pc' = CyclesAt + 4
          BY <2>1, <2>4, <3>2 DEF Sets, CyclesAt
        <4> QED BY <4>1, LoopPlace, LoopPlaceNext
      <3>5. Cycles!ReadHi
        <4>1. regfile'[15] = Cycles!High(McycleAtRead)
          BY <2>1, <3>2, <3>3, SameWidth DEF Sets, Cycles!High, Reg
        <4>2. regfile'[14] = regfile[14] /\ regfile'[13] = regfile[13]
          BY <2>1, <3>2 DEF Sets, Reg
        <4>3. since'.c = mcycle
          BY <2>1, <2>4
        <4>4. \E c \in mcycle .. mcycle' : regfile'[15] = Cycles!High(c)
          BY <3>1, <4>1
        <4> QED BY <2>2, <3>4, <4>2, <4>3, <4>4 DEF Cycles!ReadHi
      <3> QED BY <3>5 DEF Cycles!Next
    <2>5. CASE w = 42
      <3>1. McycleAtRead \in mcycle .. mcycle' /\ McycleAtRead \in 0 .. RegMod * RegMod - 1
        BY <2>3, <2>5
      <3>2. Sets(14, read_csr(2816), 172)
        BY <2>1, <2>5, CounterText
      <3>3. read_csr(2816) = McycleAtRead % RegMod
        BY <3>1, Halves, GuestAssumption DEF read_csr
      <3>4. LoopAt(CyclesAt) = "csrr lo" /\ LoopAt(CyclesAt)' = "csrr hi2"
        <4>1. CyclesAt \in Int /\ pc = CyclesAt + 4 /\ pc' = CyclesAt + 8
          BY <2>1, <2>5, <3>2 DEF Sets, CyclesAt
        <4> QED BY <4>1, LoopPlace, LoopPlaceNext
      <3>5. Cycles!ReadLo
        <4>1. regfile'[14] = Cycles!Lower(McycleAtRead)
          BY <2>1, <3>2, <3>3, SameWidth DEF Sets, Cycles!Lower, Reg
        <4>2. regfile'[15] = regfile[15] /\ regfile'[13] = regfile[13]
          BY <2>1, <3>2 DEF Sets, Reg
        <4>3. since'.c = since.c
          BY <2>1, <2>5
        <4>4. \E c \in mcycle .. mcycle' : regfile'[14] = Cycles!Lower(c)
          BY <3>1, <4>1
        <4> QED BY <2>2, <3>4, <4>2, <4>3, <4>4 DEF Cycles!ReadLo
      <3> QED BY <3>5 DEF Cycles!Next
    <2>6. CASE w = 43
      <3>1. McycleAtRead \in mcycle .. mcycle' /\ McycleAtRead \in 0 .. RegMod * RegMod - 1
        BY <2>3, <2>6
      <3>2. Sets(13, read_csr(2944), 176)
        BY <2>1, <2>6, CounterText
      <3>3. read_csr(2944) = McycleAtRead \div RegMod
        BY <3>1, Halves, GuestAssumption DEF read_csr
      <3>4. LoopAt(CyclesAt) = "csrr hi2" /\ LoopAt(CyclesAt)' = "bne"
        <4>1. CyclesAt \in Int /\ pc = CyclesAt + 8 /\ pc' = CyclesAt + 12
          BY <2>1, <2>6, <3>2 DEF Sets, CyclesAt
        <4> QED BY <4>1, LoopPlace, LoopPlaceNext
      <3>5. Cycles!ReadHi2
        <4>1. regfile'[13] = Cycles!High(McycleAtRead)
          BY <2>1, <3>2, <3>3, SameWidth DEF Sets, Cycles!High, Reg
        <4>2. regfile'[15] = regfile[15] /\ regfile'[14] = regfile[14]
          BY <2>1, <3>2 DEF Sets, Reg
        <4>3. since'.c = since.c
          BY <2>1, <2>6
        <4>4. \E c \in mcycle .. mcycle' : regfile'[13] = Cycles!High(c)
          BY <3>1, <4>1
        <4> QED BY <2>2, <3>4, <4>2, <4>3, <4>4 DEF Cycles!ReadHi2
      <3> QED BY <3>5 DEF Cycles!Next
    <2>7. CASE w = 44
      <3>1. IF regfile[15] # regfile[13] THEN Goes(164) ELSE Goes(180)
        BY <2>1, <2>7, CounterText
      <3>2. LoopAt(CyclesAt) = "bne"
        <4>1. CyclesAt \in Int /\ pc = CyclesAt + 12
          BY <2>1, <2>7 DEF CyclesAt
        <4> QED BY <4>1, LoopPlace
      <3>3. ASSUME Goes(164) PROVE LoopAt(CyclesAt)' = "csrr hi"
        <4>1. CyclesAt \in Int /\ pc' = CyclesAt + 0
          BY <3>3 DEF Goes, CyclesAt
        <4> QED BY <4>1, LoopPlaceNext
      <3>4. ASSUME Goes(180) PROVE LoopAt(CyclesAt)' = "return"
        <4>1. CyclesAt \in Int /\ pc' = CyclesAt + 16
          BY <3>4 DEF Goes, CyclesAt
        <4> QED BY <4>1, LoopPlaceNext
      <3>5. regfile' = regfile
        BY <3>1 DEF Goes
      <3>6. LoopAt(CyclesAt)' = IF regfile[15] # regfile[13] THEN "csrr hi" ELSE "return"
        <4>1. regfile[15] # regfile[13] => LoopAt(CyclesAt)' = "csrr hi"
          BY <3>1, <3>3, Zenon
        <4>2. ~ (regfile[15] # regfile[13]) => LoopAt(CyclesAt)' = "return"
          BY <3>1, <3>4, Zenon
        <4> QED BY <4>1, <4>2, Zenon
      <3>7. Cycles!Bne
        <4>1. since'.c = since.c
          BY <2>1, <2>7
        <4> QED BY <2>2, <3>2, <3>5, <3>6, <4>1 DEF Cycles!Bne
      <3> QED BY <3>7 DEF Cycles!Next
    <2>8. CASE w \notin 41 .. 44
      <3>1. PICK u \in 0 .. 67 : pc' = 4 * u /\ u \notin 42 .. 45
        <4>1. Lands
          BY <1>0, <1>2, FrameNext
        <4> QED BY <2>1, <2>8, <4>1 DEF Lands
      <3>2. LoopAt(CyclesAt) \in {"return", "out"}
        <4>1. CyclesAt \in Int /\ w - 41 \in Int /\ pc = CyclesAt + 4 * (w - 41)
          BY <2>1 DEF CyclesAt
        <4>2. w - 41 = 4 \/ w - 41 \notin 0 .. 4
          BY <2>8
        <4>3. CASE w - 41 = 4
          <5>1. pc = CyclesAt + 16
            BY <4>1, <4>3
          <5> QED BY <4>1, <5>1, LoopPlace
        <4>4. CASE w - 41 \in Int \ (0 .. 4)
          BY <4>1, <4>4, LoopPlace, Zenon
        <4> QED BY <4>1, <4>2, <4>3, <4>4
      <3>3. LoopAt(CyclesAt)' \in {"out", "csrr hi"}
        <4>1. CyclesAt \in Int /\ u - 41 \in Int /\ pc' = CyclesAt + 4 * (u - 41)
          BY <3>1 DEF CyclesAt
        <4>2. u - 41 = 0 \/ u - 41 \notin 0 .. 4
          BY <3>1
        <4>3. CASE u - 41 = 0
          <5>1. pc' = CyclesAt + 0
            BY <4>1, <4>3
          <5> QED BY <4>1, <5>1, LoopPlaceNext
        <4>4. CASE u - 41 \in Int \ (0 .. 4)
          BY <4>1, <4>4, LoopPlaceNext, Zenon
        <4> QED BY <4>1, <4>2, <4>3, <4>4
      <3>4. Cycles!Elsewhere
        <4>1. since'.c = since.c
          BY <2>1, <2>8
        <4>2. regfile'[15] \in Cycles!Word /\ regfile'[14] \in Cycles!Word
              /\ regfile'[13] \in Cycles!Word
          BY <2>1, SameWidth DEF Reg
        <4> QED BY <2>2, <3>2, <3>3, <4>1, <4>2 DEF Cycles!Elsewhere
      <3> QED BY <3>4 DEF Cycles!Next
    <2> QED BY <2>4, <2>5, <2>6, <2>7, <2>8
  <1> QED BY <1>0, <1>1, <1>2, GuestSteps DEF GuestInv

\* Every step of the guest is one of the loop that reads minstret, or stutters.
LEMMA InstructionsStep ==
    ASSUME Steady, Steady', [GuestNext]_guestVars
    PROVE  [Instructions!Next]_(Instructions!vars)
  <1>0. TypeOK /\ GuestInv
    BY DEF Steady
  <1>1. CASE Quiet
    <2>1. LoopAt(InstretAt)' = LoopAt(InstretAt)
      BY <1>1 DEF Quiet, LoopAt
    <2> QED BY <1>1, <2>1 DEF Quiet, Instructions!vars
  <1>2. ASSUME NEW w \in (0 .. 67) \ {27}, Runs(w) PROVE Instructions!Next
    <2>1. /\ pc = 4 * w /\ w \in 0 .. 67 /\ TypeOK /\ Instr /\ InText(w) /\ minstret' >= minstret
          /\ regfile \in [Reg -> Word] /\ regfile' \in [Reg -> Word]
          /\ since'.i = IF w = 46 THEN minstret ELSE since.i
      <3>1. TypeOK' /\ mcycle \in Nat /\ minstret \in Nat
        BY DEF Steady, TypeOK
      <3> QED BY <1>0, <1>2, <3>1 DEF Runs, InText, TypeOK, InstretAt
    <2>2. Instructions!Runs
      <3>1. minstret' \in Instructions!Counter
        BY CountersFitNext, SameWidth DEF Fits, Instructions!Counter
      <3> QED BY <2>1, <3>1 DEF Instructions!Runs
    <2>3. minstret \in minstret .. minstret' /\ minstret \in 0 .. RegMod * RegMod - 1
      BY <2>1, CountersFit DEF Fits, TypeOK
    <2>4. CASE w = 46
      <3>1. minstret \in minstret .. minstret' /\ minstret \in 0 .. RegMod * RegMod - 1
        BY <2>3, <2>4
      <3>2. Sets(28, read_csr(2946), 188)
        BY <2>1, <2>4, CounterText
      <3>3. read_csr(2946) = minstret \div RegMod
        BY <3>1, Halves, GuestAssumption DEF read_csr
      <3>4. LoopAt(InstretAt) = "csrr hi" /\ LoopAt(InstretAt)' = "csrr lo"
        <4>1. InstretAt \in Int /\ pc = InstretAt + 0 /\ pc' = InstretAt + 4
          BY <2>1, <2>4, <3>2 DEF Sets, InstretAt
        <4> QED BY <4>1, LoopPlace, LoopPlaceNext
      <3>5. Instructions!ReadHi
        <4>1. regfile'[28] = Instructions!High(minstret)
          BY <2>1, <3>2, <3>3, SameWidth DEF Sets, Instructions!High, Reg
        <4>2. regfile'[29] = regfile[29] /\ regfile'[30] = regfile[30]
          BY <2>1, <3>2 DEF Sets, Reg
        <4>3. since'.i = minstret
          BY <2>1, <2>4
        <4>4. \E c \in minstret .. minstret' : regfile'[28] = Instructions!High(c)
          BY <3>1, <4>1
        <4> QED BY <2>2, <3>4, <4>2, <4>3, <4>4 DEF Instructions!ReadHi
      <3> QED BY <3>5 DEF Instructions!Next
    <2>5. CASE w = 47
      <3>1. minstret \in minstret .. minstret' /\ minstret \in 0 .. RegMod * RegMod - 1
        BY <2>3, <2>5
      <3>2. Sets(29, read_csr(2818), 192)
        BY <2>1, <2>5, CounterText
      <3>3. read_csr(2818) = minstret % RegMod
        BY <3>1, Halves, GuestAssumption DEF read_csr
      <3>4. LoopAt(InstretAt) = "csrr lo" /\ LoopAt(InstretAt)' = "csrr hi2"
        <4>1. InstretAt \in Int /\ pc = InstretAt + 4 /\ pc' = InstretAt + 8
          BY <2>1, <2>5, <3>2 DEF Sets, InstretAt
        <4> QED BY <4>1, LoopPlace, LoopPlaceNext
      <3>5. Instructions!ReadLo
        <4>1. regfile'[29] = Instructions!Lower(minstret)
          BY <2>1, <3>2, <3>3, SameWidth DEF Sets, Instructions!Lower, Reg
        <4>2. regfile'[28] = regfile[28] /\ regfile'[30] = regfile[30]
          BY <2>1, <3>2 DEF Sets, Reg
        <4>3. since'.i = since.i
          BY <2>1, <2>5
        <4>4. \E c \in minstret .. minstret' : regfile'[29] = Instructions!Lower(c)
          BY <3>1, <4>1
        <4> QED BY <2>2, <3>4, <4>2, <4>3, <4>4 DEF Instructions!ReadLo
      <3> QED BY <3>5 DEF Instructions!Next
    <2>6. CASE w = 48
      <3>1. minstret \in minstret .. minstret' /\ minstret \in 0 .. RegMod * RegMod - 1
        BY <2>3, <2>6
      <3>2. Sets(30, read_csr(2946), 196)
        BY <2>1, <2>6, CounterText
      <3>3. read_csr(2946) = minstret \div RegMod
        BY <3>1, Halves, GuestAssumption DEF read_csr
      <3>4. LoopAt(InstretAt) = "csrr hi2" /\ LoopAt(InstretAt)' = "bne"
        <4>1. InstretAt \in Int /\ pc = InstretAt + 8 /\ pc' = InstretAt + 12
          BY <2>1, <2>6, <3>2 DEF Sets, InstretAt
        <4> QED BY <4>1, LoopPlace, LoopPlaceNext
      <3>5. Instructions!ReadHi2
        <4>1. regfile'[30] = Instructions!High(minstret)
          BY <2>1, <3>2, <3>3, SameWidth DEF Sets, Instructions!High, Reg
        <4>2. regfile'[28] = regfile[28] /\ regfile'[29] = regfile[29]
          BY <2>1, <3>2 DEF Sets, Reg
        <4>3. since'.i = since.i
          BY <2>1, <2>6
        <4>4. \E c \in minstret .. minstret' : regfile'[30] = Instructions!High(c)
          BY <3>1, <4>1
        <4> QED BY <2>2, <3>4, <4>2, <4>3, <4>4 DEF Instructions!ReadHi2
      <3> QED BY <3>5 DEF Instructions!Next
    <2>7. CASE w = 49
      <3>1. IF regfile[28] # regfile[30] THEN Goes(184) ELSE Goes(200)
        BY <2>1, <2>7, CounterText
      <3>2. LoopAt(InstretAt) = "bne"
        <4>1. InstretAt \in Int /\ pc = InstretAt + 12
          BY <2>1, <2>7 DEF InstretAt
        <4> QED BY <4>1, LoopPlace
      <3>3. ASSUME Goes(184) PROVE LoopAt(InstretAt)' = "csrr hi"
        <4>1. InstretAt \in Int /\ pc' = InstretAt + 0
          BY <3>3 DEF Goes, InstretAt
        <4> QED BY <4>1, LoopPlaceNext
      <3>4. ASSUME Goes(200) PROVE LoopAt(InstretAt)' = "return"
        <4>1. InstretAt \in Int /\ pc' = InstretAt + 16
          BY <3>4 DEF Goes, InstretAt
        <4> QED BY <4>1, LoopPlaceNext
      <3>5. regfile' = regfile
        BY <3>1 DEF Goes
      <3>6. LoopAt(InstretAt)' = IF regfile[28] # regfile[30] THEN "csrr hi" ELSE "return"
        <4>1. regfile[28] # regfile[30] => LoopAt(InstretAt)' = "csrr hi"
          BY <3>1, <3>3, Zenon
        <4>2. ~ (regfile[28] # regfile[30]) => LoopAt(InstretAt)' = "return"
          BY <3>1, <3>4, Zenon
        <4> QED BY <4>1, <4>2, Zenon
      <3>7. Instructions!Bne
        <4>1. since'.i = since.i
          BY <2>1, <2>7
        <4> QED BY <2>2, <3>2, <3>5, <3>6, <4>1 DEF Instructions!Bne
      <3> QED BY <3>7 DEF Instructions!Next
    <2>8. CASE w \notin 46 .. 49
      <3>1. PICK u \in 0 .. 67 : pc' = 4 * u /\ u \notin 47 .. 50
        <4>1. Lands
          BY <1>0, <1>2, FrameNext
        <4> QED BY <2>1, <2>8, <4>1 DEF Lands
      <3>2. LoopAt(InstretAt) \in {"return", "out"}
        <4>1. InstretAt \in Int /\ w - 46 \in Int /\ pc = InstretAt + 4 * (w - 46)
          BY <2>1 DEF InstretAt
        <4>2. w - 46 = 4 \/ w - 46 \notin 0 .. 4
          BY <2>8
        <4>3. CASE w - 46 = 4
          <5>1. pc = InstretAt + 16
            BY <4>1, <4>3
          <5> QED BY <4>1, <5>1, LoopPlace
        <4>4. CASE w - 46 \in Int \ (0 .. 4)
          BY <4>1, <4>4, LoopPlace, Zenon
        <4> QED BY <4>1, <4>2, <4>3, <4>4
      <3>3. LoopAt(InstretAt)' \in {"out", "csrr hi"}
        <4>1. InstretAt \in Int /\ u - 46 \in Int /\ pc' = InstretAt + 4 * (u - 46)
          BY <3>1 DEF InstretAt
        <4>2. u - 46 = 0 \/ u - 46 \notin 0 .. 4
          BY <3>1
        <4>3. CASE u - 46 = 0
          <5>1. pc' = InstretAt + 0
            BY <4>1, <4>3
          <5> QED BY <4>1, <5>1, LoopPlaceNext
        <4>4. CASE u - 46 \in Int \ (0 .. 4)
          BY <4>1, <4>4, LoopPlaceNext, Zenon
        <4> QED BY <4>1, <4>2, <4>3, <4>4
      <3>4. Instructions!Elsewhere
        <4>1. since'.i = since.i
          BY <2>1, <2>8
        <4>2. regfile'[28] \in Instructions!Word /\ regfile'[29] \in Instructions!Word
              /\ regfile'[30] \in Instructions!Word
          BY <2>1, SameWidth DEF Reg
        <4> QED BY <2>2, <3>2, <3>3, <4>1, <4>2 DEF Instructions!Elsewhere
      <3> QED BY <3>4 DEF Instructions!Next
    <2> QED BY <2>4, <2>5, <2>6, <2>7, <2>8
  <1> QED BY <1>0, <1>1, <1>2, GuestSteps DEF GuestInv

\* The program begins outside both loops.
LEMMA LoopsInit == GuestInit => Cycles!Init /\ Instructions!Init
  <1> SUFFICES ASSUME GuestInit PROVE Cycles!Init /\ Instructions!Init
    OBVIOUS
  <1>1. Steady /\ Fits
    BY GuestInvInit, CountersFit DEF Steady
  <1>2. mcycle \in Cycles!Counter /\ minstret \in Instructions!Counter
    BY <1>1, SameWidth DEF Fits, Cycles!Counter, Instructions!Counter
  <1>3. since.c = mcycle /\ since.i = minstret /\ pc = 0
    BY DEF GuestInit, Init
  <1>4. LoopAt(CyclesAt) = "out" /\ LoopAt(InstretAt) = "out"
    BY <1>3 DEF LoopAt, CyclesAt, InstretAt
  <1>5. \A r \in Reg : regfile[r] \in Cycles!Word /\ regfile[r] \in Instructions!Word
    BY <1>1, SameWidth DEF Steady, TypeOK
  <1> QED BY <1>2, <1>3, <1>4, <1>5 DEF Cycles!Init, Instructions!Init, Reg

\* The reads of mcycle and minstret behave as the loops of librv.h.
THEOREM LoopsAsWritten == GuestSpec => CounterLoops
  <1>1. Steady /\ Steady' /\ [GuestNext]_guestVars
          => [Cycles!Next]_(Cycles!vars) /\ [Instructions!Next]_(Instructions!vars)
    BY CyclesStep, InstructionsStep
  <1> QED BY <1>1, LoopsInit, GuestSteady, PTL
          DEF GuestSpec, CounterLoops, Cycles!Spec, Instructions!Spec

-----------------------------------------------------------------------------
(* The theorem of LibrvProofs, for both loops *)

CyclesRead == INSTANCE LibrvProofs WITH
    counter <- mcycle, since <- since.c, at <- LoopAt(CyclesAt),
    hi <- regfile[15], lo <- regfile[14], hi2 <- regfile[13]

InstructionsRead == INSTANCE LibrvProofs WITH
    counter <- minstret, since <- since.i, at <- LoopAt(InstretAt),
    hi <- regfile[28], lo <- regfile[29], hi2 <- regfile[30]

\* What LibrvProofs proves holds of the loop over mcycle,
LEMMA CyclesWhole == Cycles!Spec => []Cycles!NotTorn
  <1>1. CyclesRead!RegMod = Cycles!RegMod /\ CyclesRead!Word = Cycles!Word
    BY DEF Cycles!RegMod, Cycles!WordMod, Cycles!HalfMod, Cycles!Word,
           CyclesRead!RegMod, CyclesRead!WordMod, CyclesRead!HalfMod, CyclesRead!Word
  <1>2. Cycles!ReadHi => CyclesRead!ReadHi
    BY <1>1 DEF Cycles!ReadHi, CyclesRead!ReadHi, Cycles!Runs, CyclesRead!Runs,
       Cycles!Counter, CyclesRead!Counter,
                Cycles!High, CyclesRead!High, Cycles!Lower, CyclesRead!Lower
  <1>3. Cycles!ReadLo => CyclesRead!ReadLo
    BY <1>1 DEF Cycles!ReadLo, CyclesRead!ReadLo, Cycles!Runs, CyclesRead!Runs,
       Cycles!Counter, CyclesRead!Counter,
                Cycles!High, CyclesRead!High, Cycles!Lower, CyclesRead!Lower
  <1>4. Cycles!ReadHi2 => CyclesRead!ReadHi2
    BY <1>1 DEF Cycles!ReadHi2, CyclesRead!ReadHi2, Cycles!Runs, CyclesRead!Runs,
       Cycles!Counter, CyclesRead!Counter,
                Cycles!High, CyclesRead!High, Cycles!Lower, CyclesRead!Lower
  <1>5. Cycles!Bne => CyclesRead!Bne
    BY <1>1 DEF Cycles!Bne, CyclesRead!Bne, Cycles!Runs, CyclesRead!Runs, Cycles!Counter,
       CyclesRead!Counter,
                Cycles!High, CyclesRead!High, Cycles!Lower, CyclesRead!Lower
  <1>6. Cycles!Elsewhere => CyclesRead!Elsewhere
    BY <1>1 DEF Cycles!Elsewhere, CyclesRead!Elsewhere, Cycles!Runs, CyclesRead!Runs,
       Cycles!Counter, CyclesRead!Counter,
                Cycles!High, CyclesRead!High, Cycles!Lower, CyclesRead!Lower
  <1>7. Cycles!Init => CyclesRead!Init
    BY <1>1 DEF Cycles!Init, CyclesRead!Init, Cycles!Counter, CyclesRead!Counter
  <1>8. CyclesRead!NotTorn => Cycles!NotTorn
    BY <1>1 DEF Cycles!NotTorn, CyclesRead!NotTorn, Cycles!Value, CyclesRead!Value
  <1>9. UNCHANGED Cycles!vars => UNCHANGED CyclesRead!vars
    BY DEF Cycles!vars, CyclesRead!vars
  <1>10. [Cycles!Next]_(Cycles!vars) => [CyclesRead!Next]_(CyclesRead!vars)
    BY <1>2, <1>3, <1>4, <1>5, <1>6, <1>9 DEF Cycles!Next, CyclesRead!Next
  <1>11. CyclesRead!ArchAssumption
    BY ArchAssumption DEF CyclesRead!ArchAssumption, CyclesRead!RegMod, CyclesRead!WordMod,
       CyclesRead!HalfMod,
                          RegMod, WordMod, HalfMod
  <1>12. CyclesRead!Spec => []CyclesRead!NotTorn
    BY <1>11, CyclesRead!ValueNotTorn, PTL
  <1> QED BY <1>7, <1>8, <1>10, <1>12, PTL DEF Cycles!Spec, CyclesRead!Spec

\* and of the loop over minstret.
LEMMA InstructionsWhole == Instructions!Spec => []Instructions!NotTorn
  <1>1. InstructionsRead!RegMod = Instructions!RegMod /\ InstructionsRead!Word = Instructions!Word
    BY DEF Instructions!RegMod, Instructions!WordMod, Instructions!HalfMod, Instructions!Word,
           InstructionsRead!RegMod, InstructionsRead!WordMod, InstructionsRead!HalfMod,
           InstructionsRead!Word
  <1>2. Instructions!ReadHi => InstructionsRead!ReadHi
    BY <1>1 DEF Instructions!ReadHi, InstructionsRead!ReadHi, Instructions!Runs,
       InstructionsRead!Runs, Instructions!Counter, InstructionsRead!Counter,
                Instructions!High, InstructionsRead!High, Instructions!Lower, InstructionsRead!Lower
  <1>3. Instructions!ReadLo => InstructionsRead!ReadLo
    BY <1>1 DEF Instructions!ReadLo, InstructionsRead!ReadLo, Instructions!Runs,
       InstructionsRead!Runs, Instructions!Counter, InstructionsRead!Counter,
                Instructions!High, InstructionsRead!High, Instructions!Lower, InstructionsRead!Lower
  <1>4. Instructions!ReadHi2 => InstructionsRead!ReadHi2
    BY <1>1 DEF Instructions!ReadHi2, InstructionsRead!ReadHi2, Instructions!Runs,
       InstructionsRead!Runs, Instructions!Counter, InstructionsRead!Counter,
                Instructions!High, InstructionsRead!High, Instructions!Lower, InstructionsRead!Lower
  <1>5. Instructions!Bne => InstructionsRead!Bne
    BY <1>1 DEF Instructions!Bne, InstructionsRead!Bne, Instructions!Runs,
       InstructionsRead!Runs, Instructions!Counter, InstructionsRead!Counter,
                Instructions!High, InstructionsRead!High, Instructions!Lower, InstructionsRead!Lower
  <1>6. Instructions!Elsewhere => InstructionsRead!Elsewhere
    BY <1>1 DEF Instructions!Elsewhere, InstructionsRead!Elsewhere, Instructions!Runs,
       InstructionsRead!Runs, Instructions!Counter, InstructionsRead!Counter,
                Instructions!High, InstructionsRead!High, Instructions!Lower, InstructionsRead!Lower
  <1>7. Instructions!Init => InstructionsRead!Init
    BY <1>1 DEF Instructions!Init, InstructionsRead!Init, Instructions!Counter,
       InstructionsRead!Counter
  <1>8. InstructionsRead!NotTorn => Instructions!NotTorn
    BY <1>1 DEF Instructions!NotTorn, InstructionsRead!NotTorn, Instructions!Value,
       InstructionsRead!Value
  <1>9. UNCHANGED Instructions!vars => UNCHANGED InstructionsRead!vars
    BY DEF Instructions!vars, InstructionsRead!vars
  <1>10. [Instructions!Next]_(Instructions!vars) => [InstructionsRead!Next]_(InstructionsRead!vars)
    BY <1>2, <1>3, <1>4, <1>5, <1>6, <1>9 DEF Instructions!Next, InstructionsRead!Next
  <1>11. InstructionsRead!ArchAssumption
    BY ArchAssumption DEF InstructionsRead!ArchAssumption, InstructionsRead!RegMod,
       InstructionsRead!WordMod, InstructionsRead!HalfMod,
                          RegMod, WordMod, HalfMod
  <1>12. InstructionsRead!Spec => []InstructionsRead!NotTorn
    BY <1>11, InstructionsRead!ValueNotTorn, PTL
  <1> QED BY <1>7, <1>8, <1>10, <1>12, PTL DEF Instructions!Spec, InstructionsRead!Spec

\* Neither counter is returned torn by the loops of librv.h when the emulator runs
\* them, however far its timing model advances the counter between two reads.
THEOREM CountersReadWhole == GuestSpec => []CountersNotTorn
  <1>1. GuestSpec => Cycles!Spec /\ Instructions!Spec
    BY LoopsAsWritten DEF CounterLoops
  <1>2. CountersNotTorn <=> Cycles!NotTorn /\ Instructions!NotTorn
    BY DEF CountersNotTorn
  <1> QED BY <1>1, <1>2, CyclesWhole, InstructionsWhole, PTL

-----------------------------------------------------------------------------
(* The state of crt0.S in that of the emulator *)

\* The symbols of the linker script, for the same program.
LEMMA SameScript ==
    /\ StartUp!Word = Word /\ StartUp!Byte = Byte /\ StartUp!E_EXIT = E_EXIT
    /\ StartUp!stack_top = stack_top /\ StartUp!Cells = RamCells
    /\ \A n : StartUp!Wrap(n) = Wrap(n) /\ StartUp!Signed(n) = Signed(n)
    /\ \A l : /\ StartUp!sidata(l) = sidata(l) /\ StartUp!sdata(l) = sdata(l)
              /\ StartUp!edata(l) = edata(l) /\ StartUp!sbss(l) = sbss(l)
              /\ StartUp!ebss(l) = ebss(l) /\ StartUp!global_pointer(l) = global_pointer(l)
  <1>1. StartUp!RegMod = RegMod
    BY DEF RegMod, WordMod, HalfMod, StartUp!RegMod, StartUp!WordMod, StartUp!HalfMod
  <1>2. /\ StartUp!Word = Word /\ StartUp!Byte = Byte /\ StartUp!E_EXIT = E_EXIT
        /\ StartUp!stack_top = stack_top /\ StartUp!Cells = RamCells
    BY <1>1 DEF Word, StartUp!Word, Byte, StartUp!Byte, E_EXIT, StartUp!E_EXIT,
                stack_top, StartUp!stack_top, ram_end, StartUp!ram_end, RamCells, StartUp!Cells
  <1>3. ASSUME NEW n PROVE StartUp!Wrap(n) = Wrap(n) /\ StartUp!Signed(n) = Signed(n)
    BY <1>1 DEF Wrap, StartUp!Wrap, Signed, StartUp!Signed
  <1>4. ASSUME NEW n PROVE StartUp!ALIGN(n) = ALIGN(n)
    BY DEF ALIGN, StartUp!ALIGN
  <1>5. ASSUME NEW l
        PROVE  /\ StartUp!sidata(l) = sidata(l) /\ StartUp!sdata(l) = sdata(l)
               /\ StartUp!edata(l) = edata(l) /\ StartUp!sbss(l) = sbss(l)
               /\ StartUp!ebss(l) = ebss(l) /\ StartUp!global_pointer(l) = global_pointer(l)
    <2>1. StartUp!sidata(l) = sidata(l) /\ StartUp!sdata(l) = sdata(l)
      BY <1>4 DEF sidata, StartUp!sidata, sdata, StartUp!sdata
    <2>2. StartUp!edata(l) = edata(l)
      BY <1>4, <2>1 DEF edata, StartUp!edata
    <2>3. StartUp!sbss(l) = sbss(l)
      BY <1>4, <2>2 DEF sbss, StartUp!sbss
    <2>4. StartUp!ebss(l) = ebss(l)
      BY <1>4, <2>3 DEF ebss, StartUp!ebss
    <2>5. StartUp!global_pointer(l) = global_pointer(l)
      BY <1>3, <2>1 DEF global_pointer, StartUp!global_pointer
    <2> QED BY <2>1, <2>2, <2>3, <2>4, <2>5
  <1> QED BY <1>2, <1>3, <1>5

\* Where the program is, as crt0.S sees it.
LEMMA StartPlace ==
    ASSUME NEW w \in 0 .. 67, pc = 4 * w, instr_loop
    PROVE  StartAt = IF w < 28 THEN Labels[w + 1] ELSE "main"
  <1>1. pc \div 4 = w /\ Len(Labels) = 28
    BY DEF Labels
  <1> QED BY <1>1 DEF StartAt

LEMMA StartPlaceNext ==
    ASSUME NEW w \in 0 .. 67, pc' = 4 * w, instr_loop'
    PROVE  StartAt' = IF w < 28 THEN Labels[w + 1] ELSE "main"
  <1>1. pc' \div 4 = w /\ Len(Labels) = 28
    BY DEF Labels
  <1> QED BY <1>1 DEF StartAt

\* The registers crt0.S uses.
StartNames == {"gp", "sp", "a0", "a1", "a2"}

\* The bytes of t0 are bytes.
LEMMA DigitByte ==
    ASSUME NEW v \in Nat, NEW k \in 0 .. 3
    PROVE  Digit(v, k) \in Byte
  <1>1. ByteMod \in Nat /\ ByteMod > 0
    BY Moduli
  <1>2. v \div ByteMod \in Int
    BY <1>1
  <1>3. (v \div ByteMod) \div ByteMod \in Int
    BY <1>1, <1>2
  <1>4. ((v \div ByteMod) \div ByteMod) \div ByteMod \in Int
    BY <1>1, <1>3
  <1>5. \A n \in Int : n % ByteMod \in Byte
    BY <1>1, ModInRange DEF Byte
  <1>6. Digit(v, 0) \in Byte /\ Digit(v, 1) \in Byte /\ Digit(v, 2) \in Byte /\ Digit(v, 3) \in Byte
    <2>1. v \in Int
      OBVIOUS
    <2> QED BY <1>2, <1>3, <1>4, <1>5, <2>1, Digits, Zenon
  <1>7. k = 0 \/ k = 1 \/ k = 2 \/ k = 3
    OBVIOUS
  <1> QED BY <1>6, <1>7

\* The registers and t0 have the types of Crt0.
LEMMA StartTypes ==
    ASSUME TypeOK
    PROVE  /\ StartReg \in [StartNames -> Word] /\ StartT0 \in [0 .. 3 -> Byte]
           /\ \A k \in 0 .. 3 : StartT0[k] = Digit(regfile[t0], k)
  <1>1. StartReg \in [StartNames -> Word]
    BY DEF TypeOK, StartReg, Reg, gp, sp, A0, A1, StartNames
  <1>2. regfile[t0] \in Word
    BY DEF TypeOK, Reg, t0
  <1>0. Word \subseteq Nat
    BY Moduli DEF Word
  <1>3. ASSUME NEW k \in 0 .. 3 PROVE Digit(regfile[t0], k) \in Byte
    BY <1>0, <1>2, <1>3, DigitByte
  <1> QED BY <1>1, <1>3 DEF StartT0, Digit

LEMMA StartTypesNext ==
    ASSUME TypeOK'
    PROVE  StartReg' \in [StartNames -> Word] /\ StartT0' \in [0 .. 3 -> Byte]
  <1>1. StartReg' \in [StartNames -> Word]
    BY DEF TypeOK, StartReg, Reg, gp, sp, A0, A1, StartNames
  <1>2. regfile'[t0] \in Word
    BY DEF TypeOK, Reg, t0
  <1>0. Word \subseteq Nat
    BY Moduli DEF Word
  <1>3. ASSUME NEW k \in 0 .. 3 PROVE Digit(regfile'[t0], k) \in Byte
    BY <1>0, <1>2, <1>3, DigitByte
  <1> QED BY <1>1, <1>3 DEF StartT0, Digit

\* Two valuations of the registers are equal when they agree on each.
LEMMA SameRegisters ==
    ASSUME NEW f \in [StartNames -> Word], NEW g \in [StartNames -> Word],
           \A r \in StartNames : f[r] = g[r]
    PROVE  f = g
  OBVIOUS

\* What the machine does to one of them is what crt0.S does.
LEMMA StartSetsGp ==
    ASSUME TypeOK, TypeOK', NEW v \in Word, regfile' = [regfile EXCEPT ![gp] = v]
    PROVE  StartReg' = [StartReg EXCEPT !["gp"] = v] /\ StartT0' = StartT0
  <1>1. regfile'[gp] = v /\ regfile'[sp] = regfile[sp] /\ regfile'[A0] = regfile[A0]
        /\ regfile'[A1] = regfile[A1] /\ regfile'[12] = regfile[12]
    BY DEF TypeOK, Reg, gp, sp, A0, A1
  <1>2. StartReg'["gp"] = v /\ StartReg'["sp"] = StartReg["sp"] /\ StartReg'["a0"] = StartReg["a0"]
        /\ StartReg'["a1"] = StartReg["a1"] /\ StartReg'["a2"] = StartReg["a2"]
    BY <1>1 DEF StartReg, A0, A1, sp, gp
  <1>3. StartReg \in [StartNames -> Word] /\ StartReg' \in [StartNames -> Word]
    BY StartTypes, StartTypesNext
  <1>4. \A r \in StartNames : StartReg'[r] = [StartReg EXCEPT !["gp"] = v][r]
    BY <1>2, <1>3 DEF StartNames
  <1>5. [StartReg EXCEPT !["gp"] = v] \in [StartNames -> Word]
    BY <1>3
  <1>6. regfile'[t0] = regfile[t0]
    BY DEF TypeOK, Reg, gp, sp, A0, A1, t0
  <1>7. StartT0' = StartT0
    BY <1>6 DEF StartT0
  <1> QED BY <1>3, <1>4, <1>5, <1>7, SameRegisters

LEMMA StartSetsSp ==
    ASSUME TypeOK, TypeOK', NEW v \in Word, regfile' = [regfile EXCEPT ![sp] = v]
    PROVE  StartReg' = [StartReg EXCEPT !["sp"] = v] /\ StartT0' = StartT0
  <1>1. regfile'[gp] = regfile[gp] /\ regfile'[sp] = v /\ regfile'[A0] = regfile[A0]
        /\ regfile'[A1] = regfile[A1] /\ regfile'[12] = regfile[12]
    BY DEF TypeOK, Reg, gp, sp, A0, A1
  <1>2. StartReg'["gp"] = StartReg["gp"] /\ StartReg'["sp"] = v /\ StartReg'["a0"] = StartReg["a0"]
        /\ StartReg'["a1"] = StartReg["a1"] /\ StartReg'["a2"] = StartReg["a2"]
    BY <1>1 DEF StartReg, A0, A1, sp, gp
  <1>3. StartReg \in [StartNames -> Word] /\ StartReg' \in [StartNames -> Word]
    BY StartTypes, StartTypesNext
  <1>4. \A r \in StartNames : StartReg'[r] = [StartReg EXCEPT !["sp"] = v][r]
    BY <1>2, <1>3 DEF StartNames
  <1>5. [StartReg EXCEPT !["sp"] = v] \in [StartNames -> Word]
    BY <1>3
  <1>6. regfile'[t0] = regfile[t0]
    BY DEF TypeOK, Reg, gp, sp, A0, A1, t0
  <1>7. StartT0' = StartT0
    BY <1>6 DEF StartT0
  <1> QED BY <1>3, <1>4, <1>5, <1>7, SameRegisters

LEMMA StartSetsA0 ==
    ASSUME TypeOK, TypeOK', NEW v \in Word, regfile' = [regfile EXCEPT ![A0] = v]
    PROVE  StartReg' = [StartReg EXCEPT !["a0"] = v] /\ StartT0' = StartT0
  <1>1. regfile'[gp] = regfile[gp] /\ regfile'[sp] = regfile[sp] /\ regfile'[A0] = v
        /\ regfile'[A1] = regfile[A1] /\ regfile'[12] = regfile[12]
    BY DEF TypeOK, Reg, gp, sp, A0, A1
  <1>2. StartReg'["gp"] = StartReg["gp"] /\ StartReg'["sp"] = StartReg["sp"] /\ StartReg'["a0"] = v
        /\ StartReg'["a1"] = StartReg["a1"] /\ StartReg'["a2"] = StartReg["a2"]
    BY <1>1 DEF StartReg, A0, A1, sp, gp
  <1>3. StartReg \in [StartNames -> Word] /\ StartReg' \in [StartNames -> Word]
    BY StartTypes, StartTypesNext
  <1>4. \A r \in StartNames : StartReg'[r] = [StartReg EXCEPT !["a0"] = v][r]
    BY <1>2, <1>3 DEF StartNames
  <1>5. [StartReg EXCEPT !["a0"] = v] \in [StartNames -> Word]
    BY <1>3
  <1>6. regfile'[t0] = regfile[t0]
    BY DEF TypeOK, Reg, gp, sp, A0, A1, t0
  <1>7. StartT0' = StartT0
    BY <1>6 DEF StartT0
  <1> QED BY <1>3, <1>4, <1>5, <1>7, SameRegisters

LEMMA StartSetsA1 ==
    ASSUME TypeOK, TypeOK', NEW v \in Word, regfile' = [regfile EXCEPT ![A1] = v]
    PROVE  StartReg' = [StartReg EXCEPT !["a1"] = v] /\ StartT0' = StartT0
  <1>1. regfile'[gp] = regfile[gp] /\ regfile'[sp] = regfile[sp] /\ regfile'[A0] = regfile[A0]
        /\ regfile'[A1] = v /\ regfile'[12] = regfile[12]
    BY DEF TypeOK, Reg, gp, sp, A0, A1
  <1>2. StartReg'["gp"] = StartReg["gp"] /\ StartReg'["sp"] = StartReg["sp"]
        /\ StartReg'["a0"] = StartReg["a0"]
        /\ StartReg'["a1"] = v /\ StartReg'["a2"] = StartReg["a2"]
    BY <1>1 DEF StartReg, A0, A1, sp, gp
  <1>3. StartReg \in [StartNames -> Word] /\ StartReg' \in [StartNames -> Word]
    BY StartTypes, StartTypesNext
  <1>4. \A r \in StartNames : StartReg'[r] = [StartReg EXCEPT !["a1"] = v][r]
    BY <1>2, <1>3 DEF StartNames
  <1>5. [StartReg EXCEPT !["a1"] = v] \in [StartNames -> Word]
    BY <1>3
  <1>6. regfile'[t0] = regfile[t0]
    BY DEF TypeOK, Reg, gp, sp, A0, A1, t0
  <1>7. StartT0' = StartT0
    BY <1>6 DEF StartT0
  <1> QED BY <1>3, <1>4, <1>5, <1>7, SameRegisters

LEMMA StartSetsA2 ==
    ASSUME TypeOK, TypeOK', NEW v \in Word, regfile' = [regfile EXCEPT ![12] = v]
    PROVE  StartReg' = [StartReg EXCEPT !["a2"] = v] /\ StartT0' = StartT0
  <1>1. regfile'[gp] = regfile[gp] /\ regfile'[sp] = regfile[sp] /\ regfile'[A0] = regfile[A0]
        /\ regfile'[A1] = regfile[A1] /\ regfile'[12] = v
    BY DEF TypeOK, Reg, gp, sp, A0, A1
  <1>2. StartReg'["gp"] = StartReg["gp"] /\ StartReg'["sp"] = StartReg["sp"]
        /\ StartReg'["a0"] = StartReg["a0"]
        /\ StartReg'["a1"] = StartReg["a1"] /\ StartReg'["a2"] = v
    BY <1>1 DEF StartReg, A0, A1, sp, gp
  <1>3. StartReg \in [StartNames -> Word] /\ StartReg' \in [StartNames -> Word]
    BY StartTypes, StartTypesNext
  <1>4. \A r \in StartNames : StartReg'[r] = [StartReg EXCEPT !["a2"] = v][r]
    BY <1>2, <1>3 DEF StartNames
  <1>5. [StartReg EXCEPT !["a2"] = v] \in [StartNames -> Word]
    BY <1>3
  <1>6. regfile'[t0] = regfile[t0]
    BY DEF TypeOK, Reg, gp, sp, A0, A1, t0
  <1>7. StartT0' = StartT0
    BY <1>6 DEF StartT0
  <1> QED BY <1>3, <1>4, <1>5, <1>7, SameRegisters

\* Writes to ra and t0 leave the registers of crt0.S alone.
LEMMA StartKeeps ==
    ASSUME TypeOK, NEW v, NEW d \in {ra, t0}, regfile' = [regfile EXCEPT ![d] = v]
    PROVE  /\ StartReg' = StartReg
           /\ d = ra => StartT0' = StartT0
           /\ d = t0 => StartT0' = [k \in 0 .. 3 |-> Digit(v, k)]
  <1>1. /\ regfile'[gp] = regfile[gp] /\ regfile'[sp] = regfile[sp] /\ regfile'[A0] = regfile[A0]
        /\ regfile'[A1] = regfile[A1] /\ regfile'[12] = regfile[12]
    <2>1. CASE d = ra
      BY <2>1 DEF TypeOK, Reg, gp, sp, A0, A1, ra, t0
    <2>2. CASE d = t0
      BY <2>2 DEF TypeOK, Reg, gp, sp, A0, A1, ra, t0
    <2> QED BY <2>1, <2>2
  <1>2. d = ra => regfile'[t0] = regfile[t0]
    BY DEF TypeOK, Reg, ra, t0
  <1>3. d = t0 => regfile'[t0] = v
    BY DEF TypeOK, Reg, ra, t0
  <1>4. StartReg' = StartReg
    BY <1>1 DEF StartReg
  <1>5. d = ra => StartT0' = StartT0
    BY <1>2 DEF StartT0
  <1>6. d = t0 => StartT0' = [k \in 0 .. 3 |-> Digit(v, k)]
    BY <1>3 DEF StartT0, Digit
  <1> QED BY <1>4, <1>5, <1>6

\* So does an instruction that writes no register.
LEMMA StartSame ==
    ASSUME regfile' = regfile PROVE StartReg' = StartReg /\ StartT0' = StartT0
  BY DEF StartReg, StartT0

-----------------------------------------------------------------------------
(* The steps of crt0.S *)

\* The listing of crt0.S.
LEMMA LabelList ==
    /\ Labels[1] = "_start"
    /\ Labels[2] = "la gp"
    /\ Labels[3] = "auipc sp"
    /\ Labels[4] = "la sp"
    /\ Labels[5] = "auipc a0, _sidata"
    /\ Labels[6] = "la a0, _sidata"
    /\ Labels[7] = "auipc a1, _sdata"
    /\ Labels[8] = "la a1, _sdata"
    /\ Labels[9] = "auipc a2, _edata"
    /\ Labels[10] = "la a2, _edata"
    /\ Labels[11] = "copy_data_loop"
    /\ Labels[12] = "lw t0"
    /\ Labels[13] = "sw t0"
    /\ Labels[14] = "addi a0"
    /\ Labels[15] = "addi a1"
    /\ Labels[16] = "j copy_data_loop"
    /\ Labels[17] = "copy_data_done"
    /\ Labels[18] = "la a0, _sbss"
    /\ Labels[19] = "auipc a1, _ebss"
    /\ Labels[20] = "la a1, _ebss"
    /\ Labels[21] = "zero_bss_loop"
    /\ Labels[22] = "sw zero"
    /\ Labels[23] = "addi a0 (bss)"
    /\ Labels[24] = "j zero_bss_loop"
    /\ Labels[25] = "call main"
    /\ Labels[26] = "li a0, 10"
    /\ Labels[27] = "ecall"
    /\ Labels[28] = "halt"
  BY DEF Labels

\* An instruction of crt0.S, and what it leaves to the emulator.
Starts(w, u) ==
    /\ StartAt = Labels[w + 1] /\ StartAt' = IF u < 28 THEN Labels[u + 1] ELSE "main"
    /\ build' = build /\ before' = before

\* Every instruction before main leads from its label to that of the next.
LEMMA StartRuns ==
    ASSUME Steady, NEW w \in 0 .. 26, Runs(w), NEW u \in 1 .. 67, pc' = 4 * u,
           instr_loop' = instr_loop
    PROVE  Starts(w, u)
  <1>1. /\ pc = 4 * w /\ instr_loop /\ build' = build /\ w \in 0 .. 67 /\ u \in 0 .. 67
        /\ before' = IF pc # 0 /\ pc' = 0 THEN ram' ELSE before
    BY DEF Steady, Runs, InText, GuestInv, Placed
  <1>2. before' = before
    BY <1>1
  <1>3. w < 28
    OBVIOUS
  <1> QED BY <1>1, <1>2, <1>3, StartPlace, StartPlaceNext DEF Starts

\* The addresses la puts in registers are registers' values.
LEMMA Addresses ==
    ASSUME build \in Layouts
    PROVE  /\ stack_top \in Word /\ sidata(build) \in Word /\ sdata(build) \in Word
           /\ edata(build) \in Word /\ sbss(build) \in Word /\ ebss(build) \in Word
           /\ E_EXIT \in Word
  BY LayoutFacts, Sizes DEF E_EXIT, Word

\* The instructions that set a register are those of Crt0.
LEMMA StartSetsNext ==
    ASSUME Steady, Steady', NEW w \in {1, 3, 5, 7, 9, 13, 14, 17, 19, 22, 25}, Runs(w)
    PROVE  StartUp!Next
  <1>1. /\ TypeOK /\ TypeOK' /\ Instr /\ InText(w) /\ w \in 0 .. 25 /\ w \in 0 .. 26
        /\ build \in Layouts /\ Halfway
    BY DEF Steady, GuestInv, Runs, InText
  <1>2. /\ stack_top \in Word /\ sidata(build) \in Word /\ sdata(build) \in Word
        /\ edata(build) \in Word /\ sbss(build) \in Word /\ ebss(build) \in Word
        /\ E_EXIT \in Word /\ global_pointer(build) \in Word /\ Sum(A0, 4) \in Word
        /\ Sum(A1, 4) \in Word
    <2>0. regfile[A0] \in Word /\ regfile[A1] \in Word
      BY <1>1 DEF TypeOK, Reg, A0, A1
    <2>1. regfile[A0] + 4 \in Int /\ regfile[A1] + 4 \in Int
      BY <2>0, Moduli DEF Word
    <2> QED BY <1>1, <2>1, Addresses, GlobalPointer, WrapType DEF Sum
  <1>3. CASE w = 3
    <2>1. Sets(sp, stack_top, 16)
      BY <1>1, <1>3, StartText
    <2>2. Starts(3, 4)
      BY <1>1, <1>3, <2>1, StartRuns DEF Sets
    <2>3. StartReg' = [StartReg EXCEPT !["sp"] = stack_top] /\ StartT0' = StartT0 /\ ram' = ram
      BY <1>1, <1>2, <2>1, StartSetsSp DEF Sets
    <2>4. stack_top = StartUp!stack_top
      BY <1>1, SameScript DEF Sum, StartReg
    <2>5. StartUp!Set("la sp", "sp", StartUp!stack_top, "auipc a0, _sidata")
      <3>1. StartAt = Labels[4] /\ StartAt' = Labels[5] /\ build' = build /\ before' = before
        BY <2>2 DEF Starts
      <3>2. StartAt = "la sp" /\ StartAt' = "auipc a0, _sidata"
        BY <3>1, LabelList
      <3> QED BY <2>3, <2>4, <3>1, <3>2 DEF StartUp!Set
    <2>6. StartUp!Pointers
      BY <2>5, Zenon DEF StartUp!Pointers
    <2> QED BY <2>6 DEF StartUp!Next
  <1>4. CASE w = 5
    <2>1. Sets(A0, sidata(build), 24)
      BY <1>1, <1>4, StartText
    <2>2. Starts(5, 6)
      BY <1>1, <1>4, <2>1, StartRuns DEF Sets
    <2>3. StartReg' = [StartReg EXCEPT !["a0"] = sidata(build)] /\ StartT0' = StartT0 /\ ram' = ram
      BY <1>1, <1>2, <2>1, StartSetsA0 DEF Sets
    <2>4. sidata(build) = StartUp!sidata(build)
      BY <1>1, SameScript DEF Sum, StartReg
    <2>5. StartUp!Set("la a0, _sidata", "a0", StartUp!sidata(build), "auipc a1, _sdata")
      <3>1. StartAt = Labels[6] /\ StartAt' = Labels[7] /\ build' = build /\ before' = before
        BY <2>2 DEF Starts
      <3>2. StartAt = "la a0, _sidata" /\ StartAt' = "auipc a1, _sdata"
        BY <3>1, LabelList
      <3> QED BY <2>3, <2>4, <3>1, <3>2 DEF StartUp!Set
    <2>6. StartUp!CopyData
      BY <2>5, Zenon DEF StartUp!CopyData
    <2> QED BY <2>6 DEF StartUp!Next
  <1>5. CASE w = 7
    <2>1. Sets(A1, sdata(build), 32)
      BY <1>1, <1>5, StartText
    <2>2. Starts(7, 8)
      BY <1>1, <1>5, <2>1, StartRuns DEF Sets
    <2>3. StartReg' = [StartReg EXCEPT !["a1"] = sdata(build)] /\ StartT0' = StartT0 /\ ram' = ram
      BY <1>1, <1>2, <2>1, StartSetsA1 DEF Sets
    <2>4. sdata(build) = StartUp!sdata(build)
      BY <1>1, SameScript DEF Sum, StartReg
    <2>5. StartUp!Set("la a1, _sdata", "a1", StartUp!sdata(build), "auipc a2, _edata")
      <3>1. StartAt = Labels[8] /\ StartAt' = Labels[9] /\ build' = build /\ before' = before
        BY <2>2 DEF Starts
      <3>2. StartAt = "la a1, _sdata" /\ StartAt' = "auipc a2, _edata"
        BY <3>1, LabelList
      <3> QED BY <2>3, <2>4, <3>1, <3>2 DEF StartUp!Set
    <2>6. StartUp!CopyData
      BY <2>5, Zenon DEF StartUp!CopyData
    <2> QED BY <2>6 DEF StartUp!Next
  <1>6. CASE w = 9
    <2>1. Sets(12, edata(build), 40)
      BY <1>1, <1>6, StartText
    <2>2. Starts(9, 10)
      BY <1>1, <1>6, <2>1, StartRuns DEF Sets
    <2>3. StartReg' = [StartReg EXCEPT !["a2"] = edata(build)] /\ StartT0' = StartT0 /\ ram' = ram
      BY <1>1, <1>2, <2>1, StartSetsA2 DEF Sets
    <2>4. edata(build) = StartUp!edata(build)
      BY <1>1, SameScript DEF Sum, StartReg
    <2>5. StartUp!Set("la a2, _edata", "a2", StartUp!edata(build), "copy_data_loop")
      <3>1. StartAt = Labels[10] /\ StartAt' = Labels[11] /\ build' = build /\ before' = before
        BY <2>2 DEF Starts
      <3>2. StartAt = "la a2, _edata" /\ StartAt' = "copy_data_loop"
        BY <3>1, LabelList
      <3> QED BY <2>3, <2>4, <3>1, <3>2 DEF StartUp!Set
    <2>6. StartUp!CopyData
      BY <2>5, Zenon DEF StartUp!CopyData
    <2> QED BY <2>6 DEF StartUp!Next
  <1>7. CASE w = 13
    <2>1. Sets(A0, Sum(A0, 4), 56)
      BY <1>1, <1>7, StartText
    <2>2. Starts(13, 14)
      BY <1>1, <1>7, <2>1, StartRuns DEF Sets
    <2>3. StartReg' = [StartReg EXCEPT !["a0"] = Sum(A0, 4)] /\ StartT0' = StartT0 /\ ram' = ram
      BY <1>1, <1>2, <2>1, StartSetsA0 DEF Sets
    <2>4. Sum(A0, 4) = StartUp!Wrap(StartReg["a0"] + 4)
      BY <1>1, SameScript DEF Sum, StartReg
    <2>5. StartUp!Set("addi a0", "a0", StartUp!Wrap(StartReg["a0"] + 4), "addi a1")
      <3>1. StartAt = Labels[14] /\ StartAt' = Labels[15] /\ build' = build /\ before' = before
        BY <2>2 DEF Starts
      <3>2. StartAt = "addi a0" /\ StartAt' = "addi a1"
        BY <3>1, LabelList
      <3> QED BY <2>3, <2>4, <3>1, <3>2 DEF StartUp!Set
    <2>6. StartUp!CopyData
      BY <2>5, Zenon DEF StartUp!CopyData
    <2> QED BY <2>6 DEF StartUp!Next
  <1>8. CASE w = 14
    <2>1. Sets(A1, Sum(A1, 4), 60)
      BY <1>1, <1>8, StartText
    <2>2. Starts(14, 15)
      BY <1>1, <1>8, <2>1, StartRuns DEF Sets
    <2>3. StartReg' = [StartReg EXCEPT !["a1"] = Sum(A1, 4)] /\ StartT0' = StartT0 /\ ram' = ram
      BY <1>1, <1>2, <2>1, StartSetsA1 DEF Sets
    <2>4. Sum(A1, 4) = StartUp!Wrap(StartReg["a1"] + 4)
      BY <1>1, SameScript DEF Sum, StartReg
    <2>5. StartUp!Set("addi a1", "a1", StartUp!Wrap(StartReg["a1"] + 4), "j copy_data_loop")
      <3>1. StartAt = Labels[15] /\ StartAt' = Labels[16] /\ build' = build /\ before' = before
        BY <2>2 DEF Starts
      <3>2. StartAt = "addi a1" /\ StartAt' = "j copy_data_loop"
        BY <3>1, LabelList
      <3> QED BY <2>3, <2>4, <3>1, <3>2 DEF StartUp!Set
    <2>6. StartUp!CopyData
      BY <2>5, Zenon DEF StartUp!CopyData
    <2> QED BY <2>6 DEF StartUp!Next
  <1>9. CASE w = 17
    <2>1. Sets(A0, sbss(build), 72)
      BY <1>1, <1>9, StartText
    <2>2. Starts(17, 18)
      BY <1>1, <1>9, <2>1, StartRuns DEF Sets
    <2>3. StartReg' = [StartReg EXCEPT !["a0"] = sbss(build)] /\ StartT0' = StartT0 /\ ram' = ram
      BY <1>1, <1>2, <2>1, StartSetsA0 DEF Sets
    <2>4. sbss(build) = StartUp!sbss(build)
      BY <1>1, SameScript DEF Sum, StartReg
    <2>5. StartUp!Set("la a0, _sbss", "a0", StartUp!sbss(build), "auipc a1, _ebss")
      <3>1. StartAt = Labels[18] /\ StartAt' = Labels[19] /\ build' = build /\ before' = before
        BY <2>2 DEF Starts
      <3>2. StartAt = "la a0, _sbss" /\ StartAt' = "auipc a1, _ebss"
        BY <3>1, LabelList
      <3> QED BY <2>3, <2>4, <3>1, <3>2 DEF StartUp!Set
    <2>6. StartUp!ZeroBss
      BY <2>5, Zenon DEF StartUp!ZeroBss
    <2> QED BY <2>6 DEF StartUp!Next
  <1>10. CASE w = 19
    <2>1. Sets(A1, ebss(build), 80)
      BY <1>1, <1>10, StartText
    <2>2. Starts(19, 20)
      BY <1>1, <1>10, <2>1, StartRuns DEF Sets
    <2>3. StartReg' = [StartReg EXCEPT !["a1"] = ebss(build)] /\ StartT0' = StartT0 /\ ram' = ram
      BY <1>1, <1>2, <2>1, StartSetsA1 DEF Sets
    <2>4. ebss(build) = StartUp!ebss(build)
      BY <1>1, SameScript DEF Sum, StartReg
    <2>5. StartUp!Set("la a1, _ebss", "a1", StartUp!ebss(build), "zero_bss_loop")
      <3>1. StartAt = Labels[20] /\ StartAt' = Labels[21] /\ build' = build /\ before' = before
        BY <2>2 DEF Starts
      <3>2. StartAt = "la a1, _ebss" /\ StartAt' = "zero_bss_loop"
        BY <3>1, LabelList
      <3> QED BY <2>3, <2>4, <3>1, <3>2 DEF StartUp!Set
    <2>6. StartUp!ZeroBss
      BY <2>5, Zenon DEF StartUp!ZeroBss
    <2> QED BY <2>6 DEF StartUp!Next
  <1>11. CASE w = 22
    <2>1. Sets(A0, Sum(A0, 4), 92)
      BY <1>1, <1>11, StartText
    <2>2. Starts(22, 23)
      BY <1>1, <1>11, <2>1, StartRuns DEF Sets
    <2>3. StartReg' = [StartReg EXCEPT !["a0"] = Sum(A0, 4)] /\ StartT0' = StartT0 /\ ram' = ram
      BY <1>1, <1>2, <2>1, StartSetsA0 DEF Sets
    <2>4. Sum(A0, 4) = StartUp!Wrap(StartReg["a0"] + 4)
      BY <1>1, SameScript DEF Sum, StartReg
    <2>5. StartUp!Set("addi a0 (bss)", "a0", StartUp!Wrap(StartReg["a0"] + 4), "j zero_bss_loop")
      <3>1. StartAt = Labels[23] /\ StartAt' = Labels[24] /\ build' = build /\ before' = before
        BY <2>2 DEF Starts
      <3>2. StartAt = "addi a0 (bss)" /\ StartAt' = "j zero_bss_loop"
        BY <3>1, LabelList
      <3> QED BY <2>3, <2>4, <3>1, <3>2 DEF StartUp!Set
    <2>6. StartUp!ZeroBss
      BY <2>5, Zenon DEF StartUp!ZeroBss
    <2> QED BY <2>6 DEF StartUp!Next
  <1>12. CASE w = 25
    <2>1. Sets(A0, E_EXIT, 104)
      BY <1>1, <1>12, StartText
    <2>2. Starts(25, 26)
      BY <1>1, <1>12, <2>1, StartRuns DEF Sets
    <2>3. StartReg' = [StartReg EXCEPT !["a0"] = E_EXIT] /\ StartT0' = StartT0 /\ ram' = ram
      BY <1>1, <1>2, <2>1, StartSetsA0 DEF Sets
    <2>4. E_EXIT = StartUp!E_EXIT
      BY <1>1, SameScript DEF Sum, StartReg
    <2>5. StartUp!Set("li a0, 10", "a0", StartUp!E_EXIT, "ecall")
      <3>1. StartAt = Labels[26] /\ StartAt' = Labels[27] /\ build' = build /\ before' = before
        BY <2>2 DEF Starts
      <3>2. StartAt = "li a0, 10" /\ StartAt' = "ecall"
        BY <3>1, LabelList
      <3> QED BY <2>3, <2>4, <3>1, <3>2 DEF StartUp!Set
    <2>6. StartUp!CallAndExit
      BY <2>5, Zenon DEF StartUp!CallAndExit
    <2> QED BY <2>6 DEF StartUp!Next
  <1>13. CASE w = 1
    <2>1. Sets(gp, global_pointer(build), 8)
      BY <1>1, <1>13, StartText
    <2>2. Starts(1, 2)
      BY <1>1, <1>13, <2>1, StartRuns DEF Sets
    <2>3. StartReg' = [StartReg EXCEPT !["gp"] = global_pointer(build)] /\ StartT0' = StartT0
          /\ ram' = ram
      BY <1>1, <1>2, <2>1, StartSetsGp DEF Sets
    <2>4. global_pointer(build) = StartUp!global_pointer(build)
      BY <1>1, SameScript DEF Sum, StartReg
    <2>5. StartUp!Set("la gp", "gp", StartUp!global_pointer(build), "auipc sp")
      <3>1. StartAt = Labels[2] /\ StartAt' = Labels[3] /\ build' = build /\ before' = before
        BY <2>2 DEF Starts
      <3>2. StartAt = "la gp" /\ StartAt' = "auipc sp"
        BY <3>1, LabelList
      <3> QED BY <2>3, <2>4, <3>1, <3>2 DEF StartUp!Set
    <2>6. StartUp!Pointers
      BY <2>5, Zenon DEF StartUp!Pointers
    <2> QED BY <2>6 DEF StartUp!Next
  <1> QED BY <1>3, <1>4, <1>5, <1>6, <1>7, <1>8, <1>9, <1>10, <1>11, <1>12, <1>13

\* Crt0Proofs for the guest.
Crt0Proof == INSTANCE Crt0Proofs WITH
    layout <- build, at <- StartAt, reg <- StartReg, t0 <- StartT0, Image <- Rom

\* Its constants satisfy the assumptions of Crt0Proofs.
LEMMA ProofScript ==
    /\ Crt0Proof!RegMod = RegMod /\ Crt0Proof!ram_end = ram_end /\ Crt0Proof!Layout = Layout
    /\ \A l : Crt0Proof!Linked(l) = Linked(l)
  <1>1. Crt0Proof!RegMod = RegMod
    BY DEF RegMod, WordMod, HalfMod, Crt0Proof!RegMod, Crt0Proof!WordMod, Crt0Proof!HalfMod
  <1>2. Crt0Proof!ram_end = ram_end /\ Crt0Proof!Layout = Layout
    BY DEF ram_end, Crt0Proof!ram_end, Layout, Crt0Proof!Layout
  <1>4. ASSUME NEW n PROVE Crt0Proof!ALIGN(n) = ALIGN(n)
    BY DEF ALIGN, Crt0Proof!ALIGN
  <1>5. ASSUME NEW l PROVE Crt0Proof!Linked(l) = Linked(l)
    <2>1. Crt0Proof!sidata(l) = sidata(l) /\ Crt0Proof!sdata(l) = sdata(l)
      BY <1>4 DEF sidata, Crt0Proof!sidata, sdata, Crt0Proof!sdata
    <2>2. Crt0Proof!edata(l) = edata(l)
      BY <1>4, <2>1 DEF edata, Crt0Proof!edata
    <2>3. Crt0Proof!sbss(l) = sbss(l)
      BY <1>4, <2>2 DEF sbss, Crt0Proof!sbss
    <2>4. Crt0Proof!ebss(l) = ebss(l)
      BY <1>4, <2>3 DEF ebss, Crt0Proof!ebss
    <2> QED BY <1>2, <2>1, <2>2, <2>3, <2>4 DEF Linked, Crt0Proof!Linked
  <1> QED BY <1>1, <1>2, <1>5

LEMMA ProofAssumptions == Crt0Proof!ArchAssumption /\ Crt0Proof!LinkAssumption
  <1>1. Crt0Proof!ArchAssumption
    BY ArchAssumption, ProofScript DEF Crt0Proof!ArchAssumption
  <1>2. Crt0Proof!LinkAssumption
    BY LinkAssumption, ProofScript DEF Crt0Proof!LinkAssumption
  <1> QED BY <1>1, <1>2

\* The registers of both loops of crt0.S stay inside the memories.
LEMMA StartAccesses ==
    ASSUME Crt0Proof!StartInv
    PROVE  /\ StartAt = "lw t0" => regfile[A0] \in 0 .. ROM_SIZE - 4
           /\ StartAt = "sw t0" => regfile[A1] \in RAM_START .. ram_end - 4
           /\ StartAt = "sw zero" => regfile[A0] \in RAM_START .. ram_end - 4
  <1>1. Crt0Proof!Inside
    BY ProofAssumptions, Crt0Proof!StartInside
  <1>2. StartReg["a0"] = regfile[A0] /\ StartReg["a1"] = regfile[A1]
    BY DEF StartReg
  <1> QED BY <1>1, <1>2, ProofScript DEF Crt0Proof!Inside

\* The first halves of la,
LEMMA StartAuipcNext ==
    ASSUME Steady, Steady', NEW w \in {0, 2, 4, 6, 8, 16, 18}, Runs(w)
    PROVE  StartUp!Next
  <1>1. /\ TypeOK /\ TypeOK' /\ Instr /\ InText(w) /\ w \in 0 .. 25 /\ w \in 0 .. 26
        /\ build \in Layouts /\ Halfway
    BY DEF Steady, GuestInv, Runs, InText
  <1>2. ASSUME NEW at \in Int, NEW symbol \in Int PROVE Upper(at, symbol) \in Word
    <2>1. at + Hi(symbol - at) \in Int
      BY <1>2, Distance
    <2> QED BY <2>1, WrapType DEF Upper
  <1>3. CASE w = 0
    <2> DEFINE v == Upper(0, sdata(build) + GP_OFFSET)
    <2>1. Sets(gp, v, 4)
      BY <1>1, <1>3, StartText
    <2>2. v \in Word
      <3>1. sdata(build) + GP_OFFSET \in Int
        BY <1>1, LayoutFacts, Sizes, LinkAssumption
      <3> QED BY <1>2, <3>1
    <2> HIDE DEF v
    <2>3. Starts(0, 1)
      BY <1>1, <1>3, <2>1, StartRuns DEF Sets
    <2>4. StartReg' = [StartReg EXCEPT !["gp"] = v] /\ StartT0' = StartT0 /\ ram' = ram
      BY <1>1, <2>1, <2>2, StartSetsGp DEF Sets
    <2>5. StartUp!Set("_start", "gp", v, "la gp")
      <3>1. StartAt = Labels[1] /\ StartAt' = Labels[2] /\ build' = build /\ before' = before
        BY <2>3 DEF Starts
      <3>2. StartAt = "_start" /\ StartAt' = "la gp"
        BY <3>1, LabelList
      <3> QED BY <2>4, <3>1, <3>2 DEF StartUp!Set
    <2>6. StartUp!Auipc("_start", "gp", "la gp")
      BY <2>2, <2>5, SameScript, Zenon DEF StartUp!Auipc
    <2>7. StartUp!Pointers
      BY <2>6, Zenon DEF StartUp!Pointers
    <2> QED BY <2>7 DEF StartUp!Next
  <1>4. CASE w = 2
    <2> DEFINE v == Upper(8, stack_top)
    <2>1. Sets(sp, v, 12)
      BY <1>1, <1>4, StartText
    <2>2. v \in Word
      <3>1. stack_top \in Int
        BY <1>1, LayoutFacts, Sizes, LinkAssumption
      <3> QED BY <1>2, <3>1
    <2> HIDE DEF v
    <2>3. Starts(2, 3)
      BY <1>1, <1>4, <2>1, StartRuns DEF Sets
    <2>4. StartReg' = [StartReg EXCEPT !["sp"] = v] /\ StartT0' = StartT0 /\ ram' = ram
      BY <1>1, <2>1, <2>2, StartSetsSp DEF Sets
    <2>5. StartUp!Set("auipc sp", "sp", v, "la sp")
      <3>1. StartAt = Labels[3] /\ StartAt' = Labels[4] /\ build' = build /\ before' = before
        BY <2>3 DEF Starts
      <3>2. StartAt = "auipc sp" /\ StartAt' = "la sp"
        BY <3>1, LabelList
      <3> QED BY <2>4, <3>1, <3>2 DEF StartUp!Set
    <2>6. StartUp!Auipc("auipc sp", "sp", "la sp")
      BY <2>2, <2>5, SameScript, Zenon DEF StartUp!Auipc
    <2>7. StartUp!Pointers
      BY <2>6, Zenon DEF StartUp!Pointers
    <2> QED BY <2>7 DEF StartUp!Next
  <1>5. CASE w = 4
    <2> DEFINE v == Upper(16, sidata(build))
    <2>1. Sets(A0, v, 20)
      BY <1>1, <1>5, StartText
    <2>2. v \in Word
      <3>1. sidata(build) \in Int
        BY <1>1, LayoutFacts, Sizes, LinkAssumption
      <3> QED BY <1>2, <3>1
    <2> HIDE DEF v
    <2>3. Starts(4, 5)
      BY <1>1, <1>5, <2>1, StartRuns DEF Sets
    <2>4. StartReg' = [StartReg EXCEPT !["a0"] = v] /\ StartT0' = StartT0 /\ ram' = ram
      BY <1>1, <2>1, <2>2, StartSetsA0 DEF Sets
    <2>5. StartUp!Set("auipc a0, _sidata", "a0", v, "la a0, _sidata")
      <3>1. StartAt = Labels[5] /\ StartAt' = Labels[6] /\ build' = build /\ before' = before
        BY <2>3 DEF Starts
      <3>2. StartAt = "auipc a0, _sidata" /\ StartAt' = "la a0, _sidata"
        BY <3>1, LabelList
      <3> QED BY <2>4, <3>1, <3>2 DEF StartUp!Set
    <2>6. StartUp!Auipc("auipc a0, _sidata", "a0", "la a0, _sidata")
      BY <2>2, <2>5, SameScript, Zenon DEF StartUp!Auipc
    <2>7. StartUp!CopyData
      BY <2>6, Zenon DEF StartUp!CopyData
    <2> QED BY <2>7 DEF StartUp!Next
  <1>6. CASE w = 6
    <2> DEFINE v == Upper(24, sdata(build))
    <2>1. Sets(A1, v, 28)
      BY <1>1, <1>6, StartText
    <2>2. v \in Word
      <3>1. sdata(build) \in Int
        BY <1>1, LayoutFacts, Sizes, LinkAssumption
      <3> QED BY <1>2, <3>1
    <2> HIDE DEF v
    <2>3. Starts(6, 7)
      BY <1>1, <1>6, <2>1, StartRuns DEF Sets
    <2>4. StartReg' = [StartReg EXCEPT !["a1"] = v] /\ StartT0' = StartT0 /\ ram' = ram
      BY <1>1, <2>1, <2>2, StartSetsA1 DEF Sets
    <2>5. StartUp!Set("auipc a1, _sdata", "a1", v, "la a1, _sdata")
      <3>1. StartAt = Labels[7] /\ StartAt' = Labels[8] /\ build' = build /\ before' = before
        BY <2>3 DEF Starts
      <3>2. StartAt = "auipc a1, _sdata" /\ StartAt' = "la a1, _sdata"
        BY <3>1, LabelList
      <3> QED BY <2>4, <3>1, <3>2 DEF StartUp!Set
    <2>6. StartUp!Auipc("auipc a1, _sdata", "a1", "la a1, _sdata")
      BY <2>2, <2>5, SameScript, Zenon DEF StartUp!Auipc
    <2>7. StartUp!CopyData
      BY <2>6, Zenon DEF StartUp!CopyData
    <2> QED BY <2>7 DEF StartUp!Next
  <1>7. CASE w = 8
    <2> DEFINE v == Upper(32, edata(build))
    <2>1. Sets(12, v, 36)
      BY <1>1, <1>7, StartText
    <2>2. v \in Word
      <3>1. edata(build) \in Int
        BY <1>1, LayoutFacts, Sizes, LinkAssumption
      <3> QED BY <1>2, <3>1
    <2> HIDE DEF v
    <2>3. Starts(8, 9)
      BY <1>1, <1>7, <2>1, StartRuns DEF Sets
    <2>4. StartReg' = [StartReg EXCEPT !["a2"] = v] /\ StartT0' = StartT0 /\ ram' = ram
      BY <1>1, <2>1, <2>2, StartSetsA2 DEF Sets
    <2>5. StartUp!Set("auipc a2, _edata", "a2", v, "la a2, _edata")
      <3>1. StartAt = Labels[9] /\ StartAt' = Labels[10] /\ build' = build /\ before' = before
        BY <2>3 DEF Starts
      <3>2. StartAt = "auipc a2, _edata" /\ StartAt' = "la a2, _edata"
        BY <3>1, LabelList
      <3> QED BY <2>4, <3>1, <3>2 DEF StartUp!Set
    <2>6. StartUp!Auipc("auipc a2, _edata", "a2", "la a2, _edata")
      BY <2>2, <2>5, SameScript, Zenon DEF StartUp!Auipc
    <2>7. StartUp!CopyData
      BY <2>6, Zenon DEF StartUp!CopyData
    <2> QED BY <2>7 DEF StartUp!Next
  <1>8. CASE w = 16
    <2> DEFINE v == Upper(64, sbss(build))
    <2>1. Sets(A0, v, 68)
      BY <1>1, <1>8, StartText
    <2>2. v \in Word
      <3>1. sbss(build) \in Int
        BY <1>1, LayoutFacts, Sizes, LinkAssumption
      <3> QED BY <1>2, <3>1
    <2> HIDE DEF v
    <2>3. Starts(16, 17)
      BY <1>1, <1>8, <2>1, StartRuns DEF Sets
    <2>4. StartReg' = [StartReg EXCEPT !["a0"] = v] /\ StartT0' = StartT0 /\ ram' = ram
      BY <1>1, <2>1, <2>2, StartSetsA0 DEF Sets
    <2>5. StartUp!Set("copy_data_done", "a0", v, "la a0, _sbss")
      <3>1. StartAt = Labels[17] /\ StartAt' = Labels[18] /\ build' = build /\ before' = before
        BY <2>3 DEF Starts
      <3>2. StartAt = "copy_data_done" /\ StartAt' = "la a0, _sbss"
        BY <3>1, LabelList
      <3> QED BY <2>4, <3>1, <3>2 DEF StartUp!Set
    <2>6. StartUp!Auipc("copy_data_done", "a0", "la a0, _sbss")
      BY <2>2, <2>5, SameScript, Zenon DEF StartUp!Auipc
    <2>7. StartUp!ZeroBss
      BY <2>6, Zenon DEF StartUp!ZeroBss
    <2> QED BY <2>7 DEF StartUp!Next
  <1>9. CASE w = 18
    <2> DEFINE v == Upper(72, ebss(build))
    <2>1. Sets(A1, v, 76)
      BY <1>1, <1>9, StartText
    <2>2. v \in Word
      <3>1. ebss(build) \in Int
        BY <1>1, LayoutFacts, Sizes, LinkAssumption
      <3> QED BY <1>2, <3>1
    <2> HIDE DEF v
    <2>3. Starts(18, 19)
      BY <1>1, <1>9, <2>1, StartRuns DEF Sets
    <2>4. StartReg' = [StartReg EXCEPT !["a1"] = v] /\ StartT0' = StartT0 /\ ram' = ram
      BY <1>1, <2>1, <2>2, StartSetsA1 DEF Sets
    <2>5. StartUp!Set("auipc a1, _ebss", "a1", v, "la a1, _ebss")
      <3>1. StartAt = Labels[19] /\ StartAt' = Labels[20] /\ build' = build /\ before' = before
        BY <2>3 DEF Starts
      <3>2. StartAt = "auipc a1, _ebss" /\ StartAt' = "la a1, _ebss"
        BY <3>1, LabelList
      <3> QED BY <2>4, <3>1, <3>2 DEF StartUp!Set
    <2>6. StartUp!Auipc("auipc a1, _ebss", "a1", "la a1, _ebss")
      BY <2>2, <2>5, SameScript, Zenon DEF StartUp!Auipc
    <2>7. StartUp!ZeroBss
      BY <2>6, Zenon DEF StartUp!ZeroBss
    <2> QED BY <2>7 DEF StartUp!Next
  <1> QED BY <1>3, <1>4, <1>5, <1>6, <1>7, <1>8, <1>9

\* the branches and jumps,
LEMMA StartJumpsNext ==
    ASSUME Steady, Steady', NEW w \in {10, 15, 20, 23, 24}, Runs(w)
    PROVE  StartUp!Next
  <1>1. /\ TypeOK /\ TypeOK' /\ Instr /\ InText(w) /\ w \in 0 .. 25 /\ w \in 0 .. 26
        /\ build \in Layouts /\ GuestInv /\ Halfway /\ pc = 4 * w
    BY DEF Steady, GuestInv, Runs, InText
  <1>2. CASE w = 10
    <2>1. IF Signed(regfile[A1]) >= Signed(regfile[12]) THEN Goes(64) ELSE Goes(44)
      BY <1>1, <1>2, StartText
    <2>2. StartReg["a1"] = regfile[A1] /\ StartReg["a2"] = regfile[12]
      BY DEF StartReg
    <2>3. StartReg' = StartReg /\ StartT0' = StartT0 /\ ram' = ram
      BY <2>1, StartSame DEF Goes
    <2>4. ASSUME Goes(64)
          PROVE  StartAt = "copy_data_loop" /\ StartAt' = "copy_data_done"
                 /\ build' = build /\ before' = before
      <3>0. Starts(10, 16)
        BY <1>1, <1>2, <2>4, StartRuns DEF Goes
      <3>1. StartAt = Labels[11] /\ StartAt' = Labels[17] /\ build' = build /\ before' = before
        BY <3>0 DEF Starts
      <3>2. StartAt = "copy_data_loop" /\ StartAt' = "copy_data_done"
        BY <3>1, LabelList
      <3> QED BY <3>1, <3>2
    <2>5. ASSUME Goes(44)
          PROVE  StartAt = "copy_data_loop" /\ StartAt' = "lw t0" /\ build' = build
                 /\ before' = before
      <3>0. Starts(10, 11)
        BY <1>1, <1>2, <2>5, StartRuns DEF Goes
      <3>1. StartAt = Labels[11] /\ StartAt' = Labels[12] /\ build' = build /\ before' = before
        BY <3>0 DEF Starts
      <3>2. StartAt = "copy_data_loop" /\ StartAt' = "lw t0"
        BY <3>1, LabelList
      <3> QED BY <3>1, <3>2
    <2>6. /\ StartAt = "copy_data_loop" /\ build' = build /\ before' = before
          /\ StartAt' = IF StartUp!Signed(StartReg["a1"]) >= StartUp!Signed(StartReg["a2"])
                        THEN "copy_data_done" ELSE "lw t0"
      BY <2>1, <2>2, <2>4, <2>5, SameScript
    <2>7. StartUp!Bge("copy_data_loop", "a1", "a2", "copy_data_done", "lw t0")
      BY <2>3, <2>6 DEF StartUp!Bge
    <2>8. StartUp!CopyData
      BY <2>7, Zenon DEF StartUp!CopyData
    <2> QED BY <2>8 DEF StartUp!Next
  <1>3. CASE w = 20
    <2>1. IF Signed(regfile[A0]) >= Signed(regfile[A1]) THEN Goes(96) ELSE Goes(84)
      BY <1>1, <1>3, StartText
    <2>2. StartReg["a0"] = regfile[A0] /\ StartReg["a1"] = regfile[A1]
      BY DEF StartReg
    <2>3. StartReg' = StartReg /\ StartT0' = StartT0 /\ ram' = ram
      BY <2>1, StartSame DEF Goes
    <2>4. ASSUME Goes(96)
          PROVE  StartAt = "zero_bss_loop" /\ StartAt' = "call main" /\ build' = build
                 /\ before' = before
      <3>0. Starts(20, 24)
        BY <1>1, <1>3, <2>4, StartRuns DEF Goes
      <3>1. StartAt = Labels[21] /\ StartAt' = Labels[25] /\ build' = build /\ before' = before
        BY <3>0 DEF Starts
      <3>2. StartAt = "zero_bss_loop" /\ StartAt' = "call main"
        BY <3>1, LabelList
      <3> QED BY <3>1, <3>2
    <2>5. ASSUME Goes(84)
          PROVE  StartAt = "zero_bss_loop" /\ StartAt' = "sw zero" /\ build' = build
                 /\ before' = before
      <3>0. Starts(20, 21)
        BY <1>1, <1>3, <2>5, StartRuns DEF Goes
      <3>1. StartAt = Labels[21] /\ StartAt' = Labels[22] /\ build' = build /\ before' = before
        BY <3>0 DEF Starts
      <3>2. StartAt = "zero_bss_loop" /\ StartAt' = "sw zero"
        BY <3>1, LabelList
      <3> QED BY <3>1, <3>2
    <2>6. /\ StartAt = "zero_bss_loop" /\ build' = build /\ before' = before
          /\ StartAt' = IF StartUp!Signed(StartReg["a0"]) >= StartUp!Signed(StartReg["a1"])
                        THEN "call main" ELSE "sw zero"
      BY <2>1, <2>2, <2>4, <2>5, SameScript
    <2>7. StartUp!Bge("zero_bss_loop", "a0", "a1", "call main", "sw zero")
      BY <2>3, <2>6 DEF StartUp!Bge
    <2>8. StartUp!ZeroBss
      BY <2>7, Zenon DEF StartUp!ZeroBss
    <2> QED BY <2>8 DEF StartUp!Next
  <1>4. CASE w = 15
    <2>1. Goes(40)
      BY <1>1, <1>4, StartText
    <2>2. Starts(15, 10)
      BY <1>1, <1>4, <2>1, StartRuns DEF Goes
    <2>3. StartReg' = StartReg /\ StartT0' = StartT0 /\ ram' = ram
      BY <1>1, <2>1, StartSame DEF Goes
    <2>4. StartUp!Jump("j copy_data_loop", "copy_data_loop")
      <3>1. StartAt = Labels[16] /\ StartAt' = Labels[11] /\ build' = build /\ before' = before
        BY <2>2 DEF Starts
      <3>2. StartAt = "j copy_data_loop" /\ StartAt' = "copy_data_loop"
        BY <3>1, LabelList
      <3> QED BY <2>3, <3>1, <3>2 DEF StartUp!Jump
    <2>5. StartUp!CopyData
      BY <2>4, Zenon DEF StartUp!CopyData
    <2> QED BY <2>5 DEF StartUp!Next
  <1>5. CASE w = 23
    <2>1. Goes(80)
      BY <1>1, <1>5, StartText
    <2>2. Starts(23, 20)
      BY <1>1, <1>5, <2>1, StartRuns DEF Goes
    <2>3. StartReg' = StartReg /\ StartT0' = StartT0 /\ ram' = ram
      BY <1>1, <2>1, StartSame DEF Goes
    <2>4. StartUp!Jump("j zero_bss_loop", "zero_bss_loop")
      <3>1. StartAt = Labels[24] /\ StartAt' = Labels[21] /\ build' = build /\ before' = before
        BY <2>2 DEF Starts
      <3>2. StartAt = "j zero_bss_loop" /\ StartAt' = "zero_bss_loop"
        BY <3>1, LabelList
      <3> QED BY <2>3, <3>1, <3>2 DEF StartUp!Jump
    <2>5. StartUp!ZeroBss
      BY <2>4, Zenon DEF StartUp!ZeroBss
    <2> QED BY <2>5 DEF StartUp!Next
  <1>6. CASE w = 24
    <2>1. Sets(ra, 100, 112)
      BY <1>1, <1>6, StartText
    <2>2. Starts(24, 28)
      BY <1>1, <1>6, <2>1, StartRuns DEF Sets
    <2>3. StartReg' = StartReg /\ StartT0' = StartT0 /\ ram' = ram
      BY <1>1, <2>1, StartKeeps DEF Sets
    <2>4. StartUp!Jump("call main", "main")
      <3>1. StartAt = Labels[25] /\ StartAt' = "main" /\ build' = build /\ before' = before
        BY <2>2 DEF Starts
      <3>2. StartAt = "call main" /\ StartAt' = "main"
        BY <3>1, LabelList
      <3> QED BY <2>3, <3>1, <3>2 DEF StartUp!Jump
    <2>5. StartUp!CallAndExit
      BY <2>4, Zenon DEF StartUp!CallAndExit
    <2> QED BY <2>5 DEF StartUp!Next
  <1> QED BY <1>2, <1>3, <1>4, <1>5, <1>6

\* the load and the stores of both loops,
LEMMA StartMemoryNext ==
    ASSUME Steady, Steady', Crt0Proof!StartInv, NEW w \in {11, 12, 21}, Runs(w)
    PROVE  StartUp!Next
  <1>1. /\ TypeOK /\ TypeOK' /\ Instr /\ InText(w) /\ w \in 0 .. 25 /\ w \in 0 .. 26
        /\ build \in Layouts /\ GuestInv /\ Halfway /\ pc = 4 * w
    BY DEF Steady, GuestInv, Runs, InText
  <1>2. rom = Rom(build)
    BY <1>1 DEF InText
  <1>3. CASE w = 11
    <2> DEFINE a == regfile[A0]
               v == bus_read(rom, ram, a, MEM_W, regfile[t0])
    <2>1. Sets(t0, v, 48)
      BY <1>1, <1>3, StartText
    <2>2. Starts(11, 12)
      BY <1>1, <1>3, <2>1, StartRuns DEF Sets
    <2>3. StartAt = "lw t0" /\ StartAt' = "sw t0" /\ build' = build /\ before' = before
      <3>1. StartAt = Labels[12] /\ StartAt' = Labels[13] /\ build' = build /\ before' = before
        BY <2>2 DEF Starts
      <3>2. StartAt = "lw t0" /\ StartAt' = "sw t0"
        BY <3>1, LabelList
      <3> QED BY <3>1, <3>2
    <2>4. a \in 0 .. ROM_SIZE - 4
      BY <2>3, StartAccesses
    <2>5. StartReg' = StartReg /\ StartT0' = [k \in 0 .. 3 |-> Digit(v, k)] /\ ram' = ram
      BY <1>1, <2>1, StartKeeps DEF Sets
    <2>6. v = WordAt(rom, a)
      BY <1>1, <2>4, LoadsRom
    <2>7. ASSUME NEW k \in 0 .. 3 PROVE Digit(v, k) = StartUp!ByteAt(StartReg["a0"] + k)
      <3>1. StartReg["a0"] = a
        BY DEF StartReg
      <3>2. rom \in [0 .. ROM_SIZE - 1 -> Byte] /\ ROM_SIZE \in Nat /\ a \in Nat
            /\ a + 3 < ROM_SIZE /\ a + k < ROM_SIZE
        <4>1. rom \in [0 .. ROM_SIZE - 1 -> Byte]
          BY <1>1 DEF TypeOK, RomCells
        <4> HIDE DEF a
        <4> QED BY <2>4, <2>7, <4>1, Sizes
      <3>3. Digit(v, k) = rom[a + k]
        <4> HIDE DEF a, v
        <4> QED BY <2>6, <2>7, <3>2, BytesOfWord
      <3> HIDE DEF a, v
      <3> QED BY <1>2, <3>1, <3>2, <3>3 DEF StartUp!ByteAt
    <2> HIDE DEF a, v
    <2>8. StartT0' = [k \in 0 .. 3 |-> StartUp!ByteAt(StartReg["a0"] + k)]
      BY <2>5, <2>7
    <2>9. StartUp!Lw("lw t0", "a0", "sw t0")
      BY <2>3, <2>5, <2>8 DEF StartUp!Lw
    <2>10. StartUp!CopyData
      BY <2>9, Zenon DEF StartUp!CopyData
    <2> QED BY <2>10 DEF StartUp!Next
  <1>4. CASE w = 12
    <2> DEFINE a == regfile[A1]
               v == regfile[t0]
               p == a - RAM_START
    <2>1. Stores(a, t0, 52)
      BY <1>1, <1>4, StartText
    <2>2. Starts(12, 13)
      BY <1>1, <1>4, <2>1, StartRuns DEF Stores
    <2>3. StartAt = "sw t0" /\ StartAt' = "addi a0" /\ build' = build /\ before' = before
      <3>1. StartAt = Labels[13] /\ StartAt' = Labels[14] /\ build' = build /\ before' = before
        BY <2>2 DEF Starts
      <3>2. StartAt = "sw t0" /\ StartAt' = "addi a0"
        BY <3>1, LabelList
      <3> QED BY <3>1, <3>2
    <2>4. a \in RAM_START .. ram_end - 4 /\ v \in Word
      <3>1. v \in Word
        BY <1>1 DEF TypeOK, Reg, t0
      <3> QED BY <2>3, <3>1, StartAccesses
    <2>5. StartReg' = StartReg /\ StartT0' = StartT0
      BY <2>1, StartSame DEF Stores
    <2>6. ram' = [c \in RamCells |-> IF c \in p .. p + 3 THEN Digit(v, c - p) ELSE ram[c]]
      <3>1. ram' = bus_write(ram, a, MEM_W, v)
        BY <2>1 DEF Stores
      <3> HIDE DEF a, v
      <3> QED BY <1>1, <2>4, <3>1, StoresRam
    <2>7. ASSUME NEW k \in 0 .. 3 PROVE Digit(v, k) = StartT0[k]
      BY <1>1, <2>7, StartTypes
    <2>8. StartReg["a1"] = a /\ a \in Int /\ RAM_START \in Int
      BY <2>4, Sizes DEF StartReg
    <2> HIDE DEF a, v
    <2>9. ASSUME NEW c \in RamCells
          PROVE  (IF c \in p .. p + 3 THEN Digit(v, c - p) ELSE ram[c]) =
                    LET k == RAM_START + c - a IN IF k \in 0 .. 3 THEN StartT0[k] ELSE ram[c]
      <3>1. c \in Int /\ c - p = RAM_START + c - a
        BY <2>8, Sizes DEF RamCells
      <3>2. c \in p .. p + 3 <=> RAM_START + c - a \in 0 .. 3
        BY <2>8, <3>1
      <3> QED BY <2>7, <3>1, <3>2
    <2>10. ram' = [c \in StartUp!Cells |-> LET k == RAM_START + c - StartReg["a1"]
                                          IN  IF k \in 0 .. 3 THEN StartT0[k] ELSE ram[c]]
      BY <2>6, <2>8, <2>9, SameScript
    <2>11. StartUp!Sw("sw t0", StartT0, "a1", "addi a0")
      BY <2>3, <2>5, <2>10 DEF StartUp!Sw
    <2>12. StartUp!CopyData
      BY <2>11, Zenon DEF StartUp!CopyData
    <2> QED BY <2>12 DEF StartUp!Next
  <1>5. CASE w = 21
    <2> DEFINE a == regfile[A0]
               v == regfile[zero]
               p == a - RAM_START
    <2>1. Stores(a, zero, 88)
      BY <1>1, <1>5, StartText
    <2>2. Starts(21, 22)
      BY <1>1, <1>5, <2>1, StartRuns DEF Stores
    <2>3. StartAt = "sw zero" /\ StartAt' = "addi a0 (bss)" /\ build' = build /\ before' = before
      <3>1. StartAt = Labels[22] /\ StartAt' = Labels[23] /\ build' = build /\ before' = before
        BY <2>2 DEF Starts
      <3>2. StartAt = "sw zero" /\ StartAt' = "addi a0 (bss)"
        BY <3>1, LabelList
      <3> QED BY <3>1, <3>2
    <2>4. a \in RAM_START .. ram_end - 4 /\ v \in Word
      <3>1. v \in Word
        BY <1>1 DEF TypeOK, Reg, zero
      <3> QED BY <2>3, <3>1, StartAccesses
    <2>5. StartReg' = StartReg /\ StartT0' = StartT0
      BY <2>1, StartSame DEF Stores
    <2>6. ram' = [c \in RamCells |-> IF c \in p .. p + 3 THEN Digit(v, c - p) ELSE ram[c]]
      <3>1. ram' = bus_write(ram, a, MEM_W, v)
        BY <2>1 DEF Stores
      <3> HIDE DEF a, v
      <3> QED BY <1>1, <2>4, <3>1, StoresRam
    <2>7. ASSUME NEW k \in 0 .. 3 PROVE Digit(v, k) = StartUp!Zero[k]
      <3>1. v = 0
        BY <1>1 DEF TypeOK, zero
      <3>2. ByteMod \in Nat /\ ByteMod > 0 /\ 0 % ByteMod = 0 /\ 0 \div ByteMod = 0
        BY Moduli
      <3>3. Digit(0, 0) = 0 /\ Digit(0, 1) = 0 /\ Digit(0, 2) = 0 /\ Digit(0, 3) = 0
        BY <3>2, Digits
      <3> HIDE DEF v
      <3>4. k = 0 \/ k = 1 \/ k = 2 \/ k = 3
        BY <2>7
      <3> QED BY <3>1, <3>3, <3>4 DEF StartUp!Zero
    <2>8. StartReg["a0"] = a /\ a \in Int /\ RAM_START \in Int
      BY <2>4, Sizes DEF StartReg
    <2> HIDE DEF a, v
    <2>9. ASSUME NEW c \in RamCells
          PROVE  (IF c \in p .. p + 3 THEN Digit(v, c - p) ELSE ram[c]) =
                    LET k == RAM_START + c - a IN IF k \in 0 .. 3 THEN StartUp!Zero[k] ELSE ram[c]
      <3>1. c \in Int /\ c - p = RAM_START + c - a
        BY <2>8, Sizes DEF RamCells
      <3>2. c \in p .. p + 3 <=> RAM_START + c - a \in 0 .. 3
        BY <2>8, <3>1
      <3> QED BY <2>7, <3>1, <3>2
    <2>10. ram' = [c \in StartUp!Cells |-> LET k == RAM_START + c - StartReg["a0"]
                                          IN  IF k \in 0 .. 3 THEN StartUp!Zero[k] ELSE ram[c]]
      BY <2>6, <2>8, <2>9, SameScript
    <2>11. StartUp!Sw("sw zero", StartUp!Zero, "a0", "addi a0 (bss)")
      BY <2>3, <2>5, <2>10 DEF StartUp!Sw
    <2>12. StartUp!ZeroBss
      BY <2>11, Zenon DEF StartUp!ZeroBss
    <2> QED BY <2>12 DEF StartUp!Next
  <1> QED BY <1>3, <1>4, <1>5

\* the call that ends the program,
LEMMA StartEndsNext ==
    ASSUME Steady, Steady', NEW w \in {26}, Runs(w)
    PROVE  StartUp!Next
  <1>1. /\ TypeOK /\ Instr /\ InText(w) /\ w \in 0 .. 67 /\ GuestInv /\ pc = 104 /\ w = 26
        /\ instr_loop /\ build' = build /\ before' = IF pc # 0 /\ pc' = 0 THEN ram' ELSE before
    BY DEF Steady, Runs, InText, GuestInv, Placed
  <1>2. Text(build)[w + 1] = Sys(0, zero, zero, 0) /\ 4 * w + 4 = 108
    BY <1>1, ListingStart DEF InText
  <1>3. /\ pc' = 108 /\ UNCHANGED <<regfile, ram>> /\ instr_loop' = (regfile[A0] # E_EXIT)
    BY <1>1, <1>2, EcallEffect
  <1>4. regfile[A0] = E_EXIT
    BY <1>1 DEF GuestInv, Frame
  <1>5. ~ instr_loop'
    BY <1>3, <1>4
  <1>6. StartAt' = "exited"
    BY <1>5 DEF StartAt
  <1>7. StartAt = Labels[27]
    BY <1>1, StartPlace
  <1>8. StartAt = "ecall"
    BY <1>7, LabelList
  <1>9. StartReg' = StartReg /\ StartT0' = StartT0 /\ StartReg["a0"] = StartUp!E_EXIT
        /\ before' = before
    BY <1>1, <1>3, <1>4, StartSame, SameScript DEF StartReg
  <1>10. StartUp!Jump("ecall", IF StartReg["a0"] = StartUp!E_EXIT THEN "exited" ELSE "halt")
    BY <1>1, <1>3, <1>6, <1>8, <1>9 DEF StartUp!Jump
  <1>11. StartUp!CallAndExit
    BY <1>10, Zenon DEF StartUp!CallAndExit
  <1> QED BY <1>11 DEF StartUp!Next

\* and main.
LEMMA MainNext ==
    ASSUME Steady, Steady', NEW w \in 28 .. 67, Runs(w)
    PROVE  StartUp!Next
  <1>1. /\ TypeOK /\ TypeOK' /\ GuestInv /\ pc = 4 * w /\ w \in 0 .. 67 /\ w \in (0 .. 67) \ {27}
        /\ instr_loop /\ build' = build /\ before' = IF pc # 0 /\ pc' = 0 THEN ram' ELSE before
    BY DEF Steady, Runs, InText, GuestInv, Placed
  <1>2. Lands
    BY <1>1, FrameNext
  <1>3. PICK u \in {0, 25} \cup 28 .. 67 : pc' = 4 * u
    BY <1>1, <1>2 DEF Lands
  <1>4. instr_loop' /\ u \in 0 .. 67
    BY <1>2, <1>3 DEF Lands
  <1>5. StartAt = "main"
    BY <1>1, StartPlace
  <1>6. StartAt' = IF u < 28 THEN Labels[u + 1] ELSE "main"
    BY <1>3, <1>4, StartPlaceNext
  <1>7. /\ StartAt' \in {"main", "li a0, 10", "_start"}
        /\ before' = IF StartAt' = "_start" THEN ram' ELSE before
    <2>1. CASE u = 0
      <3>1. StartAt' = Labels[1]
        BY <1>6, <2>1
      <3>2. StartAt' = "_start"
        BY <3>1, LabelList
      <3> QED BY <1>1, <1>3, <2>1, <3>2
    <2>2. CASE u = 25
      <3>1. StartAt' = Labels[26]
        BY <1>6, <2>2
      <3>2. StartAt' = "li a0, 10"
        BY <3>1, LabelList
      <3>3. pc' # 0
        BY <1>3, <2>2
      <3> QED BY <1>1, <3>2, <3>3
    <2>3. CASE u \in 28 .. 67
      <3>1. StartAt' = "main"
        BY <1>6, <2>3
      <3>3. pc' # 0
        BY <1>3, <2>3
      <3> QED BY <1>1, <3>1, <3>3
    <2> QED BY <2>1, <2>2, <2>3
  <1>8. /\ StartReg' \in [StartNames -> Word] /\ StartT0' \in [0 .. 3 -> Byte]
        /\ ram' \in [RamCells -> Byte]
    BY <1>1, StartTypesNext DEF TypeOK
  <1>9. StartUp!Registers = StartNames
    BY DEF StartUp!Registers, StartNames
  <1>10. StartUp!Main
    BY <1>1, <1>5, <1>7, <1>8, <1>9, SameScript DEF StartUp!Main
  <1> QED BY <1>10 DEF StartUp!Next

\* Every step of the guest is one of crt0.S, or stutters.
LEMMA StartUpStep ==
    ASSUME Steady, Steady', Crt0Proof!StartInv, [GuestNext]_guestVars
    PROVE  [StartUp!Next]_(StartUp!vars)
  <1>1. CASE Quiet
    <2>1. StartAt' = StartAt
      BY <1>1 DEF Quiet, StartAt
    <2>2. StartReg' = StartReg /\ StartT0' = StartT0
      BY <1>1, StartSame DEF Quiet
    <2> QED BY <1>1, <2>1, <2>2 DEF Quiet, StartUp!vars
  <1>2. ASSUME NEW w \in (0 .. 67) \ {27}, Runs(w) PROVE StartUp!Next
    <2>1. \/ w \in {1, 3, 5, 7, 9, 13, 14, 17, 19, 22, 25} \/ w \in {0, 2, 4, 6, 8, 16, 18}
          \/ w \in {10, 15, 20, 23, 24} \/ w \in {11, 12, 21} \/ w \in {26} \/ w \in 28 .. 67
      OBVIOUS
    <2> QED BY <1>2, <2>1, StartSetsNext, StartAuipcNext, StartJumpsNext,
               StartMemoryNext, StartEndsNext, MainNext
  <1> QED BY <1>1, <1>2, GuestSteps DEF Steady, GuestInv

\* The guest begins as crt0.S does.
LEMMA StartUpInit == GuestInit => StartUp!Init
  <1> SUFFICES ASSUME GuestInit PROVE StartUp!Init
    OBVIOUS
  <1>1. TypeOK /\ pc = 0 /\ instr_loop /\ build \in Layouts /\ before = ram
    BY GuestInvInit DEF GuestInit, Init
  <1>2. StartAt = Labels[1]
    <2>1. pc = 4 * 0 /\ 0 \in 0 .. 67
      BY <1>1
    <2>2. \E w \in 0 .. 67 : w = 0 /\ pc = 4 * w
      BY <2>1
    <2> QED BY <1>1, <2>2, StartPlace
  <1>3. StartAt = "_start"
    BY <1>2, LabelList
  <1>4. StartUp!Registers = StartNames
    BY DEF StartUp!Registers, StartNames
  <1>5. ram \in [RamCells -> Byte]
    BY <1>1 DEF TypeOK
  <1> QED BY <1>1, <1>3, <1>4, <1>5, StartTypes, SameScript DEF StartUp!Init

\* Crt0Proofs is about the same program.
LEMMA ProofNames ==
    /\ StartUp!Word = Crt0Proof!Word /\ StartUp!Byte = Crt0Proof!Byte
    /\ StartUp!E_EXIT = Crt0Proof!E_EXIT /\ StartUp!stack_top = Crt0Proof!stack_top
    /\ StartUp!ram_end = Crt0Proof!ram_end
    /\ StartUp!Cells = Crt0Proof!Cells /\ StartUp!Registers = Crt0Proof!Registers
    /\ StartUp!Zero = Crt0Proof!Zero
    /\ \A n : /\ StartUp!Wrap(n) = Crt0Proof!Wrap(n) /\ StartUp!Signed(n) = Crt0Proof!Signed(n)
              /\ StartUp!ByteAt(n) = Crt0Proof!ByteAt(n)
    /\ \A l : /\ StartUp!sidata(l) = Crt0Proof!sidata(l) /\ StartUp!sdata(l) = Crt0Proof!sdata(l)
              /\ StartUp!edata(l) = Crt0Proof!edata(l) /\ StartUp!sbss(l) = Crt0Proof!sbss(l)
              /\ StartUp!ebss(l) = Crt0Proof!ebss(l)
              /\ StartUp!global_pointer(l) = Crt0Proof!global_pointer(l)
  <1>1. StartUp!RegMod = Crt0Proof!RegMod
    BY DEF StartUp!RegMod, StartUp!WordMod, StartUp!HalfMod,
           Crt0Proof!RegMod, Crt0Proof!WordMod, Crt0Proof!HalfMod
  <1>2. /\ StartUp!Word = Crt0Proof!Word /\ StartUp!Byte = Crt0Proof!Byte
        /\ StartUp!E_EXIT = Crt0Proof!E_EXIT /\ StartUp!stack_top = Crt0Proof!stack_top
        /\ StartUp!ram_end = Crt0Proof!ram_end
        /\ StartUp!Cells = Crt0Proof!Cells /\ StartUp!Registers = Crt0Proof!Registers
        /\ StartUp!Zero = Crt0Proof!Zero
    BY <1>1 DEF StartUp!Word, Crt0Proof!Word, StartUp!Byte, Crt0Proof!Byte, StartUp!E_EXIT,
                Crt0Proof!E_EXIT, StartUp!stack_top, Crt0Proof!stack_top, StartUp!ram_end,
                Crt0Proof!ram_end, StartUp!Cells, Crt0Proof!Cells, StartUp!Registers,
                Crt0Proof!Registers, StartUp!Zero, Crt0Proof!Zero
  <1>3. ASSUME NEW n
        PROVE  /\ StartUp!Wrap(n) = Crt0Proof!Wrap(n) /\ StartUp!Signed(n) = Crt0Proof!Signed(n)
               /\ StartUp!ByteAt(n) = Crt0Proof!ByteAt(n)
               /\ StartUp!ALIGN(n) = Crt0Proof!ALIGN(n)
    BY <1>1 DEF StartUp!Wrap, Crt0Proof!Wrap, StartUp!Signed, Crt0Proof!Signed,
                StartUp!ByteAt, Crt0Proof!ByteAt, StartUp!ALIGN, Crt0Proof!ALIGN
  <1>4. ASSUME NEW l
        PROVE  /\ StartUp!sidata(l) = Crt0Proof!sidata(l) /\ StartUp!sdata(l) = Crt0Proof!sdata(l)
               /\ StartUp!edata(l) = Crt0Proof!edata(l) /\ StartUp!sbss(l) = Crt0Proof!sbss(l)
               /\ StartUp!ebss(l) = Crt0Proof!ebss(l)
               /\ StartUp!global_pointer(l) = Crt0Proof!global_pointer(l)
    <2>1. StartUp!sidata(l) = Crt0Proof!sidata(l) /\ StartUp!sdata(l) = Crt0Proof!sdata(l)
      BY <1>3 DEF StartUp!sidata, Crt0Proof!sidata, StartUp!sdata, Crt0Proof!sdata
    <2>2. StartUp!edata(l) = Crt0Proof!edata(l)
      BY <1>3, <2>1 DEF StartUp!edata, Crt0Proof!edata
    <2>3. StartUp!sbss(l) = Crt0Proof!sbss(l)
      BY <1>3, <2>2 DEF StartUp!sbss, Crt0Proof!sbss
    <2>4. StartUp!ebss(l) = Crt0Proof!ebss(l)
      BY <1>3, <2>3 DEF StartUp!ebss, Crt0Proof!ebss
    <2>5. StartUp!global_pointer(l) = Crt0Proof!global_pointer(l)
      BY <1>3, <2>1 DEF StartUp!global_pointer, Crt0Proof!global_pointer
    <2> QED BY <2>1, <2>2, <2>3, <2>4, <2>5
  <1> QED BY <1>2, <1>3, <1>4

\* Every step of crt0.S is one of the program Crt0Proofs is about.
LEMMA ProofSteps ==
    [StartUp!Next]_(StartUp!vars) => [Crt0Proof!Next]_(Crt0Proof!vars)
  <1>1. StartUp!Pointers => Crt0Proof!Pointers
    BY ProofNames DEF StartUp!Pointers, Crt0Proof!Pointers, StartUp!Auipc, Crt0Proof!Auipc,
           StartUp!Set, Crt0Proof!Set
  <1>2. StartUp!CopyData => Crt0Proof!CopyData
    BY ProofNames
    DEF StartUp!CopyData, Crt0Proof!CopyData, StartUp!Auipc, Crt0Proof!Auipc,
        StartUp!Set, Crt0Proof!Set, StartUp!Bge,
        Crt0Proof!Bge, StartUp!Lw, Crt0Proof!Lw, StartUp!Sw, Crt0Proof!Sw, StartUp!Jump,
        Crt0Proof!Jump
  <1>3. StartUp!ZeroBss => Crt0Proof!ZeroBss
    BY ProofNames
    DEF StartUp!ZeroBss, Crt0Proof!ZeroBss, StartUp!Auipc, Crt0Proof!Auipc,
        StartUp!Set, Crt0Proof!Set, StartUp!Bge,
        Crt0Proof!Bge, StartUp!Sw, Crt0Proof!Sw, StartUp!Jump, Crt0Proof!Jump
  <1>4. StartUp!CallAndExit => Crt0Proof!CallAndExit
    BY ProofNames
    DEF StartUp!CallAndExit, Crt0Proof!CallAndExit, StartUp!Set, Crt0Proof!Set,
        StartUp!Jump, Crt0Proof!Jump
  <1>5. StartUp!Main => Crt0Proof!Main
    BY ProofNames DEF StartUp!Main, Crt0Proof!Main
  <1>6. UNCHANGED StartUp!vars => UNCHANGED Crt0Proof!vars
    BY DEF StartUp!vars, Crt0Proof!vars
  <1> QED BY <1>1, <1>2, <1>3, <1>4, <1>5, <1>6 DEF StartUp!Next, Crt0Proof!Next

\* The emulator running the linked program does what crt0.S says.
THEOREM StartsAsWritten == GuestSpec => StartUpSpec
  <1>1. GuestInit => Crt0Proof!StartInv
    <2>1. StartUp!Init => Crt0Proof!Init
      BY ProofNames DEF StartUp!Init, Crt0Proof!Init
    <2>2. Crt0Proof!Init => Crt0Proof!StartInv
      BY ProofAssumptions, Crt0Proof!StartInit
    <2> QED BY <2>1, <2>2, StartUpInit
  <1>2. Crt0Proof!StartInv /\ [Crt0Proof!Next]_(Crt0Proof!vars) => Crt0Proof!StartInv'
    BY ProofAssumptions, Crt0Proof!StartNext
  <1>3. Steady /\ Steady' /\ Crt0Proof!StartInv /\ [GuestNext]_guestVars
          => [StartUp!Next]_(StartUp!vars) /\ Crt0Proof!StartInv'
    BY <1>2, StartUpStep, ProofSteps
  <1> QED BY <1>1, <1>3, StartUpInit, GuestSteady, PTL DEF GuestSpec, StartUpSpec, StartUp!Spec

\* Whenever crt0.S calls main, the memory is ready.
THEOREM GuestMemoryReady == GuestSpec => []MemoryReady
  <1>1. StartUp!Init => Crt0Proof!Init
    BY ProofNames DEF StartUp!Init, Crt0Proof!Init
  <1>2. StartUp!Spec => Crt0Proof!Spec
    BY <1>1, ProofSteps, PTL DEF StartUp!Spec, Crt0Proof!Spec
  <1>3. Crt0Proof!Spec => []Crt0Proof!MemoryReady
    BY ProofAssumptions, Crt0Proof!StartUpReady, PTL
  <1>4. Crt0Proof!MemoryReady => MemoryReady
    BY ProofNames DEF Crt0Proof!MemoryReady, StartUp!MemoryReady, MemoryReady
  <1>5. GuestSpec => StartUp!Spec
    BY StartsAsWritten DEF StartUpSpec
  <1> QED BY <1>2, <1>3, <1>4, <1>5, PTL

-----------------------------------------------------------------------------
(* The output *)

\* The image does not change while the program runs.
LEMMA InitialSame ==
    ASSUME build' = build, NEW k
    PROVE  Initial(k)' = Initial(k)
  BY DEF Initial, Rom, sidata, ALIGN

\* Nor do the addresses.
LEMMA SdataSame ==
    ASSUME build' = build
    PROVE  sdata(build)' = sdata(build)
  BY DEF sdata, ALIGN

\* The initial values are bytes of the ROM.
LEMMA InitialByte ==
    ASSUME Steady, phase # "boot", NEW k \in 0 .. build.data - 1
    PROVE  Initial(k) \in Byte /\ Initial(k) % ByteMod = Initial(k)
  <1>1. build \in Layouts /\ rom = Rom(build) /\ rom \in [RomCells -> Byte]
    BY DEF Steady, GuestInv, Placed, TypeOK
  <1>2. sidata(build) + k \in RomCells
    <2>1. /\ sidata(build) \in Nat /\ sdata(build) \in Nat /\ edata(build) \in Nat
          /\ build.data \in Nat /\ sdata(build) + build.data <= edata(build)
          /\ sidata(build) + edata(build) - sdata(build) <= ROM_SIZE
      BY <1>1, LayoutFacts
    <2>2. sidata(build) + k \in 0 .. ROM_SIZE - 1
      BY <2>1, Sizes
    <2> QED BY <2>2 DEF RomCells
  <1>3. Initial(k) \in Byte
    BY <1>1, <1>2 DEF Initial
  <1> DEFINE b == ByteMod
             v == Initial(k)
  <1>4. b \in Nat /\ v \in 0 .. b - 1
    BY <1>3, Moduli DEF Byte
  <1>5. v % b = v
    <2> HIDE DEF b, v
    <2> QED BY <1>4
  <1> QED BY <1>3, <1>5

\* What has been printed stays so,
LEMMA DoneSame ==
    ASSUME build' = build, out' = out, NEW n
    PROVE  Done(n)' <=> Done(n)
  BY DEF Done, Initial, Rom, sidata, ALIGN

\* before the first,
LEMMA DoneNone == out = <<>> => Done(0)
  BY DEF Done

\* and with one more.
LEMMA DoneMore ==
    ASSUME Steady, phase # "boot", build' = build, NEW n \in Nat, n < build.data, Done(n),
           out' = Append(out, Initial(n))
    PROVE  Done(n + 1)'
  <1>1. \A k \in 0 .. n : Initial(k) \in Byte
    <2>1. build.data \in Nat
      BY LayoutFacts DEF Steady, GuestInv, Placed
    <2> QED BY <2>1, InitialByte
  <1> DEFINE s == [k \in 1 .. n |-> Initial(k - 1)]
  <1>2. out = s
    BY DEF Done
  <1>3. Append(s, Initial(n)) = [k \in 1 .. n + 1 |-> Initial(k - 1)]
    <2>1. Len(s) = n /\ DOMAIN s = 1 .. n
      OBVIOUS
    <2> QED BY <1>1, <2>1
  <1>4. out' = [k \in 1 .. n + 1 |-> Initial(k - 1)]
    BY <1>2, <1>3
  <1> QED BY <1>4 DEF Done, Initial, Rom, sidata, ALIGN

\* The variables keep their initial values until main writes over them: a store of ra
\* into its frame is behind .bss.
LEMMA KeptNext ==
    ASSUME Steady, MemoryReady, Kept, [GuestNext]_guestVars
    PROVE  Kept'
  <1>1. CASE Quiet
    BY <1>1, InitialSame, SdataSame DEF Quiet, Kept
  <1>2. ASSUME NEW w \in (0 .. 67) \ {27}, Runs(w) PROVE Kept'
    <2>1. /\ TypeOK /\ GuestInv /\ Frame /\ Halfway /\ Lands /\ InText(w) /\ Instr /\ pc = 4 * w
          /\ build' = build /\ build \in Layouts /\ instr_loop
      BY <1>2, FrameNext DEF Steady, Runs, InText, GuestInv, Placed
    <2> SUFFICES ASSUME pc' \in Keeping, NEW k \in 0 .. build.data - 1
                 PROVE  ram'[sdata(build) - RAM_START + k] = Initial(k)
      BY <2>1, InitialSame, SdataSame DEF Kept
    <2>2. pc \in Keeping \cup {4 * 24}
      BY <2>1 DEF Lands
    <2>3. CASE w = 24
      <3>1. StartAt = Labels[25]
        BY <2>1, <2>3, StartPlace
      <3>2. StartAt = "call main"
        BY <3>1, LabelList
      <3>3. \A m \in sdata(build) .. edata(build) - 1 :
               ram[m - RAM_START] = Rom(build)[sidata(build) + m - sdata(build)]
        BY <3>2, SameScript DEF MemoryReady, StartUp!MemoryReady
      <3>4. /\ sdata(build) + k \in sdata(build) .. edata(build) - 1
            /\ (sdata(build) + k) - RAM_START = sdata(build) - RAM_START + k
            /\ sidata(build) + (sdata(build) + k) - sdata(build) = sidata(build) + k
        BY <2>1, LayoutFacts, Sizes
      <3>5. ram' = ram
        BY <2>1, <2>3 DEF Lands
      <3> QED BY <3>3, <3>4, <3>5 DEF Initial
    <2>4. CASE w = 29
      <3>1. Stores(Sum(sp, 4), ra, 120)
        BY <2>1, <2>4, MainText
      <3>2. regfile[sp] = stack_top - 8 /\ regfile[ra] \in Word
        BY <2>1, <2>4 DEF Frame, TypeOK, ra, Reg
      <3>3. Sum(sp, 4) = ram_end - 4 /\ ram_end - 4 \in RAM_START .. ram_end - 4
        BY <3>2, FrameSlot
      <3> DEFINE p == (ram_end - 4) - RAM_START
      <3>4. ram' = [c \in RamCells |->
                      IF c \in p .. p + 3 THEN Digit(regfile[ra], c - p) ELSE ram[c]]
        BY <2>1, <3>1, <3>2, <3>3, StoresRam DEF Stores
      <3>5. /\ sdata(build) - RAM_START + k \in RamCells
            /\ sdata(build) - RAM_START + k \notin p .. p + 3
        BY <2>1, LayoutFacts, Sizes DEF RamCells
      <3>6. ram[sdata(build) - RAM_START + k] = Initial(k)
        BY <2>1, <2>4 DEF Kept, Keeping
      <3> HIDE DEF p
      <3> QED BY <3>4, <3>5, <3>6
    <2>5. CASE w # 24 /\ w # 29
      <3>1. pc \in Keeping
        BY <2>1, <2>2, <2>5
      <3>2. ram' = ram
        BY <2>1, <2>5, <3>1 DEF Lands, Keeping
      <3> QED BY <3>1, <3>2 DEF Kept
    <2> QED BY <2>3, <2>4, <2>5
  <1> QED BY <1>1, <1>2, GuestSteps DEF Steady, GuestInv

LEMMA AllDoneSame ==
    ASSUME build' = build, out' = out
    PROVE  AllDone' <=> AllDone
  BY DEF AllDone, Initial, Rom, sidata, ALIGN

\* The addresses of the variables are compared as they are.
LEMMA SignedSmall ==
    ASSUME NEW n \in 0 .. ram_end
    PROVE  Signed(n) = n
  <1>1. ~ 2 * n >= RegMod
    BY Sizes
  <1> QED BY <1>1 DEF Signed

\* The output loop begins with the first variable.
LEMMA PrintBegins ==
    ASSUME Steady, Printed, NEW w \in {52, 53, 54}, Runs(w)
    PROVE  Printed'
  <1>1. /\ TypeOK /\ regfile \in [Reg -> Word] /\ InText(w) /\ Instr /\ pc = 4 * w
        /\ build' = build /\ build \in Layouts /\ w \in 51 .. 67 /\ build.data \in Nat
        /\ sdata(build) \in Nat /\ Halfway
    <2>1. /\ TypeOK /\ regfile \in [Reg -> Word] /\ InText(w) /\ Instr /\ pc = 4 * w
          /\ build' = build /\ build \in Layouts /\ w \in 51 .. 67 /\ Halfway
      BY DEF Steady, GuestInv, TypeOK, Runs, InText
    <2> QED BY <2>1, LayoutFacts
  <1>2. out = <<>>
    BY <1>1 DEF Printed, BeforeOutput
  <1>3. sdata(build)' = sdata(build) /\ build.data' = build.data
    BY <1>1, SdataSame
  <1>4. CASE w = 52
    <2>1. Sets(s0, sdata(build), 212)
      BY <1>1, <1>4, PrintText
    <2>2. regfile'[s0] = sdata(build) /\ pc' = 212 /\ out' = <<>>
      BY <1>1, <1>2, <2>1 DEF Sets, s0, Reg
    <2> QED BY <1>3, <2>2 DEF Printed
  <1>6. CASE w = 53
    <2>1. Sets(s1, Upper(212, sdata(build) + build.data), 216)
      BY <1>1, <1>6, PrintText
    <2>2. regfile[s0] = sdata(build)
      BY <1>1, <1>6 DEF Printed
    <2>3. regfile'[s0] = sdata(build) /\ pc' = 216 /\ out' = <<>>
      BY <1>1, <1>2, <2>1, <2>2 DEF Sets, s0, s1, Reg
    <2> QED BY <1>3, <2>3 DEF Printed
  <1>5. CASE w = 54
    <2>1. Sets(s1, sdata(build) + build.data, 220)
      BY <1>1, <1>5, PrintText
    <2>2. regfile[s0] = sdata(build)
      BY <1>1, <1>5 DEF Printed
    <2>3. /\ regfile'[s0] = sdata(build) + 0 /\ regfile'[s1] = sdata(build) + build.data
          /\ pc' = 220 /\ out' = out
      BY <1>1, <2>1, <2>2 DEF Sets, s0, s1, Reg
    <2>4. Done(0)'
      <3>1. Done(0)
        BY <1>2, DoneNone
      <3>2. ASSUME NEW n PROVE Done(n)' <=> Done(n)
        BY <1>1, <2>3, DoneSame
      <3> QED BY <3>1, <3>2
    <2>5. \E n \in 0 .. build.data : Printing(n)'
      <3>1. ASSUME NEW n \in 0 .. build.data, n = 0 PROVE Printing(n)'
        BY <1>1, <1>3, <2>3, <2>4, <3>1 DEF Printing
      <3> QED BY <1>1, <3>1
    <2> QED BY <1>1, <1>3, <2>3, <2>5 DEF Printed, BeforeOutput
  <1> QED BY <1>4, <1>5, <1>6

\* A turn of the output loop in the next state.
LEMMA PrintingHere ==
    ASSUME build' = build, NEW m \in 0 .. build.data, Printing(m)',
           pc' \in {220, 224, 228, 232, 236, 252, 256, 260, 264, 268}
    PROVE  Printed'
  BY DEF Printed, BeforeOutput

\* The variable behind n others is printed.
LEMMA PrintTurns ==
    ASSUME Steady, Kept, NEW w \in 55 .. 67, w \notin 60 .. 62, Runs(w),
           NEW n \in 0 .. build.data, Printing(n)
    PROVE  Printed'
  <1>1. /\ TypeOK /\ regfile \in [Reg -> Word] /\ InText(w) /\ Instr /\ pc = 4 * w
        /\ build' = build /\ build \in Layouts /\ w \in 51 .. 67 /\ build.data \in Nat
        /\ sdata(build) \in Nat /\ phase # "boot" /\ Frame /\ Halfway
    <2>1. /\ TypeOK /\ regfile \in [Reg -> Word] /\ InText(w) /\ Instr /\ pc = 4 * w
          /\ build' = build /\ build \in Layouts /\ w \in 51 .. 67
          /\ phase # "boot" /\ Frame /\ Halfway
      BY DEF Steady, GuestInv, TypeOK, Runs, InText
    <2> QED BY <2>1, LayoutFacts
  <1>2. sdata(build)' = sdata(build) /\ build.data' = build.data /\ Initial(n)' = Initial(n)
    BY <1>1, SdataSame, InitialSame
  <1>3. out' = out => (Done(n)' <=> Done(n)) /\ (Done(n + 1)' <=> Done(n + 1))
        /\ (AllDone' <=> AllDone)
    BY <1>1, DoneSame, AllDoneSame
  <1>4. regfile[s0] = sdata(build) + n /\ regfile[s1] = sdata(build) + build.data
    BY DEF Printing
  <1>5. sdata(build) + n \in RAM_START .. ram_end - 8 /\ sdata(build) + build.data \in 0 .. ram_end
    BY <1>1, LayoutFacts, Sizes
  <1>6. CASE w = 55
    <2>1. IF Signed(regfile[s0]) >= Signed(regfile[s1]) THEN Goes(240) ELSE Goes(224)
      BY <1>1, <1>6, PrintText
    <2>2. Signed(regfile[s0]) = sdata(build) + n /\ Signed(regfile[s1]) = sdata(build) + build.data
      BY <1>4, <1>5, Sizes, SignedSmall
    <2>3. Done(n)
      BY <1>1, <1>6 DEF Printing
    <2>4. ASSUME Goes(240), n = build.data PROVE Printed'
      <3>1. AllDone
        BY <2>3, <2>4 DEF Done, AllDone
      <3>2. pc' = 240 /\ AllDone'
        BY <1>3, <2>4, <3>1 DEF Goes
      <3> QED BY <3>2 DEF Printed, BeforeOutput
    <2>5. ASSUME Goes(224), n < build.data PROVE Printed'
      <3>1. pc' = 224 /\ regfile' = regfile /\ out' = out
        BY <2>5 DEF Goes
      <3>2. Printing(n)'
        BY <1>2, <1>3, <1>4, <2>3, <2>5, <3>1 DEF Printing
      <3> QED BY <1>1, <3>1, <3>2, PrintingHere
    <2> QED BY <1>1, <2>1, <2>2, <2>4, <2>5
  <1>7. CASE w = 56
    <2>1. Sets(A0, bus_read(rom, ram, regfile[s0], MEM_BU, regfile[A0]), 228)
      BY <1>1, <1>7, PrintText
    <2>2. n < build.data /\ Done(n)
      BY <1>1, <1>7 DEF Printing
    <2>3. bus_read(rom, ram, regfile[s0], MEM_BU, regfile[A0]) = Initial(n)
      <3>1. sdata(build) + n \in RAM_START .. ram_end - 1
        BY <1>5, Sizes
      <3>2. bus_read(rom, ram, regfile[s0], MEM_BU, regfile[A0])
            = ram[(sdata(build) + n) - RAM_START]
        BY <1>1, <1>4, <3>1, LoadsByte
      <3>3. ram[sdata(build) - RAM_START + n] = Initial(n)
        BY <1>1, <1>7, <2>2 DEF Kept, Keeping
      <3>4. (sdata(build) + n) - RAM_START = sdata(build) - RAM_START + n
        BY <1>1, Sizes
      <3> QED BY <3>2, <3>3, <3>4
    <2>4. /\ regfile'[s0] = regfile[s0] /\ regfile'[s1] = regfile[s1]
          /\ regfile'[A0] = Initial(n) /\ pc' = 228 /\ out' = out
      BY <1>1, <2>1, <2>3 DEF Sets, s0, s1, A0, Reg
    <2>5. Printing(n)'
      BY <1>2, <1>3, <1>4, <2>2, <2>4 DEF Printing
    <2> QED BY <1>1, <2>4, <2>5, PrintingHere
  <1>8. CASE w = 57
    <2>1. Sets(ra, 232, 252)
      BY <1>1, <1>8, PrintText
    <2>2. n < build.data /\ Done(n) /\ regfile[A0] = Initial(n)
      BY <1>1, <1>8 DEF Printing
    <2>3. /\ regfile'[s0] = regfile[s0] /\ regfile'[s1] = regfile[s1]
          /\ regfile'[A0] = Initial(n) /\ pc' = 252 /\ out' = out
      BY <1>1, <2>1, <2>2 DEF Sets, s0, s1, A0, A1, ra, Reg
    <2>4. Printing(n)'
      BY <1>2, <1>3, <1>4, <2>2, <2>3 DEF Printing
    <2> QED BY <1>1, <2>3, <2>4, PrintingHere
  <1>9. CASE w = 63
    <2>1. Sets(15, regfile[A0], 256)
      BY <1>1, <1>9, PrintText
    <2>2. n < build.data /\ Done(n) /\ regfile[A0] = Initial(n)
      BY <1>1, <1>9 DEF Printing
    <2>3. /\ regfile'[s0] = regfile[s0] /\ regfile'[s1] = regfile[s1]
          /\ regfile'[15] = Initial(n) /\ pc' = 256 /\ out' = out
      BY <1>1, <2>1, <2>2 DEF Sets, s0, s1, A0, A1, ra, Reg
    <2>4. Printing(n)'
      BY <1>2, <1>3, <1>4, <2>2, <2>3 DEF Printing
    <2> QED BY <1>1, <2>3, <2>4, PrintingHere
  <1>10. CASE w = 64
    <2>1. Sets(A0, E_CHAR, 260)
      BY <1>1, <1>10, PrintText
    <2>2. n < build.data /\ Done(n) /\ regfile[15] = Initial(n)
      BY <1>1, <1>10 DEF Printing
    <2>3. /\ regfile'[s0] = regfile[s0] /\ regfile'[s1] = regfile[s1]
          /\ regfile'[15] = Initial(n) /\ pc' = 260 /\ out' = out
      BY <1>1, <2>1, <2>2 DEF Sets, s0, s1, A0, A1, ra, Reg
    <2>4. Printing(n)'
      BY <1>2, <1>3, <1>4, <2>2, <2>3 DEF Printing
    <2> QED BY <1>1, <2>3, <2>4, PrintingHere
  <1>11. CASE w = 65
    <2>1. Sets(A1, regfile[15], 264)
      BY <1>1, <1>11, PrintText
    <2>2. n < build.data /\ Done(n) /\ regfile[15] = Initial(n)
      BY <1>1, <1>11 DEF Printing
    <2>3. /\ regfile'[s0] = regfile[s0] /\ regfile'[s1] = regfile[s1]
          /\ regfile'[A1] = Initial(n) /\ pc' = 264 /\ out' = out
      BY <1>1, <2>1, <2>2 DEF Sets, s0, s1, A0, A1, ra, Reg
    <2>4. Printing(n)'
      BY <1>2, <1>3, <1>4, <2>2, <2>3 DEF Printing
    <2> QED BY <1>1, <2>3, <2>4, PrintingHere
  <1>12. CASE w = 66
    <2>1. n < build.data /\ Done(n) /\ regfile[A1] = Initial(n) /\ regfile[A0] = E_CHAR
      BY <1>1, <1>12 DEF Printing, Frame
    <2>2. Text(build)[w + 1] = Sys(0, zero, zero, 0) /\ 4 * w + 4 = 268 /\ w \in 0 .. 67
      BY <1>1, <1>12, ListingMain DEF InText
    <2>3. /\ pc' = 268 /\ regfile' = regfile
          /\ out' = IF regfile[A0] = E_CHAR THEN Append(out, regfile[A1] % ByteMod) ELSE out
      BY <1>1, <2>2, EcallEffect
    <2>4. out' = Append(out, Initial(n))
      BY <1>1, <2>1, <2>3, InitialByte
    <2>5. Done(n + 1)'
      BY <1>1, <2>1, <2>4, DoneMore
    <2>6. Printing(n)'
      BY <1>2, <1>4, <2>1, <2>3, <2>5 DEF Printing
    <2> QED BY <1>1, <2>3, <2>6, PrintingHere
  <1>13. CASE w = 67
    <2>1. n < build.data /\ Done(n + 1) /\ regfile[ra] = 232
      BY <1>1, <1>13 DEF Printing, Frame
    <2>2. Goes(232)
      BY <1>1, <1>13, <2>1, PrintText
    <2>3. pc' = 232 /\ regfile' = regfile /\ out' = out
      BY <2>2 DEF Goes
    <2>4. Printing(n)'
      BY <1>2, <1>3, <1>4, <2>1, <2>3 DEF Printing
    <2> QED BY <1>1, <2>3, <2>4, PrintingHere
  <1>14. CASE w = 58
    <2>1. Sets(s0, Sum(s0, 1), 236)
      BY <1>1, <1>14, PrintText
    <2>2. n < build.data /\ Done(n + 1)
      BY <1>1, <1>14 DEF Printing
    <2>3. Sum(s0, 1) = sdata(build) + (n + 1)
      <3>1. /\ regfile[s0] + 1 \in 0 .. RegMod - 1
            /\ regfile[s0] + 1 = sdata(build) + (n + 1)
        BY <1>1, <1>4, <1>5, Sizes
      <3> QED BY <3>1, WrapSmall DEF Sum
    <2>4. /\ regfile'[s0] = sdata(build) + (n + 1) /\ regfile'[s1] = regfile[s1]
          /\ pc' = 236 /\ out' = out
      BY <1>1, <2>1, <2>3 DEF Sets, s0, s1, Reg
    <2>5. ASSUME NEW m \in 0 .. build.data, m = n + 1 PROVE Printing(m)'
      <3>1. Done(m)'
        BY <1>3, <2>2, <2>4, <2>5
      <3> QED BY <1>2, <1>4, <2>4, <2>5, <3>1 DEF Printing
    <2>6. n + 1 \in 0 .. build.data
      BY <1>1, <2>2
    <2> QED BY <1>1, <2>4, <2>5, <2>6, PrintingHere
  <1>15. CASE w = 59
    <2>1. Goes(220)
      BY <1>1, <1>15, PrintText
    <2>2. Done(n)
      BY <1>1, <1>15 DEF Printing
    <2>3. pc' = 220 /\ regfile' = regfile /\ out' = out
      BY <2>1 DEF Goes
    <2>4. Printing(n)'
      BY <1>2, <1>3, <1>4, <2>2, <2>3 DEF Printing
    <2> QED BY <1>1, <2>3, <2>4, PrintingHere
  <1> QED BY <1>6, <1>7, <1>8, <1>9, <1>10, <1>11, <1>12, <1>13, <1>14, <1>15

\* The words behind the output loop lead to the end of the program.
LEMMA EndWords ==
    ASSUME Steady, NEW w \in {25, 26, 60, 61, 62}, Runs(w)
    PROVE  pc' \in 4 * 60 .. 4 * 62 \cup 4 * 25 .. 4 * 27
  <1>1. /\ TypeOK /\ Frame /\ Halfway /\ InText(w) /\ Instr /\ pc = 4 * w
    BY DEF Steady, GuestInv, Runs, InText
  <1>2. CASE w = 25
    BY <1>1, <1>2, StartText DEF Sets
  <1>3. CASE w = 26
    <2>1. Text(build)[w + 1] = Sys(0, zero, zero, 0) /\ 4 * w + 4 = 108 /\ w \in 0 .. 67
      BY <1>3, ListingStart
    <2> QED BY <1>1, <2>1, EcallEffect
  <1>4. CASE w = 60
    BY <1>1, <1>4, PrintText DEF Sets
  <1>5. CASE w = 61
    BY <1>1, <1>5, PrintText DEF Sets
  <1>6. CASE w = 62
    <2>1. regfile[ra] = 100
      BY <1>1, <1>6 DEF Frame
    <2>2. Goes(100)
      BY <1>1, <1>6, <2>1, PrintText
    <2> QED BY <2>2 DEF Goes
  <1> QED BY <1>2, <1>3, <1>4, <1>5, <1>6

\* The output, through the whole program.
LEMMA PrintedNext ==
    ASSUME Steady, Kept, Printed, [GuestNext]_guestVars
    PROVE  Printed'
  <1>1. CASE Quiet
    <2>1. /\ build' = build /\ out' = out /\ regfile' = regfile /\ pc' = pc
          /\ sdata(build)' = sdata(build) /\ (AllDone' <=> AllDone)
      BY <1>1, SdataSame, AllDoneSame DEF Quiet
    <2>2. ASSUME NEW n PROVE Printing(n)' <=> Printing(n)
      <3>1. Initial(n)' = Initial(n) /\ (Done(n)' <=> Done(n)) /\ (Done(n + 1)' <=> Done(n + 1))
        BY <2>1, InitialSame, DoneSame
      <3> QED BY <2>1, <3>1 DEF Printing
    <2> QED BY <2>1, <2>2 DEF Printed
  <1>2. ASSUME NEW w \in (0 .. 67) \ {27}, Runs(w) PROVE Printed'
    <2>1. /\ TypeOK /\ GuestInv /\ Lands /\ InText(w) /\ Instr /\ pc = 4 * w
          /\ build' = build /\ build \in Layouts
      BY <1>2, FrameNext DEF Steady, Runs, InText, GuestInv, Placed
    <2>2. CASE w \in {52, 53, 54}
      BY <1>2, <2>2, PrintBegins
    <2>3. CASE w \in 55 .. 59 \/ w \in 63 .. 67
      <3>1. PICK n \in 0 .. build.data : Printing(n)
        BY <2>1, <2>3 DEF Printed
      <3> QED BY <1>2, <2>3, <3>1, PrintTurns
    <2>4. CASE w \in 0 .. 24 \/ w \in 28 .. 51
      <3>1. out' = out /\ out = <<>>
        BY <2>1, <2>4 DEF Lands, Printed, BeforeOutput
      <3>2. pc' \notin 4 * 53 .. 4 * 67 /\ pc' \notin 4 * 25 .. 4 * 27
        BY <2>1, <2>4 DEF Lands
      <3> QED BY <3>1, <3>2 DEF Printed
    <2>5. CASE w \in {25, 26, 60, 61, 62}
      <3>1. out' = out /\ AllDone
        BY <2>1, <2>5 DEF Lands, Printed
      <3>2. AllDone'
        BY <2>1, <3>1, AllDoneSame
      <3>3. pc' \notin BeforeOutput
        BY <2>1, <2>5 DEF Lands, BeforeOutput
      <3>4. pc' \in 4 * 60 .. 4 * 62 \cup 4 * 25 .. 4 * 27
        BY <1>2, <2>1, <2>5, EndWords
      <3>5. pc' \notin {4 * 53, 4 * 54} /\ pc' \notin 4 * 55 .. 4 * 59 \cup 4 * 63 .. 4 * 67
        BY <3>4
      <3> QED BY <3>2, <3>3, <3>5 DEF Printed
    <2> QED BY <2>2, <2>3, <2>4, <2>5
  <1> QED BY <1>1, <1>2, GuestSteps DEF Steady, GuestInv

\* What the program has printed when its report comes out is the initial value of its
\* variables: putchar_ gives the host every character unchanged, once and in order, and
\* the copy of .data is what it prints although the first run wrote over it.
THEOREM OutputIsDelivered == GuestSpec => []OutputDelivered
  <1>1. GuestInit => Kept /\ Printed /\ OutcomeInv
    BY DEF GuestInit, Init, Kept, Keeping, Printed, BeforeOutput, OutcomeInv, OutcomeExplained
  <1>2. Steady /\ MemoryReady /\ Kept /\ [GuestNext]_guestVars => Kept'
    BY KeptNext
  <1>3. Steady /\ Kept /\ Printed /\ [GuestNext]_guestVars => Printed'
    BY PrintedNext
  <1>4. Steady /\ OutcomeInv /\ [GuestNext]_guestVars => OutcomeInv'
    BY GuestCore, OutcomeNext DEF Steady
  <1>5. Steady /\ Printed /\ OutcomeInv => OutputDelivered
    <2> SUFFICES ASSUME Steady, Printed, OutcomeInv, phase = "total_cycles"
                 PROVE  out = [k \in 1 .. build.data |-> Rom(build)[sidata(build) + k - 1]]
      BY DEF OutputDelivered
    <2>1. ~ instr_loop
      BY DEF OutcomeInv, OutcomeExplained
    <2>2. pc = 4 * 27 /\ build \in Layouts
      BY <2>1 DEF Steady, GuestInv, Placed
    <2>3. out = [k \in 1 .. build.data |-> Rom(build)[sidata(build) + (k - 1)]]
      BY <2>2 DEF Printed, AllDone, Initial
    <2>4. sidata(build) \in Nat
      BY <2>2, LayoutFacts
    <2>5. \A k \in 1 .. build.data : sidata(build) + (k - 1) = sidata(build) + k - 1
      BY <2>2, <2>4, LayoutFacts
    <2> QED BY <2>3, <2>5
  <1> QED BY <1>1, <1>2, <1>3, <1>4, <1>5, GuestSteady, GuestMemoryReady, PTL DEF GuestSpec

=============================================================================
