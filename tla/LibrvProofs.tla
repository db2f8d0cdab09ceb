------------------------------- MODULE LibrvProofs -------------------------------
(***************************************************************************)
(* The split read of a counter: what it returns, for every width of a       *)
(* register and however far the counter runs between two instructions.      *)
(***************************************************************************)
EXTENDS Librv, TLAPS

\* Multiplication by a natural number is monotonic.
LEMMA TimesMonotonic ==
    ASSUME NEW n \in Nat, NEW a \in Int, NEW b \in Int, a <= b
    PROVE  n * a <= n * b
  <1>1. n * (b - a) >= 0
    OBVIOUS
  <1> QED
    BY <1>1

\* A register has a positive number of values.
LEMMA RegModPositive == RegMod \in Nat /\ RegMod > 0
  <1>1. ByteMod \in Nat /\ ByteMod > 0
    BY ArchAssumption
  <1>2. HalfMod \in Nat /\ HalfMod > 0
    BY <1>1 DEF HalfMod
  <1>3. WordMod \in Nat /\ WordMod > 0
    BY <1>2 DEF WordMod
  <1>4. WordMod * WordMod \in Nat /\ WordMod * WordMod > 0
    BY <1>3
  <1> QED
    BY <1>3, <1>4 DEF RegMod

\* The halves of a counter make it up.
LEMMA Halves ==
    ASSUME NEW c \in Nat
    PROVE  /\ High(c) \in Nat
           /\ Lower(c) \in 0 .. RegMod - 1
           /\ c = RegMod * High(c) + Lower(c)
  <1> DEFINE m == RegMod
  <1>1. m \in Nat /\ m > 0
    BY RegModPositive
  <1>2. High(c) = c \div m /\ Lower(c) = c % m
    BY DEF High, Lower
  <1> HIDE DEF m
  <1>3. c \div m \in Nat /\ c % m \in 0 .. m - 1 /\ c = m * (c \div m) + (c % m)
    BY <1>1
  <1> QED
    BY <1>2, <1>3 DEF m

\* The high half never decreases.
LEMMA HighMonotonic ==
    ASSUME NEW a \in Nat, NEW b \in Nat, a <= b
    PROVE  High(a) <= High(b)
  <1> DEFINE m == RegMod
             p == High(a)
             q == High(b)
  <1>1. /\ m \in Nat /\ m > 0 /\ p \in Nat /\ q \in Nat
        /\ a >= m * p /\ b < m * q + m
    BY Halves, RegModPositive
  <1> HIDE DEF m, p, q
  <1>2. CASE p > q
    <2>1. m * p >= m * (q + 1)
      BY <1>1, <1>2, TimesMonotonic
    <2>2. m * (q + 1) = m * q + m
      BY <1>1
    <2> QED
      BY <1>1, <2>1, <2>2
  <1>3. CASE p <= q
    BY <1>3 DEF p, q
  <1> QED
    BY <1>1, <1>2, <1>3

\* Equal high halves around the read of the low one: the value is the counter's.
LEMMA WholeValue ==
    ASSUME NEW a \in Nat, NEW b \in Nat, NEW c \in Nat, a <= b, b <= c,
           High(a) = High(c)
    PROVE  High(a) * RegMod + Lower(b) = b
  <1>1. High(a) <= High(b) /\ High(b) <= High(c)
    BY HighMonotonic
  <1>2. High(a) = High(b)
    BY <1>1, Halves
  <1> QED
    BY <1>2, Halves, RegModPositive

-----------------------------------------------------------------------------
\* Which moments the values in the registers were read at.
AfterHi  == at = "csrr lo" => \E a \in since .. counter : hi = High(a)
AfterLo  == at = "csrr hi2" =>
                \E a, b \in since .. counter : a <= b /\ hi = High(a) /\ lo = Lower(b)
AfterHi2 == at = "bne" =>
                \E a, b, c \in since .. counter :
                    a <= b /\ b <= c /\ hi = High(a) /\ lo = Lower(b) /\ hi2 = High(c)
ReadsInv == /\ counter \in Nat /\ since \in Nat /\ since <= counter
            /\ AfterHi /\ AfterLo /\ AfterHi2
            /\ NotTorn

\* Counters are natural numbers.
LEMMA CounterNat == Counter \subseteq Nat
  <1>1. RegMod * RegMod \in Int
    BY RegModPositive
  <1> QED
    BY <1>1 DEF Counter

\* The counter stays a natural number and does not decrease.
LEMMA RunsForward ==
    ASSUME ReadsInv, Runs PROVE counter' \in Nat /\ counter' >= counter
  BY CounterNat DEF ReadsInv, Runs

\* Before the loop, nothing has been read.
LEMMA ReadsInit == Init => ReadsInv
  <1> SUFFICES ASSUME Init PROVE ReadsInv
    OBVIOUS
  <1>1. counter \in Nat /\ since = counter
    BY CounterNat DEF Init
  <1>2. at \in {"out", "csrr hi"}
    BY DEF Init
  <1>3. AfterHi /\ AfterLo /\ AfterHi2 /\ NotTorn
    BY <1>2 DEF AfterHi, AfterLo, AfterHi2, NotTorn
  <1> QED
    BY <1>1, <1>3 DEF ReadsInv

\* Each instruction adds the moment of its read.
LEMMA ReadsNext == ReadsInv /\ [Next]_vars => ReadsInv'
  <1> SUFFICES ASSUME ReadsInv, [Next]_vars PROVE ReadsInv'
    OBVIOUS
  <1>0. counter \in Nat /\ since \in Nat /\ since <= counter
    BY DEF ReadsInv
  <1>1. CASE ReadHi
    <2>1. counter' \in Nat /\ counter' >= counter /\ since' = counter
      BY <1>1, RunsForward DEF ReadHi
    <2>2. \E a \in since' .. counter' : hi' = High(a)
      BY <1>1, <2>1 DEF ReadHi
    <2>3. at' = "csrr lo"
      BY <1>1 DEF ReadHi
    <2>4. AfterHi' /\ AfterLo' /\ AfterHi2' /\ NotTorn'
      BY <2>2, <2>3 DEF AfterHi, AfterLo, AfterHi2, NotTorn
    <2> QED
      BY <1>0, <2>1, <2>4 DEF ReadsInv
  <1>2. CASE ReadLo
    <2>1. counter' \in Nat /\ counter' >= counter /\ since' = since /\ hi' = hi
      BY <1>2, RunsForward DEF ReadLo
    <2>2. PICK a \in since .. counter : hi = High(a)
      BY <1>2 DEF ReadLo, ReadsInv, AfterHi
    <2>3. PICK b \in counter .. counter' : lo' = Lower(b)
      BY <1>2 DEF ReadLo
    <2>4. a \in since' .. counter' /\ b \in since' .. counter' /\ a <= b
      BY <1>0, <2>1, <2>2, <2>3
    <2>5. \E i, j \in since' .. counter' : i <= j /\ hi' = High(i) /\ lo' = Lower(j)
      BY <2>1, <2>2, <2>3, <2>4
    <2>6. at' = "csrr hi2"
      BY <1>2 DEF ReadLo
    <2>7. AfterHi' /\ AfterLo' /\ AfterHi2' /\ NotTorn'
      BY <2>5, <2>6 DEF AfterHi, AfterLo, AfterHi2, NotTorn
    <2> QED
      BY <1>0, <2>1, <2>7 DEF ReadsInv
  <1>3. CASE ReadHi2
    <2>1. counter' \in Nat /\ counter' >= counter /\ since' = since /\ hi' = hi /\ lo' = lo
      BY <1>3, RunsForward DEF ReadHi2
    <2>2. PICK a \in since .. counter, b \in since .. counter :
              a <= b /\ hi = High(a) /\ lo = Lower(b)
      BY <1>3 DEF ReadHi2, ReadsInv, AfterLo
    <2>3. PICK c \in counter .. counter' : hi2' = High(c)
      BY <1>3 DEF ReadHi2
    <2>4. /\ a \in since' .. counter' /\ b \in since' .. counter' /\ c \in since' .. counter'
          /\ a <= b /\ b <= c
      BY <1>0, <2>1, <2>2, <2>3
    <2>5. \E i, j, k \in since' .. counter' :
              i <= j /\ j <= k /\ hi' = High(i) /\ lo' = Lower(j) /\ hi2' = High(k)
      BY <2>1, <2>2, <2>3, <2>4
    <2>6. at' = "bne"
      BY <1>3 DEF ReadHi2
    <2>7. AfterHi' /\ AfterLo' /\ AfterHi2' /\ NotTorn'
      BY <2>5, <2>6 DEF AfterHi, AfterLo, AfterHi2, NotTorn
    <2> QED
      BY <1>0, <2>1, <2>7 DEF ReadsInv
  <1>4. CASE Bne
    <2>1. /\ counter' \in Nat /\ counter' >= counter /\ since' = since
          /\ hi' = hi /\ lo' = lo
      BY <1>4, RunsForward DEF Bne
    <2>2. PICK a \in since .. counter, b \in since .. counter, c \in since .. counter :
              a <= b /\ b <= c /\ hi = High(a) /\ lo = Lower(b) /\ hi2 = High(c)
      BY <1>4 DEF Bne, ReadsInv, AfterHi2
    <2>3. a \in Nat /\ b \in Nat /\ c \in Nat
      BY <1>0, <2>2
    <2>4. hi = hi2 => Value' = b
      BY <2>1, <2>2, <2>3, WholeValue DEF Value
    <2>5. /\ at' \in {"csrr hi", "return"}
          /\ at' = "return" => hi = hi2
      BY <1>4 DEF Bne
    <2>6. at' = "return" => since' <= Value' /\ Value' <= counter'
      BY <1>0, <2>1, <2>2, <2>3, <2>4, <2>5
    <2>7. AfterHi' /\ AfterLo' /\ AfterHi2'
      BY <2>5 DEF AfterHi, AfterLo, AfterHi2
    <2>8. NotTorn'
      BY <2>6 DEF NotTorn
    <2> QED
      BY <1>0, <2>1, <2>7, <2>8 DEF ReadsInv
  <1>5. CASE Elsewhere
    <2>1. counter' \in Nat /\ counter' >= counter /\ since' = since
      BY <1>5, RunsForward DEF Elsewhere
    <2>2. at' \in {"out", "csrr hi"}
      BY <1>5 DEF Elsewhere
    <2>3. AfterHi' /\ AfterLo' /\ AfterHi2' /\ NotTorn'
      BY <2>2 DEF AfterHi, AfterLo, AfterHi2, NotTorn
    <2> QED
      BY <1>0, <2>1, <2>3 DEF ReadsInv
  <1>6. CASE UNCHANGED vars
    BY <1>6 DEF vars, ReadsInv, AfterHi, AfterLo, AfterHi2, NotTorn, Value
  <1> QED
    BY <1>1, <1>2, <1>3, <1>4, <1>5, <1>6 DEF Next

\* The loops of sdk/librv/librv.h never return a torn value: it is one that the
\* counter had since the loop was last begun, for every width of a half and
\* however far the counter runs during each instruction.
THEOREM ValueNotTorn == Spec => []NotTorn
  <1>1. ReadsInv => NotTorn
    BY DEF ReadsInv
  <1> QED
    BY <1>1, ReadsInit, ReadsNext, PTL DEF Spec

=============================================================================
