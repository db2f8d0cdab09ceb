------------------------------ MODULE DecoderProofs ------------------------------
(***************************************************************************)
(* The immediates of every 32-bit word, bit by bit.                        *)
(***************************************************************************)
EXTENDS MCDecoder, TLAPS

\* Membership in an arithmetic shift: the bit above, or the sign.
LEMMA SrawBit ==
    ASSUME NEW w, NEW sh \in 1 .. 31, NEW k \in Positions
    PROVE  k \in SRAW(w, sh) <=> (k + sh \in w \/ (k >= 32 - sh /\ 31 \in w))
  BY DEF SRAW, Shr, Positions

\* An arithmetic shift has no bits outside the word.
LEMMA SrawRange ==
    ASSUME NEW w, NEW sh \in 1 .. 31
    PROVE  SRAW(w, sh) \subseteq Positions
  BY DEF SRAW, Shr, Positions

\* The immediate of OP_IMM, OP_LOAD and OP_JALR.
LEMMA Simm12Bits == ASSUME NEW w PROVE GET_SIMM12(w) = Scattered(ImmI, w)
  <1> DEFINE v == w \cap 20 .. 31
  <1>1. \A b \in Nat : b \in v <=> \/ b \in 20 .. 31 /\ b \in w
    BY DEF Shl, Shr, Positions
  <1>2. GET_SIMM12(w) = SRAW(v, 20)
    BY DEF GET_SIMM12
  <1> HIDE DEF v
  <1>3. \A k \in Positions : k \in SRAW(v, 20) <=> ImmI[k] \in w \cap Positions
    <2> SUFFICES ASSUME NEW k \in Positions PROVE k \in SRAW(v, 20) <=> ImmI[k] \in w \cap Positions
      OBVIOUS
    <2>1. k \in SRAW(v, 20) <=> (k + 20 \in v \/ (k >= 12 /\ 31 \in v))
      BY SrawBit
    <2>2. /\ k + 20 \in v <=> \/ k + 20 \in 20 .. 31 /\ k + 20 \in w
          /\ 31 \in v <=> 31 \in w
      BY <1>1 DEF Positions
    <2> QED
      BY <2>1, <2>2 DEF ImmI, Positions
  <1> QED
    BY <1>2, <1>3, SrawRange DEF Scattered

\* The immediate of a store, whose low bits are where other formats have rd.
LEMMA StoreBits == ASSUME NEW w PROVE GET_STORE_IMM(w) = Scattered(ImmS, w)
  <1> DEFINE v == (w \cap 25 .. 31) \cup Shl(w \cap 7 .. 11, 13)
  <1>1. \A b \in Nat : b \in v <=> \/ b \in 25 .. 31 /\ b \in w
                                   \/ b \in 20 .. 24 /\ b - 13 \in w
    BY DEF Shl, Shr, Positions
  <1>2. GET_STORE_IMM(w) = SRAW(v, 20)
    BY DEF GET_STORE_IMM
  <1> HIDE DEF v
  <1>3. \A k \in Positions : k \in SRAW(v, 20) <=> ImmS[k] \in w \cap Positions
    <2> SUFFICES ASSUME NEW k \in Positions PROVE k \in SRAW(v, 20) <=> ImmS[k] \in w \cap Positions
      OBVIOUS
    <2>1. k \in SRAW(v, 20) <=> (k + 20 \in v \/ (k >= 12 /\ 31 \in v))
      BY SrawBit
    <2>2. /\ k + 20 \in v <=> \/ k + 20 \in 25 .. 31 /\ k + 20 \in w
                              \/ k + 20 \in 20 .. 24 /\ k + 7 \in w
          /\ 31 \in v <=> 31 \in w
      BY <1>1 DEF Positions
    <2> QED
      BY <2>1, <2>2 DEF ImmS, Positions
  <1> QED
    BY <1>2, <1>3, SrawRange DEF Scattered

\* The immediate of a branch, with bit 11 below its low bits.
LEMMA BranchBits == ASSUME NEW w PROVE GET_BRANCH_IMM(w) = Scattered(ImmB, w)
  <1> DEFINE v == (w \cap {31}) \cup Shl(w \cap {7}, 23) \cup Shr(w \cap 25 .. 30, 1)
                    \cup Shl(w \cap 8 .. 11, 12)
  <1>1. \A b \in Nat : b \in v <=> \/ b \in {31} /\ b \in w
                                   \/ b \in {30} /\ b - 23 \in w
                                   \/ b \in 24 .. 29 /\ b + 1 \in w
                                   \/ b \in 20 .. 23 /\ b - 12 \in w
    BY DEF Shl, Shr, Positions
  <1>2. GET_BRANCH_IMM(w) = SRAW(v, 19)
    BY DEF GET_BRANCH_IMM
  <1> HIDE DEF v
  <1>3. \A k \in Positions : k \in SRAW(v, 19) <=> ImmB[k] \in w \cap Positions
    <2> SUFFICES ASSUME NEW k \in Positions PROVE k \in SRAW(v, 19) <=> ImmB[k] \in w \cap Positions
      OBVIOUS
    <2>1. k \in SRAW(v, 19) <=> (k + 19 \in v \/ (k >= 13 /\ 31 \in v))
      BY SrawBit
    <2>2. /\ k + 19 \in v <=> \/ k + 19 \in {31} /\ k + 19 \in w
                              \/ k + 19 \in {30} /\ k - 4 \in w
                              \/ k + 19 \in 24 .. 29 /\ k + 20 \in w
                              \/ k + 19 \in 20 .. 23 /\ k + 7 \in w
          /\ 31 \in v <=> 31 \in w
      BY <1>1 DEF Positions
    <2> QED
      BY <2>1, <2>2 DEF ImmB, Positions
  <1> QED
    BY <1>2, <1>3, SrawRange DEF Scattered

\* The immediate of a jump.
LEMMA JalBits == ASSUME NEW w PROVE GET_JAL_IMM(w) = Scattered(ImmJ, w)
  <1> DEFINE v == (w \cap {31}) \cup Shl(w \cap 12 .. 19, 11) \cup Shl(w \cap {20}, 2)
                    \cup Shr(w \cap 21 .. 30, 9)
  <1>1. \A b \in Nat : b \in v <=> \/ b \in {31} /\ b \in w
                                   \/ b \in 23 .. 30 /\ b - 11 \in w
                                   \/ b \in {22} /\ b - 2 \in w
                                   \/ b \in 12 .. 21 /\ b + 9 \in w
    BY DEF Shl, Shr, Positions
  <1>2. GET_JAL_IMM(w) = SRAW(v, 11)
    BY DEF GET_JAL_IMM
  <1> HIDE DEF v
  <1>3. \A k \in Positions : k \in SRAW(v, 11) <=> ImmJ[k] \in w \cap Positions
    <2> SUFFICES ASSUME NEW k \in Positions PROVE k \in SRAW(v, 11) <=> ImmJ[k] \in w \cap Positions
      OBVIOUS
    <2>1. k \in SRAW(v, 11) <=> (k + 11 \in v \/ (k >= 21 /\ 31 \in v))
      BY SrawBit
    <2>2. /\ k + 11 \in v <=> \/ k + 11 \in {31} /\ k + 11 \in w
                              \/ k + 11 \in 23 .. 30 /\ k \in w
                              \/ k + 11 \in {22} /\ k + 9 \in w
                              \/ k + 11 \in 12 .. 21 /\ k + 20 \in w
          /\ 31 \in v <=> 31 \in w
      BY <1>1 DEF Positions
    <2> QED
      BY <2>1, <2>2 DEF ImmJ, Positions
  <1> QED
    BY <1>2, <1>3, SrawRange DEF Scattered

\* Every immediate of every word, for all five formats.
LEMMA AllImmediates == ASSUME NEW w PROVE ImmediatesScattered(w)
  <1>1. GET_SIMM20(w) = Scattered(ImmU, w)
    <2>1. \A k \in Positions : ImmU[k] \in w \cap Positions /\ k >= 12 <=> k \in w /\ k >= 12
      BY DEF ImmU, Positions
    <2>2. \A k \in Positions : k < 12 => ImmU[k] = -1
      BY DEF ImmU
    <2> QED
      BY <2>1, <2>2 DEF GET_SIMM20, Scattered, Positions
  <1> QED
    BY <1>1, Simm12Bits, StoreBits, BranchBits, JalBits DEF ImmediatesScattered

\* In every state the macros of inc/riscv.h read the five immediates of the word
\* from where the instruction formats have their bits, for every word there is.
THEOREM ImmediatesRight == Spec => []ImmediatesFromFormat
  <1>1. ImmediatesFromFormat
    BY AllImmediates DEF ImmediatesFromFormat
  <1> QED
    BY <1>1, PTL

=============================================================================
