------------------------------ MODULE PrintfProofs ------------------------------
(***************************************************************************)
(* The format loop for formats, arguments, buffers and type widths of      *)
(* every size: its types, the bound of print_integer's buffer, and that    *)
(* the loop does nothing to its gadget but put characters and finish, so   *)
(* that what is shown of a gadget holds of every printf call.              *)
(***************************************************************************)
EXTENDS Printf, TLAPS, SequenceTheorems

-----------------------------------------------------------------------------
(* The gadget: it keeps the promise of Output, for arrays, sizes and texts of *)
(* every length and whoever puts the characters.                              *)

\* INT_MAX and the range of an unsigned int, as the gadget and as Output have them.
LEMMA IntRange ==
    /\ PRINTF_MAX_POSSIBLE_BUFFER_SIZE \in Nat \ {0}
    /\ IntMod \in Nat \ {0}
    /\ IntMod = 2 * (PRINTF_MAX_POSSIBLE_BUFFER_SIZE + 1)
    /\ IntMod \div 2 = PRINTF_MAX_POSSIBLE_BUFFER_SIZE + 1
    /\ \A n \in 0..(IntMod - 1) : n % IntMod = n
  BY GadgetAssumption DEF IntMod

\* The return converts the count as Output says: as it is up to INT_MAX, and to
\* a negative number behind it.
LEMMA ReturnedInt ==
    ASSUME NEW n \in 0..(IntMod - 1)
    PROVE  /\ ToSigned(n, IntMod) = IF n <= PRINTF_MAX_POSSIBLE_BUFFER_SIZE
                                    THEN n ELSE n - IntMod
           /\ ToSigned(n, IntMod) \in O!Ints
  <1>1. n % IntMod = n
    BY IntRange
  <1>2. ToSigned(n, IntMod) = IF n < PRINTF_MAX_POSSIBLE_BUFFER_SIZE + 1
                              THEN n ELSE n - IntMod
    BY <1>1, IntRange DEF ToSigned
  <1> QED
    BY <1>2, IntRange DEF O!Ints

\* While the call runs, the array holds the text up to the limit, and pos counts
\* the text, as long as an unsigned int can; max_chars is what the entry point
\* set, and memory behind it is as it was, however long the text.
GadgetInv ==
    /\ GadgetTypeOK
    /\ max_chars = MaxChars(sink, size)
    /\ size \in Sizes
    /\ Len(text) < IntMod => pos = Len(text)
    /\ sink = "none" => ~ running
    /\ running => \A c \in Cells :
          /\ sink # "buffer" \/ c >= max_chars => buffer[c] = Fill
          /\ sink = "buffer" /\ c < max_chars /\ Len(text) < IntMod =>
                buffer[c] = IF c < pos THEN text[c + 1] ELSE Fill

\* The limit of a gadget is an int: the array's size cut to INT_MAX, INT_MAX for
\* a function, 0 without either.
LEMMA MaxCharsType ==
    ASSUME NEW s \in Sinks, NEW n \in Nat
    PROVE  /\ MaxChars(s, n) \in 0..PRINTF_MAX_POSSIBLE_BUFFER_SIZE
           /\ s = "function" => MaxChars(s, n) = PRINTF_MAX_POSSIBLE_BUFFER_SIZE
           /\ s \in {"null", "none"} => MaxChars(s, n) = 0
           /\ s = "buffer" => MaxChars(s, n) =
                 IF n > PRINTF_MAX_POSSIBLE_BUFFER_SIZE
                 THEN PRINTF_MAX_POSSIBLE_BUFFER_SIZE ELSE n
  BY GadgetAssumption DEF MaxChars, Sinks

\* The facts of the invariant about the array, the cursor and the limit.
LEMMA CursorType ==
    ASSUME GadgetInv
    PROVE  /\ pos \in Nat /\ pos < IntMod
           /\ max_chars \in Nat /\ max_chars <= PRINTF_MAX_POSSIBLE_BUFFER_SIZE
           /\ text \in Seq(Char) /\ Len(text) \in Nat
           /\ sink \in Sinks /\ size \in Nat
           /\ sink = "function" => max_chars = PRINTF_MAX_POSSIBLE_BUFFER_SIZE
           /\ sink \in {"null", "none"} => max_chars = 0
           /\ sink = "buffer" => max_chars = O!Usable
           /\ Cells \subseteq Nat
           /\ \A c \in Nat : sink = "buffer" /\ c < max_chars => c \in Cells
  <1>1. pos \in Nat /\ pos < IntMod /\ text \in Seq(Char) /\ Len(text) \in Nat
        /\ sink \in Sinks /\ size \in Nat /\ size \in Sizes /\ max_chars = MaxChars(sink, size)
    BY IntRange DEF GadgetInv, GadgetTypeOK
  <1>2. /\ max_chars \in 0..PRINTF_MAX_POSSIBLE_BUFFER_SIZE
        /\ sink = "function" => max_chars = PRINTF_MAX_POSSIBLE_BUFFER_SIZE
        /\ sink \in {"null", "none"} => max_chars = 0
        /\ sink = "buffer" => max_chars =
              IF size > PRINTF_MAX_POSSIBLE_BUFFER_SIZE
              THEN PRINTF_MAX_POSSIBLE_BUFFER_SIZE ELSE size
    BY <1>1, MaxCharsType
  <1>3. sink = "buffer" => max_chars = O!Usable
    BY <1>2 DEF O!Usable
  <1>4. ASSUME NEW c \in Nat, sink = "buffer", c < max_chars PROVE c \in Cells
    <2>1. c \in 0..(PRINTF_MAX_POSSIBLE_BUFFER_SIZE - 1) /\ c < size
      BY <1>1, <1>2, <1>4, IntRange
    <2> QED
      BY <1>1, <2>1, GadgetAssumption
  <1> QED
    BY <1>1, <1>2, <1>3, <1>4, IntRange, GadgetAssumption

\* A gadget fresh from its entry point is well-typed and its array is untouched.
LEMMA GadgetInvInit == GadgetInit => GadgetInv
  <1> SUFFICES ASSUME GadgetInit PROVE GadgetInv
    OBVIOUS
  <1>1. size \in Nat /\ size \in Sizes /\ sink \in Sinks
    BY GadgetAssumption DEF GadgetInit
  <1>2. MaxChars(sink, size) \in 0..PRINTF_MAX_POSSIBLE_BUFFER_SIZE
    BY <1>1, MaxCharsType
  <1>3. running \in BOOLEAN /\ (sink = "none" => ~ running)
    BY DEF GadgetInit
  <1>4. buffer \in [Cells -> Char] /\ \A c \in Cells : buffer[c] = Fill
    BY GadgetAssumption DEF GadgetInit
  <1>5. Len(text) = 0 /\ text \in Seq(Char) /\ sent \in Seq(Char)
    BY DEF GadgetInit
  <1>6. pos = 0 /\ 0 \in 0..(IntMod - 1) /\ result = 0
        /\ 0 \in -(PRINTF_MAX_POSSIBLE_BUFFER_SIZE + 1)..PRINTF_MAX_POSSIBLE_BUFFER_SIZE
    BY IntRange DEF GadgetInit
  <1>7. max_chars = MaxChars(sink, size)
    BY DEF GadgetInit
  <1>8. GadgetTypeOK
    BY <1>1, <1>2, <1>3, <1>4, <1>5, <1>6, <1>7 DEF GadgetTypeOK
  <1>9. \A c \in Cells : ~ c < 0
    BY GadgetAssumption
  <1> QED
    BY <1>1, <1>3, <1>4, <1>5, <1>6, <1>7, <1>8, <1>9 DEF GadgetInv

\* The cursor after one more character.
LEMMA CursorMoves ==
    ASSUME GadgetInv, NEW ch \in Char, Put(ch)
    PROVE  /\ pos' \in 0..(IntMod - 1)
           /\ text' \in Seq(Char) /\ Len(text') = Len(text) + 1
           /\ Len(text') < IntMod => pos = Len(text) /\ pos' = pos + 1
  <1>1. pos \in Nat /\ pos < IntMod /\ text \in Seq(Char) /\ Len(text) \in Nat
        /\ IntMod \in Nat \ {0}
    BY CursorType, IntRange
  <1>2. pos' = (pos + 1) % IntMod /\ text' = Append(text, ch)
    BY DEF Put
  <1>3. text' \in Seq(Char) /\ Len(text') = Len(text) + 1
    BY <1>1, <1>2
  <1>4. (pos + 1) % IntMod \in 0..(IntMod - 1)
    BY <1>1
  <1>5. ASSUME Len(text') < IntMod PROVE pos = Len(text) /\ pos' = pos + 1
    <2>1. Len(text) < IntMod
      BY <1>1, <1>3, <1>5
    <2>2. pos = Len(text)
      BY <2>1 DEF GadgetInv
    <2>3. pos + 1 \in 0..(IntMod - 1)
      BY <1>1, <1>3, <1>5, <2>2
    <2> QED
      BY <1>2, <2>2, <2>3, IntRange
  <1> QED
    BY <1>2, <1>3, <1>4, <1>5

\* Every character put keeps the invariant: the cursor and the text grow
\* together, and only the cell under the cursor changes.
LEMMA GadgetInvPut ==
    ASSUME GadgetInv, NEW ch \in Char, Put(ch)
    PROVE  GadgetInv'
  <1>1. buffer \in [Cells -> Char] /\ sent \in Seq(Char)
    BY DEF GadgetInv, GadgetTypeOK
  <1>2. pos' \in 0..(IntMod - 1) /\ text' \in Seq(Char) /\ Len(text') = Len(text) + 1
        /\ (Len(text') < IntMod => pos = Len(text) /\ pos' = pos + 1)
    BY CursorMoves
  <1>3. sent' \in Seq(Char)
    BY <1>1 DEF Put
  <1>4. buffer' \in [Cells -> Char]
    BY <1>1 DEF Put
  <1>5. UNCHANGED <<sink, size, max_chars, running, result>>
    BY DEF Put
  <1>6. GadgetTypeOK'
    BY <1>2, <1>3, <1>4, <1>5 DEF GadgetInv, GadgetTypeOK
  <1>7. ASSUME NEW c \in Cells
        PROVE  /\ sink # "buffer" \/ c >= max_chars => buffer'[c] = Fill
               /\ sink = "buffer" /\ c < max_chars /\ Len(text') < IntMod =>
                     buffer'[c] = IF c < pos' THEN text'[c + 1] ELSE Fill
    <2>1. c \in Nat /\ pos \in Nat /\ max_chars \in Nat /\ Len(text) \in Nat /\ sink \in Sinks
          /\ (sink \in {"null", "none"} => max_chars = 0)
      BY CursorType
    <2>2. running
      BY DEF Put
    <2>3. CASE sink = "buffer" /\ pos < max_chars /\ c = pos
      <3>1. buffer'[c] = ch
        BY <1>1, <2>3 DEF Put
      <3>2. text'[Len(text) + 1] = ch
        BY CursorType DEF Put
      <3> QED
        BY <1>2, <2>1, <2>3, <3>1, <3>2
    <2>4. CASE ~ (sink = "buffer" /\ pos < max_chars /\ c = pos)
      <3>1. buffer'[c] = buffer[c]
        BY <1>1, <2>1, <2>4 DEF Put, Sinks
      <3>2. sink # "buffer" \/ c >= max_chars => buffer[c] = Fill
        BY <2>2 DEF GadgetInv
      <3>3. ASSUME sink = "buffer", c < max_chars, Len(text') < IntMod
            PROVE  buffer[c] = IF c < pos' THEN text'[c + 1] ELSE Fill
        <4>1. pos = Len(text) /\ pos' = pos + 1 /\ Len(text) < IntMod
          BY <1>2, <2>1, <3>3, IntRange
        <4>2. buffer[c] = IF c < pos THEN text[c + 1] ELSE Fill
          BY <2>2, <3>3, <4>1 DEF GadgetInv
        <4>3. c < pos => text'[c + 1] = text[c + 1]
          BY <2>1, <4>1, CursorType DEF Put
        <4> QED
          BY <2>1, <2>4, <3>3, <4>1, <4>2, <4>3
      <3> QED
        BY <3>1, <3>2, <3>3
    <2> QED
      BY <2>3, <2>4
  <1>8. max_chars' = MaxChars(sink', size')
    BY <1>5 DEF GadgetInv
  <1> QED
    BY <1>2, <1>5, <1>6, <1>7, <1>8 DEF GadgetInv

\* The return keeps the invariant: it says nothing of the array any more.
LEMMA GadgetInvFinish ==
    ASSUME GadgetInv, Finish
    PROVE  GadgetInv'
  <1>1. running' \in BOOLEAN /\ ~ running'
    BY DEF Finish
  <1>2. buffer' \in [Cells -> Char]
    BY GadgetAssumption DEF GadgetInv, GadgetTypeOK, Finish, Terminated
  <1>3. result' \in -(PRINTF_MAX_POSSIBLE_BUFFER_SIZE + 1)..PRINTF_MAX_POSSIBLE_BUFFER_SIZE
    <2>1. pos \in 0..(IntMod - 1)
      BY DEF GadgetInv, GadgetTypeOK
    <2> QED
      BY <2>1, ReturnedInt DEF Finish, O!Ints
  <1>4. UNCHANGED <<sink, size, pos, max_chars, sent, text>>
    BY DEF Finish
  <1>5. GadgetTypeOK'
    BY <1>1, <1>2, <1>3, <1>4 DEF GadgetInv, GadgetTypeOK
  <1> QED
    BY <1>1, <1>4, <1>5 DEF GadgetInv

\* The invariant survives every step of a gadget.
LEMMA GadgetInvNext == GadgetInv /\ [GadgetNext]_gvars => GadgetInv'
  <1> SUFFICES ASSUME GadgetInv, [GadgetNext]_gvars PROVE GadgetInv'
    OBVIOUS
  <1>1. CASE Finish
    BY <1>1, GadgetInvFinish
  <1>2. ASSUME NEW ch \in Char, Put(ch) PROVE GadgetInv'
    BY <1>2, GadgetInvPut
  <1>3. CASE UNCHANGED gvars
    BY <1>3 DEF gvars, GadgetInv, GadgetTypeOK
  <1> QED
    BY <1>1, <1>2, <1>3 DEF GadgetNext

\* A gadget starts as the promise starts.
LEMMA RefinesInit == GadgetInit => O!Init
  BY GadgetAssumption DEF GadgetInit, O!Init, Sinks

\* A character put is a character said: a function hears it while an int can
\* count it, and the array is not yet the caller's to look at.
LEMMA RefinesPut ==
    ASSUME GadgetInv, NEW ch \in Char, Put(ch)
    PROVE  O!Say(ch)
  <1>1. /\ sink = "function" => max_chars = PRINTF_MAX_POSSIBLE_BUFFER_SIZE
        /\ Len(text) \in Nat /\ pos \in Nat
    BY CursorType
  <1>2. O!Counted <=> Len(text) < IntMod
    BY IntRange DEF O!Counted
  <1>3. O!Counted => pos = Len(text)
    BY <1>2 DEF GadgetInv
  <1>4. ~ O!Counted => ~ Len(text) < PRINTF_MAX_POSSIBLE_BUFFER_SIZE
    BY <1>1, <1>2, IntRange
  <1>5. sent' = IF pos < max_chars /\ sink = "function" THEN Append(sent, ch) ELSE sent
    BY DEF Put
  <1>6. \/ sent' = Append(sent, ch) /\ sink = "function"
              /\ (O!Counted => Len(text) < PRINTF_MAX_POSSIBLE_BUFFER_SIZE)
        \/ sent' = sent /\ ~ (sink = "function" /\ Len(text) < PRINTF_MAX_POSSIBLE_BUFFER_SIZE)
    BY <1>1, <1>3, <1>4, <1>5
  <1> QED
    BY <1>6 DEF O!Say, Put

\* The place of the terminating NUL is inside an array that is not empty.
LEMMA TerminatedInside ==
    ASSUME GadgetInv, sink = "buffer", size > 0
    PROVE  /\ max_chars = O!Usable /\ max_chars > 0
           /\ null_char_pos \in Nat /\ null_char_pos < max_chars /\ null_char_pos <= pos
           /\ null_char_pos \in Cells
           /\ Terminated = [buffer EXCEPT ![null_char_pos] = NUL]
  <1>1. max_chars = O!Usable /\ max_chars \in Nat /\ pos \in Nat /\ size \in Nat
        /\ \A c \in Nat : c < max_chars => c \in Cells
    BY CursorType
  <1>2. max_chars > 0
    BY <1>1, IntRange DEF O!Usable
  <1>3. null_char_pos \in Nat /\ null_char_pos < max_chars /\ null_char_pos <= pos
    BY <1>1, <1>2 DEF null_char_pos
  <1> QED
    BY <1>1, <1>2, <1>3 DEF Terminated

\* The termination makes the array the longest terminated prefix of a text that
\* has been counted.
LEMMA ArrayTruncated ==
    ASSUME GadgetInv, running, sink = "buffer", size > 0, Len(text) < IntMod
    PROVE  Terminated = O!Truncated
  <1>1. /\ max_chars = O!Usable /\ max_chars > 0
        /\ null_char_pos \in Nat /\ null_char_pos < max_chars /\ null_char_pos <= pos
        /\ Terminated = [buffer EXCEPT ![null_char_pos] = NUL]
    BY TerminatedInside
  <1>2. pos = Len(text) /\ pos \in Nat /\ max_chars \in Nat /\ buffer \in [Cells -> Char]
    BY CursorType DEF GadgetInv, GadgetTypeOK
  <1>3. null_char_pos = O!Kept
    BY <1>1, <1>2 DEF O!Kept, null_char_pos
  <1>4. ASSUME NEW c \in Cells PROVE Terminated[c] = O!Truncated[c]
    <2>1. c \in Nat
      BY CursorType
    <2>2. buffer[c] = IF c < pos /\ c < max_chars THEN text[c + 1] ELSE Fill
      BY <1>2, <2>1 DEF GadgetInv
    <2>3. O!Truncated[c] = IF c < null_char_pos THEN text[c + 1]
                           ELSE IF c = null_char_pos THEN NUL ELSE Fill
      BY <1>3 DEF O!Truncated
    <2>4. c > null_char_pos => ~ (c < pos /\ c < max_chars)
      BY <1>1, <1>2, <2>1 DEF null_char_pos
    <2>5. c < null_char_pos => c < pos /\ c < max_chars
      BY <1>1, <1>2, <2>1
    <2> QED
      BY <1>1, <1>2, <2>1, <2>2, <2>3, <2>4, <2>5
  <1> QED
    BY <1>1, <1>2, <1>4 DEF O!Truncated

\* Without an array, or in an empty one, nothing is written at all.
LEMMA ArrayUntouched ==
    ASSUME GadgetInv, running, ~ (sink = "buffer" /\ size > 0)
    PROVE  Terminated = [c \in Cells |-> Fill]
  <1>1. /\ sink \in Sinks /\ size \in Nat /\ max_chars \in Nat
        /\ sink = "buffer" => max_chars = O!Usable
        /\ sink \in {"null", "none"} => max_chars = 0
        /\ Cells \subseteq Nat
    BY CursorType
  <1>2. sink = "buffer" => max_chars = 0
    BY <1>1, IntRange DEF O!Usable
  <1>3. Terminated = buffer
    BY <1>1, <1>2 DEF Terminated, Sinks
  <1>4. \A c \in Cells : buffer[c] = Fill
    BY <1>1, <1>2 DEF GadgetInv
  <1> QED
    BY <1>3, <1>4 DEF GadgetInv, GadgetTypeOK

\* The return of a text that has been counted.
LEMMA RefinesFinish ==
    ASSUME GadgetInv, Finish, Len(text) < IntMod
    PROVE  O!Return
  <1>1. running /\ ~ running' /\ running' = FALSE
        /\ UNCHANGED <<sink, size, text, sent>> /\ buffer' = Terminated
    BY DEF Finish
  <1>2. O!Counted
    BY IntRange DEF O!Counted
  <1>3. result' = O!Count
    <2>1. pos \in 0..(IntMod - 1) /\ pos = Len(text)
      BY DEF GadgetInv, GadgetTypeOK
    <2>2. result' = ToSigned(pos, IntMod)
      BY DEF Finish
    <2> QED
      BY <2>1, <2>2, ReturnedInt, IntRange DEF O!Count
  <1>4. buffer' = IF sink = "buffer" /\ size > 0 THEN O!Truncated ELSE [c \in Cells |-> Fill]
    BY <1>1, ArrayTruncated, ArrayUntouched
  <1> QED
    BY <1>1, <1>2, <1>3, <1>4 DEF O!Return

\* The return of a longer text: the array is terminated inside, and memory behind
\* it is as it was.
LEMMA RefinesUncounted ==
    ASSUME GadgetInv, Finish, ~ Len(text) < IntMod
    PROVE  O!ReturnUncounted
  <1>1. running /\ ~ running' /\ running' = FALSE
        /\ UNCHANGED <<sink, size, text, sent>> /\ buffer' = Terminated
    BY DEF Finish
  <1>2. ~ O!Counted
    BY IntRange DEF O!Counted
  <1>3. result' \in O!Ints
    <2>1. pos \in 0..(IntMod - 1)
      BY DEF GadgetInv, GadgetTypeOK
    <2> QED
      BY <2>1, ReturnedInt DEF Finish
  <1>4. buffer \in [Cells -> Char]
    BY DEF GadgetInv, GadgetTypeOK
  <1>5. CASE sink = "buffer" /\ size > 0
    <2>1. /\ max_chars = O!Usable /\ null_char_pos < max_chars
          /\ null_char_pos \in Nat /\ null_char_pos \in Cells
          /\ Terminated = [buffer EXCEPT ![null_char_pos] = NUL]
      BY <1>5, TerminatedInside
    <2>2. buffer' \in [Cells -> Char] /\ buffer'[null_char_pos] = NUL
      BY <1>1, <1>4, <2>1, GadgetAssumption
    <2>3. ASSUME NEW c \in Cells, c >= O!Usable PROVE buffer'[c] = Fill
      <3>1. buffer[c] = Fill
        BY <1>1, <2>1, <2>3 DEF GadgetInv
      <3>2. c # null_char_pos
        BY <2>1, <2>3, CursorType
      <3> QED
        BY <1>1, <1>4, <2>1, <3>1, <3>2
    <2>4. \E c \in Cells : c < O!Usable /\ buffer'[c] = NUL
      BY <2>1, <2>2
    <2>5. \A c \in Cells : sink # "buffer" \/ c >= O!Usable => buffer'[c] = Fill
      BY <1>5, <2>3
    <2> QED
      BY <1>1, <1>2, <1>3, <2>2, <2>4, <2>5 DEF O!ReturnUncounted
  <1>6. CASE ~ (sink = "buffer" /\ size > 0)
    <2>1. buffer' = [c \in Cells |-> Fill]
      BY <1>1, <1>6, ArrayUntouched
    <2>2. buffer' \in [Cells -> Char] /\ \A c \in Cells : buffer'[c] = Fill
      BY <2>1, GadgetAssumption
    <2> QED
      BY <1>1, <1>2, <1>3, <1>6, <2>2 DEF O!ReturnUncounted
  <1> QED
    BY <1>5, <1>6

\* The variables of a gadget keep their types.
THEOREM GadgetTypeCorrect == GadgetSpec => []GadgetTypeOK
  <1>1. GadgetInv => GadgetTypeOK
    BY DEF GadgetInv
  <1> QED
    BY GadgetInvInit, GadgetInvNext, <1>1, PTL DEF GadgetSpec

\* vsnprintf_impl over any gadget, for texts of every length: an array ends as
\* the longest terminated prefix of the text, a function hears its first INT_MAX
\* characters, and the value returned is its length, as an int; when the text is
\* longer than an unsigned int can count, the array is still terminated and
\* nothing behind it is touched.
THEOREM GadgetKeepsPromise == GadgetSpec => OutputSpec
  <1>1. GadgetInv /\ [GadgetNext]_gvars => [O!Next]_(O!ovars)
    <2> SUFFICES ASSUME GadgetInv, [GadgetNext]_gvars PROVE [O!Next]_(O!ovars)
      OBVIOUS
    <2>1. CASE Finish
      BY <2>1, RefinesFinish, RefinesUncounted DEF O!Next
    <2>2. ASSUME NEW ch \in Char, Put(ch) PROVE O!Next
      BY <2>2, RefinesPut DEF O!Next
    <2>3. CASE UNCHANGED gvars
      BY <2>3 DEF gvars, O!ovars
    <2> QED
      BY <2>1, <2>2, <2>3 DEF GadgetNext
  <1> QED
    BY GadgetInvInit, GadgetInvNext, RefinesInit, <1>1, PTL
    DEF GadgetSpec, OutputSpec, O!Spec

-----------------------------------------------------------------------------
(* The format loop *)

\* The buffer has room while digits are still to come.
DigitsInv ==
    /\ FormatTypeOK
    /\ IntegerBufferBounded
    /\ stage = "digits" => Len(buf) < PRINTF_INTEGER_BUFFER_SIZE

\* The parts of the assumption on the constants.
LEMMA ConstantSizes ==
    /\ PRINTF_INTEGER_BUFFER_SIZE \in Nat \ {0}
    /\ PtrSize \in Nat \ {0}
    /\ {CharMod, ShortMod, IntMod, LongMod, LongLongMod} \subseteq Nat \ {0}
  BY PrintfAssumption, IntRange

\* Every character the loop writes by itself is a character.
LEMMA OwnCharacters ==
    /\ \A i \in 1..16 : LowerDigits[i] \in Char /\ UpperDigits[i] \in Char
    /\ {"0", "b", " ", "+", "-", "x", "X", ")", "l", "u", "n", "i", "("} \subseteq Char
  <1>1. \A i \in 1..16 : LowerDigits[i] \in Char /\ UpperDigits[i] \in Char
    BY PrintfAssumption
  <1>2. LowerDigits[1] \in Char /\ LowerDigits[12] \in Char
    BY <1>1
  <1>3. LowerDigits[1] = "0" /\ LowerDigits[12] = "b"
    BY DEF LowerDigits
  <1>4. "0" \in Char /\ "b" \in Char
    BY <1>2, <1>3
  <1>5. {" ", "+", "-", "x", "X", ")", "l", "u", "n", "i", "("} \subseteq Char
    BY PrintfAssumption
  <1> QED
    BY <1>1, <1>4, <1>5

\* Converting to a remainder and raising to a magnitude stay natural.
LEMMA RemainderInRange ==
    ASSUME NEW n \in Int, NEW m \in Nat \ {0}
    PROVE  n % m \in 0..(m - 1)
  OBVIOUS

\* A conversion to a signed type is an integer.
LEMMA ToSignedType ==
    ASSUME NEW n \in Int, NEW m \in Nat \ {0}
    PROVE  ToSigned(n, m) \in Int
  <1>1. n % m \in Int
    BY RemainderInRange
  <1> QED
    BY <1>1 DEF ToSigned

\* The character under the cursor is a character of the format or its NUL.
LEMMA CurrentType ==
    ASSUME FormatTypeOK
    PROVE  C \in Char
  <1>1. call.format \in Seq(Char) /\ at \in Nat \ {0}
    BY DEF FormatTypeOK
  <1> QED
    BY <1>1, GadgetAssumption DEF C

\* Padding is a sequence of its character, empty for a negative length.
LEMMA RepeatType ==
    ASSUME NEW c \in Char, NEW n \in Int
    PROVE  /\ Repeat(c, n) \in Seq(Char)
           /\ Len(Repeat(c, n)) = IF n > 0 THEN n ELSE 0
  <1> DEFINE k == IF n > 0 THEN n ELSE 0
  <1>1. k \in Nat
    OBVIOUS
  <1>2. Repeat(c, n) \in [1..k -> Char]
    BY DEF Repeat
  <1> HIDE DEF k
  <1>3. Repeat(c, n) \in Seq(Char)
    BY <1>1, <1>2
  <1>4. Len(Repeat(c, n)) = k
    BY <1>1, <1>2, <1>3
  <1> QED
    BY <1>3, <1>4 DEF k

\* Reversing keeps length and characters.
LEMMA ReversedType ==
    ASSUME NEW s \in Seq(Char)
    PROVE  Reversed(s) \in Seq(Char)
  <1>1. Len(s) \in Nat /\ \A i \in 1..Len(s) : s[i] \in Char
    OBVIOUS
  <1>2. \A i \in 1..Len(s) : (Len(s) + 1) - i \in 1..Len(s)
    BY <1>1
  <1>3. Reversed(s) \in [1..Len(s) -> Char]
    BY <1>1, <1>2 DEF Reversed
  <1> QED
    BY <1>1, <1>3

\* Joining two texts gives a text of both lengths.
LEMMA JoinedType ==
    ASSUME NEW s \in Seq(Char), NEW t \in Seq(Char)
    PROVE  s \o t \in Seq(Char) /\ Len(s \o t) = Len(s) + Len(t)
  BY ConcatProperties

\* What fits the conversion buffer.
Bounded(b) == b \in Seq(Char) /\ Len(b) <= PRINTF_INTEGER_BUFFER_SIZE

\* Leading zeros never leave the buffer, and are never taken from it.
LEMMA ZerosToBounded ==
    ASSUME NEW b, Bounded(b), NEW n \in Nat
    PROVE  Bounded(ZerosTo(b, n)) /\ Len(ZerosTo(b, n)) >= Len(b)
  <1> DEFINE goal == IF n < PRINTF_INTEGER_BUFFER_SIZE THEN n ELSE PRINTF_INTEGER_BUFFER_SIZE
             pad  == Repeat("0", goal - Len(b))
  <1>1. goal \in Nat /\ goal <= PRINTF_INTEGER_BUFFER_SIZE /\ Len(b) \in Nat
        /\ PRINTF_INTEGER_BUFFER_SIZE \in Nat
    BY ConstantSizes DEF Bounded
  <1>2. "0" \in Char
    BY OwnCharacters
  <1>3. ZerosTo(b, n) = b \o pad
    BY DEF ZerosTo
  <1> HIDE DEF goal
  <1>4. goal - Len(b) \in Int
    BY <1>1
  <1>5. pad \in Seq(Char) /\ Len(pad) = IF goal - Len(b) > 0 THEN goal - Len(b) ELSE 0
    BY <1>2, <1>4, RepeatType
  <1> HIDE DEF pad
  <1>6. b \o pad \in Seq(Char) /\ Len(b \o pad) = Len(b) + Len(pad)
    BY <1>5, JoinedType DEF Bounded
  <1> QED
    BY <1>1, <1>3, <1>5, <1>6 DEF Bounded

\* One more character goes in only where there is room.
LEMMA AddCharBounded ==
    ASSUME NEW b, Bounded(b), NEW c \in Char
    PROVE  Bounded(AddChar(b, c))
  BY ConstantSizes DEF Bounded, AddChar

\* A part of a buffer is a buffer.
LEMMA PrefixBounded ==
    ASSUME NEW b, Bounded(b), NEW n \in 0..Len(b)
    PROVE  Bounded(SubSeq(b, 1, n))
  <1>1. SubSeq(b, 1, n) \in Seq(Char) /\ Len(SubSeq(b, 1, n)) = n
    BY SubSeqProperties DEF Bounded
  <1> QED
    BY <1>1, ConstantSizes DEF Bounded

\* The digits and their zeros stay in the buffer, and none of the digits is lost.
LEMMA PaddedBounded ==
    ASSUME DigitsInv
    PROVE  Bounded(Padded) /\ Len(Padded) >= Len(buf)
  <1>1. Bounded(buf)
    BY DEF DigitsInv, FormatTypeOK, IntegerBufferBounded, Bounded
  <1>2. width \in Nat /\ precision \in Nat
    BY DEF DigitsInv, FormatTypeOK
  <1>3. DigitsWidth \in Nat
    BY <1>2 DEF DigitsWidth
  <1> DEFINE first == IF flags \cap {"LEFT", "ZEROPAD"} = {"ZEROPAD"}
                      THEN ZerosTo(buf, DigitsWidth) ELSE buf
  <1>4. Bounded(first) /\ Len(first) >= Len(buf)
    <2>1. Bounded(ZerosTo(buf, DigitsWidth)) /\ Len(ZerosTo(buf, DigitsWidth)) >= Len(buf)
      BY <1>1, <1>3, ZerosToBounded
    <2>2. Len(buf) \in Nat
      BY <1>1 DEF Bounded
    <2> QED
      BY <1>1, <2>1, <2>2
  <1>5. Padded = ZerosTo(first, precision)
    BY DEF Padded
  <1> HIDE DEF first
  <1>6. Bounded(ZerosTo(first, precision)) /\ Len(ZerosTo(first, precision)) >= Len(first)
    BY <1>2, <1>4, ZerosToBounded
  <1>7. Len(first) \in Nat /\ Len(buf) \in Nat /\ Len(ZerosTo(first, precision)) \in Nat
    BY <1>1, <1>4, <1>6 DEF Bounded
  <1> QED
    BY <1>4, <1>5, <1>6, <1>7

\* Only zeros are taken back for a prefix, and what goes in fits.
LEMMA PrefixedBounded ==
    ASSUME DigitsInv
    PROVE  Bounded(Prefixed)
  <1>1. Bounded(Padded) /\ Len(Padded) >= Len(buf) /\ Len(Padded) \in Nat /\ Len(buf) \in Nat
    BY PaddedBounded DEF Bounded, DigitsInv, FormatTypeOK
  <1> DEFINE n    == Len(Padded) - TakenBack
             kept == SubSeq(Padded, 1, n)
  <1>2. n \in 0..Len(Padded)
    <2> HIDE DEF Padded
    <2> QED
      BY <1>1 DEF TakenBack
  <1>3. Bounded(kept)
    BY <1>1, <1>2, PrefixBounded
  <1>4. Bounded(AddLetter(kept))
    <2> HIDE DEF kept
    <2>1. ASSUME NEW c \in {"x", "X", "b"} PROVE Bounded(AddChar(kept, c))
      BY <1>3, AddCharBounded, OwnCharacters
    <2> QED
      BY <1>3, <2>1 DEF AddLetter
  <1>5. Bounded(AddChar(AddLetter(kept), "0"))
    <2> HIDE DEF kept
    <2> QED
      BY <1>4, AddCharBounded, OwnCharacters
  <1> QED
    BY <1>1, <1>5 DEF Prefixed

\* The whole number fits the buffer.
LEMMA SignedBounded ==
    ASSUME DigitsInv
    PROVE  Bounded(Signed)
  <1>1. Bounded(Prefixed)
    BY PrefixedBounded
  <1>2. ASSUME NEW c \in {"-", "+", " "} PROVE Bounded(AddChar(Prefixed, c))
    BY <1>1, AddCharBounded, OwnCharacters
  <1> QED
    BY <1>1, <1>2 DEF Signed

\* Padding before or behind a text leaves a text.
LEMMA FieldType ==
    ASSUME NEW s \in Seq(Char), NEW n \in Int
    PROVE  s \o Repeat(" ", n) \in Seq(Char) /\ Repeat(" ", n) \o s \in Seq(Char)
  <1>1. Repeat(" ", n) \in Seq(Char)
    BY RepeatType, OwnCharacters
  <1> QED
    BY <1>1, JoinedType

\* out_rev_ makes a text of a text.
LEMMA OutRevType ==
    ASSUME NEW b \in Seq(Char), NEW w \in Nat
    PROVE  OutRev(b, w) \in Seq(Char)
  <1>1. Reversed(b) \in Seq(Char) /\ w - Len(b) \in Int
    BY ReversedType
  <1> QED
    BY <1>1, FieldType DEF OutRev

\* The fields of %c and %s are texts.
LEMMA PaddedFieldType ==
    ASSUME FormatTypeOK, NEW s \in Seq(Char), NEW l \in Nat
    PROVE  Field(s, l) \in Seq(Char)
  <1>1. width - l \in Int
    BY DEF FormatTypeOK
  <1> QED
    BY <1>1, FieldType DEF Field

\* The fixed texts of the null pointer are texts.
LEMMA NullTexts ==
    /\ <<")", "l", "l", "u", "n", "(">> \in Seq(Char)
    /\ <<")", "l", "i", "n", "(">> \in Seq(Char)
  <1>1. ")" \in Char /\ "l" \in Char /\ "u" \in Char /\ "n" \in Char /\ "i" \in Char
        /\ "(" \in Char
    BY OwnCharacters
  <1> QED
    BY <1>1

\* A string shown to its precision is a text, and its length is counted as one.
LEMMA ShownType ==
    ASSUME FormatTypeOK, NEW s \in Seq(Char)
    PROVE  Shown(s) \in Seq(Char) /\ CountedLength(s) \in Nat
  <1>1. precision \in Nat /\ Len(s) \in Nat /\ PRINTF_MAX_POSSIBLE_BUFFER_SIZE \in Nat
    BY GadgetAssumption DEF FormatTypeOK
  <1>2. Strnlen(s, precision) \in 0..Len(s)
    BY <1>1 DEF Strnlen
  <1>3. SubSeq(s, 1, Strnlen(s, precision)) \in Seq(Char)
    BY <1>2, SubSeqProperties
  <1>4. CountedLength(s) \in Nat
    BY <1>1 DEF CountedLength, Strnlen
  <1> QED
    BY <1>3, <1>4 DEF Shown

\* Every type of argument has a width.
LEMMA ArgModType == ArgMod \in Nat \ {0}
  BY ConstantSizes DEF ArgMod

\* A magnitude is a natural number, the one of the least value included.
LEMMA MagnitudeType ==
    ASSUME NEW n \in Int
    PROVE  ABS_FOR_PRINTING(n) \in Nat
  <1>1. -n \in Int /\ LongLongMod \in Nat \ {0}
    BY ConstantSizes
  <1>2. (-n) % LongLongMod \in Nat
    BY <1>1, RemainderInRange
  <1> QED
    BY <1>2 DEF ABS_FOR_PRINTING

\* The names of the places in the loop.
LEMMA StageNames ==
    /\ DOMAIN Accepts = {"flags", "width", "width_digits", "dot", "precision",
                         "precision_digits", "minus", "length", "long", "short"}
    /\ \A s \in DOMAIN Accepts : Following[s] \in Stages \ {"digits"}
    /\ {"flags", "width", "width_digits", "dot", "precision", "precision_digits", "minus",
        "length", "long", "short", "content", "specifier", "digits", "finish", "nil", "emit",
        "terminate", "returned", "past_end"} = Stages
  BY DEF Accepts, Following, Stages

\* Advancing moves the cursor, and never into print_integer.
LEMMA AdvanceType ==
    ASSUME FormatTypeOK, NEW next \in Stages \ {"digits"}, Advance(next)
    PROVE  at' \in Nat \ {0} /\ stage' \in Stages \ {"digits"}
  BY StageNames DEF FormatTypeOK, Advance

\* The tables map characters to digits and flags.
LEMMA TableTypes ==
    /\ \A c \in DigitChars : DigitOf[c] \in 0..9
    /\ \A c \in DOMAIN FlagOf : FlagOf[c] \in Flags
    /\ \A c \in DOMAIN LengthOf : LengthOf[c] \in Flags
  <1>1. ASSUME NEW c \in DigitChars PROVE DigitOf[c] \in 0..9
    <2>1. PICK i \in 1..10 : c = Digits[i]
      BY DEF DigitChars
    <2>2. i - 1 \in 0..9 /\ Digits[(i - 1) + 1] = c
      BY <2>1
    <2>3. DigitOf[c] = CHOOSE d \in 0..9 : Digits[d + 1] = c
      BY DEF DigitOf
    <2> QED
      BY <2>2, <2>3
  <1>2. \A c \in DOMAIN FlagOf : FlagOf[c] \in Flags
    BY DEF FlagOf, Flags
  <1>3. SizeFlag \in Flags /\ IntmaxFlag \in Flags
    BY PrintfAssumption DEF Flags
  <1>4. \A c \in DOMAIN LengthOf : LengthOf[c] \in Flags
    BY <1>3 DEF LengthOf, Flags
  <1> QED
    BY <1>1, <1>2, <1>4

\* A field of the specifier keeps the types; none of them touches the buffer.
LEMMA FieldsInv ==
    ASSUME DigitsInv, Fields
    PROVE  DigitsInv' /\ UNCHANGED gvars
  <1> SUFFICES /\ at' \in Nat \ {0} /\ stage' \in Stages \ {"digits"}
               /\ flags' \subseteq Flags /\ width' \in Nat /\ precision' \in Nat
               /\ UNCHANGED <<gvars, call, number, todo>>
    BY DEF DigitsInv, FormatTypeOK, IntegerBufferBounded, number
  <1>1. FormatTypeOK /\ at \in Nat \ {0} /\ stage \in Stages /\ flags \subseteq Flags
        /\ width \in Nat /\ precision \in Nat
    BY DEF DigitsInv, FormatTypeOK
  <1>2. {"LEFT", "PRECISION", "LONG_LONG", "CHAR"} \subseteq Flags
    BY DEF Flags
  <1>3. ASSUME NEW n \in Nat, NEW c \in DigitChars
        PROVE  (n * 10 + DigitOf[c]) % IntMod \in Nat
    <2>1. n * 10 + DigitOf[c] \in Int /\ IntMod \in Nat \ {0}
      BY TableTypes, ConstantSizes
    <2>2. (n * 10 + DigitOf[c]) % IntMod \in 0..(IntMod - 1)
      BY <2>1, RemainderInRange
    <2> QED
      BY <2>1, <2>2
  <1>4. CASE Percent
    BY <1>1, <1>4, AdvanceType, StageNames DEF Percent
  <1>5. CASE NextField
    BY <1>1, <1>5, StageNames DEF NextField, spec
  <1>6. CASE ParseFlag
    <2>1. FlagOf[C] \in Flags
      <3>1. Accepts.flags = DOMAIN FlagOf
        BY DEF Accepts
      <3>2. C \in Accepts.flags
        BY <1>6 DEF ParseFlag
      <3> QED
        BY <3>1, <3>2, TableTypes
    <2> QED
      BY <1>1, <1>6, <2>1, StageNames DEF ParseFlag
  <1>7. CASE WidthDigit
    BY <1>1, <1>3, <1>7, StageNames DEF WidthDigit
  <1>8. CASE WidthStar
    BY <1>1, <1>2, <1>8, AdvanceType, StageNames DEF WidthStar, Taking, IsInt
  <1>9. CASE Dot
    BY <1>1, <1>2, <1>9, AdvanceType, StageNames DEF Dot
  <1>10. CASE PrecisionDigit
    BY <1>1, <1>3, <1>10, StageNames DEF PrecisionDigit
  <1>11. CASE PrecisionMinus
    BY <1>1, <1>2, <1>11, AdvanceType, StageNames DEF PrecisionMinus
  <1>12. CASE PrecisionStar
    BY <1>1, <1>2, <1>12, AdvanceType, StageNames DEF PrecisionStar, Taking, IsInt
  <1>13. CASE Length
    <2>1. LengthOf[C] \in Flags
      BY <1>13, TableTypes DEF Length
    <2>2. \E next \in {"long", "short", "specifier"} : Advance(next)
      BY <1>13 DEF Length
    <2> QED
      BY <1>1, <1>13, <2>1, <2>2, AdvanceType, StageNames DEF Length
  <1>14. CASE LengthTwice
    BY <1>1, <1>2, <1>14, AdvanceType, StageNames DEF LengthTwice
  <1> QED
    BY <1>4, <1>5, <1>6, <1>7, <1>8, <1>9, <1>10, <1>11, <1>12, <1>13, <1>14 DEF Fields

\* The start of an integer: an empty buffer, and a magnitude to print.
LEMMA IntegerInv ==
    ASSUME DigitsInv, Integer
    PROVE  DigitsInv' /\ UNCHANGED gvars
  <1>1. IntegerFlags(C) \subseteq Flags
    BY DEF IntegerFlags, DigitsInv, FormatTypeOK, Flags
  <1>2. BaseOf(C) \in {2, 8, 10, 16}
    BY DEF BaseOf
  <1>3. at' \in Nat \ {0}
    BY DEF Integer, DigitsInv, FormatTypeOK
  <1> DEFINE n == IF C \in SignedChars THEN ToSigned(Head(args), ArgMod)
                                       ELSE Head(args) % ArgMod
  <1>4. n \in Int
    <2>1. Head(args) \in Int
      BY DEF Integer, Taking, IsInt
    <2>2. ArgMod \in Nat \ {0}
      BY ArgModType
    <2>4. Head(args) % ArgMod \in 0..(ArgMod - 1)
      BY <2>1, <2>2, RemainderInRange, Zenon
    <2>3. ToSigned(Head(args), ArgMod) \in Int
      BY <2>1, <2>2, ToSignedType, Zenon
    <2> QED
      BY <2>2, <2>3, <2>4
  <1>5. value' = ABS_FOR_PRINTING(n) /\ negative' = (n < 0)
    BY DEF Integer
  <1> HIDE DEF n
  <1>6. value' \in Nat
    BY <1>4, <1>5, MagnitudeType
  <1>7. negative' \in BOOLEAN
    BY <1>5
  <1>8. stage' = "digits" /\ stage' \in Stages /\ buf' = <<>>
    BY StageNames DEF Integer
  <1>9. Len(buf') < PRINTF_INTEGER_BUFFER_SIZE
    BY <1>8, ConstantSizes
  <1>10. base' \in {2, 8, 10, 16}
    BY <1>2 DEF Integer
  <1>11. flags' \subseteq Flags
    BY <1>1 DEF Integer
  <1>12. buf' \in Seq(Char)
    BY <1>8
  <1>13. UNCHANGED <<gvars, call, width, precision, todo>>
    BY DEF Integer
  <1> QED
    BY <1>3, <1>6, <1>7, <1>8, <1>9, <1>10, <1>11, <1>12, <1>13, ConstantSizes
    DEF DigitsInv, FormatTypeOK, IntegerBufferBounded

\* One digit goes into a buffer that had room, and leaves a smaller number.
LEMMA DigitInv ==
    ASSUME DigitsInv, Digit
    PROVE  DigitsInv' /\ UNCHANGED gvars
  <1>1. value \in Nat /\ base \in {2, 8, 10, 16} /\ buf \in Seq(Char)
        /\ Len(buf) < PRINTF_INTEGER_BUFFER_SIZE
    BY DEF DigitsInv, FormatTypeOK, Digit
  <1> DEFINE d == (IF "UPPERCASE" \in flags THEN UpperDigits ELSE LowerDigits)[(value % base) + 1]
  <1>2. d \in Char
    <2>1. value % base \in 0..(base - 1)
      BY <1>1, RemainderInRange
    <2>2. (value % base) + 1 \in 1..16
      BY <1>1, <2>1
    <2> QED
      BY <2>2, OwnCharacters
  <1>3. buf' = Append(buf, d)
    BY DEF Digit
  <1> HIDE DEF d
  <1>4. buf' \in Seq(Char) /\ Len(buf') = Len(buf) + 1
    BY <1>1, <1>2, <1>3
  <1>5. value' \in Nat
    BY <1>1 DEF Digit
  <1>6. /\ stage' \in Stages
        /\ stage' = "digits" => Len(buf') < PRINTF_INTEGER_BUFFER_SIZE
    BY StageNames DEF Digit
  <1>7. Len(buf') <= PRINTF_INTEGER_BUFFER_SIZE
    BY <1>1, <1>4, ConstantSizes
  <1>8. UNCHANGED <<gvars, call, at, args, spec, base, negative, todo>>
    BY DEF Digit
  <1> QED
    BY <1>4, <1>5, <1>6, <1>7, <1>8 DEF DigitsInv, FormatTypeOK, IntegerBufferBounded, spec

\* The single digit of zero always has room.
LEMMA ZeroDigitInv ==
    ASSUME DigitsInv, ZeroDigit
    PROVE  DigitsInv' /\ UNCHANGED gvars
  <1>0. "0" \in Char
    BY OwnCharacters
  <1>1. <<"0">> \in Seq(Char) /\ Len(<<"0">>) = 1
    BY <1>0
  <1>2. buf' \in Seq(Char) /\ Len(buf') <= PRINTF_INTEGER_BUFFER_SIZE
    BY <1>1, ConstantSizes DEF ZeroDigit, DigitsInv, FormatTypeOK, IntegerBufferBounded
  <1>3. stage' \in Stages /\ stage' # "digits"
    BY StageNames DEF ZeroDigit
  <1>4. flags' \subseteq Flags
    BY DEF ZeroDigit, DigitsInv, FormatTypeOK
  <1>5. UNCHANGED <<gvars, call, at, width, precision, base, negative, value, todo>>
    BY DEF ZeroDigit
  <1> QED
    BY <1>2, <1>3, <1>4, <1>5 DEF DigitsInv, FormatTypeOK, IntegerBufferBounded

\* Zeros, prefix and sign stay inside the buffer, and make a text.
LEMMA FinalizeInv ==
    ASSUME DigitsInv, Finalize
    PROVE  DigitsInv' /\ UNCHANGED gvars
  <1>1. buf' \in Seq(Char) /\ Len(buf') <= PRINTF_INTEGER_BUFFER_SIZE
    BY SignedBounded DEF Finalize, Bounded
  <1>2. DigitsWidth \in Nat
    BY DEF DigitsWidth, DigitsInv, FormatTypeOK
  <1>3. todo' \in Seq(Char)
    BY <1>2, SignedBounded, OutRevType DEF Finalize, Bounded
  <1>4. stage' \in Stages /\ stage' # "digits"
    BY StageNames DEF Finalize
  <1>5. UNCHANGED <<gvars, call, at, spec, base, negative, value>>
    BY DEF Finalize
  <1> QED
    BY <1>1, <1>3, <1>4, <1>5 DEF DigitsInv, FormatTypeOK, IntegerBufferBounded, spec

\* Characters, strings and the null pointer become texts of their own.
LEMMA TextsInv ==
    ASSUME DigitsInv, CharSpecifier \/ StringSpecifier \/ NilPointer
    PROVE  DigitsInv' /\ UNCHANGED gvars
  <1>1. FormatTypeOK /\ width \in Nat
    BY DEF DigitsInv, FormatTypeOK
  <1>2. todo' \in Seq(Char)
    <2>1. CASE CharSpecifier
      <3>1. <<Head(args)>> \in Seq(Char)
        BY <2>1 DEF CharSpecifier, Taking, IsChar
      <3> QED
        BY <1>1, <2>1, <3>1, PaddedFieldType DEF CharSpecifier
    <2>2. CASE StringSpecifier
      <3>1. Head(args) = NULL \/ Head(args) \in Seq(Char)
        BY <2>2 DEF StringSpecifier, Taking, IsString
      <3>2. OutRev(<<")", "l", "l", "u", "n", "(">>, width) \in Seq(Char)
        BY <1>1, NullTexts, OutRevType
      <3>3. Head(args) \in Seq(Char)
            => Field(Shown(Head(args)), CountedLength(Head(args))) \in Seq(Char)
        BY <1>1, ShownType, PaddedFieldType
      <3> QED
        BY <2>2, <3>1, <3>2, <3>3 DEF StringSpecifier
    <2>3. CASE NilPointer
      BY <1>1, <2>3, NullTexts, OutRevType DEF NilPointer
    <2> QED
      BY <2>1, <2>2, <2>3
  <1>3. at' \in Nat \ {0} /\ stage' \in Stages /\ stage' # "digits"
        /\ UNCHANGED <<gvars, call, spec, number>>
    BY <1>1, StageNames DEF CharSpecifier, StringSpecifier, NilPointer, FormatTypeOK
  <1> QED
    BY <1>2, <1>3 DEF DigitsInv, FormatTypeOK, IntegerBufferBounded, spec, number

\* A pointer is printed as a magnitude, from an empty buffer.
LEMMA PointerInv ==
    ASSUME DigitsInv, PointerSpecifier
    PROVE  DigitsInv' /\ UNCHANGED gvars
  <1>1. width' \in Nat /\ at' \in Nat \ {0} /\ flags' \subseteq Flags
    <2>1. /\ width' = (PtrSize * 2) + 2 /\ at' = at + 1
          /\ flags' = flags \cup {"ZEROPAD", "POINTER"}
      BY DEF PointerSpecifier
    <2>2. PtrSize \in Nat /\ at \in Nat /\ flags \subseteq Flags
      BY ConstantSizes DEF DigitsInv, FormatTypeOK
    <2>3. flags' \subseteq Flags
      BY <2>1, <2>2 DEF Flags
    <2> QED
      BY <2>1, <2>2, <2>3
  <1>2. UNCHANGED <<gvars, call, precision, todo>>
    BY DEF PointerSpecifier
  <1>3. CASE Head(args) = NULL
    <2>1. stage' \in Stages /\ stage' # "digits" /\ UNCHANGED number
      BY <1>3, StageNames DEF PointerSpecifier, number
    <2> QED
      BY <1>1, <1>2, <2>1 DEF DigitsInv, FormatTypeOK, IntegerBufferBounded, number
  <1>4. CASE Head(args) # NULL
    <2>1. Head(args) \in Nat /\ LongLongMod \in Nat \ {0}
      BY <1>4, ConstantSizes DEF PointerSpecifier, Taking, IsPointer
    <2>2. Head(args) % LongLongMod \in Nat
      BY <2>1, RemainderInRange
    <2>3. value' \in Nat /\ base' = 16 /\ negative' = FALSE /\ buf' = <<>>
          /\ stage' \in Stages
      BY <1>4, <2>2, StageNames DEF PointerSpecifier
    <2>4. buf' \in Seq(Char) /\ Len(buf') < PRINTF_INTEGER_BUFFER_SIZE
      BY <2>3, ConstantSizes
    <2> QED
      <3>1. Len(buf') <= PRINTF_INTEGER_BUFFER_SIZE
        BY <2>3, ConstantSizes
      <3> QED
        BY <1>1, <1>2, <2>3, <2>4, <3>1 DEF DigitsInv, FormatTypeOK, IntegerBufferBounded
  <1> QED
    BY <1>3, <1>4

\* What goes to the gadget is a character, one at a time; the loop's own
\* variables keep their types.
LEMMA PutsInv ==
    ASSUME DigitsInv, Content \/ Literal \/ Emit
    PROVE  DigitsInv' /\ \E ch \in Char : Put(ch)
  <1>1. C \in Char
    BY CurrentType DEF DigitsInv
  <1>2. CASE Content \/ Literal
    <2>1. at' \in Nat \ {0} /\ stage' \in Stages /\ stage' # "digits"
          /\ UNCHANGED <<call, spec, number, todo>>
      BY <1>2, StageNames DEF Content, Literal, DigitsInv, FormatTypeOK
    <2>2. Put(C)
      BY <1>2 DEF Content, Literal
    <2> QED
      BY <1>1, <2>1, <2>2 DEF DigitsInv, FormatTypeOK, IntegerBufferBounded, spec, number
  <1>3. CASE Emit
    <2>1. todo \in Seq(Char) /\ todo # <<>>
      BY <1>3 DEF Emit, DigitsInv, FormatTypeOK
    <2>2. Head(todo) \in Char /\ Tail(todo) \in Seq(Char)
      BY <2>1, HeadTailProperties
    <2>3. Put(Head(todo)) /\ todo' = Tail(todo)
          /\ UNCHANGED <<call, at, args, stage, spec, number>>
      BY <1>3 DEF Emit
    <2> QED
      BY <2>2, <2>3 DEF DigitsInv, FormatTypeOK, IntegerBufferBounded, spec, number
  <1> QED
    BY <1>2, <1>3

\* Leaving a conversion and leaving the call only move the stage.
LEMMA MovesInv ==
    ASSUME DigitsInv, Emitted \/ Return
    PROVE  DigitsInv' /\ (UNCHANGED gvars \/ Finish)
  <1>1. stage' \in Stages /\ stage' # "digits" /\ UNCHANGED <<call, at, args, spec, number, todo>>
        /\ (UNCHANGED gvars \/ Finish)
    BY StageNames DEF Emitted, Return
  <1> QED
    BY <1>1 DEF DigitsInv, FormatTypeOK, IntegerBufferBounded, spec, number

\* The loop starts with nothing to print.
LEMMA DigitsInvInit == Init => DigitsInv /\ GadgetInit
  <1> SUFFICES ASSUME Init PROVE DigitsInv
    BY DEF Init
  <1>1. Len(<<>>) = 0 /\ <<>> \in Seq(Char)
    OBVIOUS
  <1>2. stage \in Stages /\ stage # "digits"
    BY StageNames DEF Init
  <1>3. FormatTypeOK
    <2>1. call.format \in Seq(Char) /\ at = 1 /\ flags = {} /\ width = 0 /\ precision = 0
          /\ base = 10 /\ value = 0 /\ buf = <<>> /\ todo = <<>>
      BY CallsAssumption DEF Init
    <2>0. negative \in BOOLEAN
      BY DEF Init
    <2>2. buf \in Seq(Char) /\ todo \in Seq(Char)
      BY <1>1, <2>1
    <2>3. flags \subseteq Flags /\ width \in Nat /\ precision \in Nat /\ value \in Nat
          /\ base \in {2, 8, 10, 16} /\ at \in Nat \ {0}
      BY <2>1
    <2> QED
      BY <1>2, <2>0, <2>1, <2>2, <2>3 DEF FormatTypeOK
  <1>4. IntegerBufferBounded
    BY <1>1, ConstantSizes DEF Init, IntegerBufferBounded
  <1> QED
    BY <1>2, <1>3, <1>4 DEF DigitsInv

\* Every step keeps the invariant, and is a step of the gadget or leaves it alone.
LEMMA DigitsInvNext == DigitsInv /\ [Next]_vars => DigitsInv' /\ [GadgetNext]_gvars
  <1> SUFFICES ASSUME DigitsInv, [Next]_vars PROVE DigitsInv' /\ [GadgetNext]_gvars
    OBVIOUS
  <1>1. CASE Fields
    BY <1>1, FieldsInv
  <1>2. CASE Integer
    BY <1>2, IntegerInv
  <1>3. CASE ZeroDigit
    BY <1>3, ZeroDigitInv
  <1>4. CASE Digit
    BY <1>4, DigitInv
  <1>5. CASE Finalize
    BY <1>5, FinalizeInv
  <1>6. CASE CharSpecifier \/ StringSpecifier \/ NilPointer
    BY <1>6, TextsInv
  <1>7. CASE PointerSpecifier
    BY <1>7, PointerInv
  <1>8. CASE Content \/ Literal \/ Emit
    BY <1>8, PutsInv DEF GadgetNext
  <1>9. CASE Emitted \/ Return
    BY <1>9, MovesInv DEF GadgetNext
  <1>10. CASE UNCHANGED vars
    BY <1>10 DEF vars, pvars, spec, number, DigitsInv, FormatTypeOK, IntegerBufferBounded
  <1> QED
    BY <1>1, <1>2, <1>3, <1>4, <1>5, <1>6, <1>7, <1>8, <1>9, <1>10 DEF Next, Conversions

\* The variables of the format loop keep their types, whatever the format.
THEOREM FormatTypeCorrect == Spec => []FormatTypeOK
  <1>1. DigitsInv => FormatTypeOK
    BY DEF DigitsInv
  <1> QED
    BY DigitsInvInit, DigitsInvNext, <1>1, PTL DEF Spec

\* The buffer of print_integer is never overrun: not by the digits of a number
\* of any width in any base, not by zeros for any width or precision, not by
\* prefix and sign.
THEOREM IntegerBufferSafe == Spec => []IntegerBufferBounded
  <1>1. DigitsInv => IntegerBufferBounded
    BY DEF DigitsInv
  <1> QED
    BY DigitsInvInit, DigitsInvNext, <1>1, PTL DEF Spec

\* Every call of the printf family does what Output says of its array, its function
\* and the value it returns: what printf.h promises for texts that an int can
\* count, a negative value for longer ones, and termination for the rest.
THEOREM PrintfKeepsPromise == Spec => OutputSpec
  <1>1. Spec => GadgetSpec
    BY DigitsInvInit, DigitsInvNext, PTL DEF Spec, GadgetSpec
  <1> QED
    BY <1>1, GadgetKeepsPromise

=============================================================================
