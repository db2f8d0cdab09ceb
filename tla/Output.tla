--------------------------------- MODULE Output ---------------------------------
(***************************************************************************)
(* What a call of the printf family does for its caller (sdk/librv/        *)
(* printf.h), without a cursor or a buffer on the way: the text grows, an  *)
(* output function hears it at once, and at the return the array of the    *)
(* caller holds as much of it as fits, always terminated.  Lengths are     *)
(* counted in an unsigned int and returned as an int, so the promise is    *)
(* that of printf.h up to the greatest int, and ends with the count.       *)
(***************************************************************************)
EXTENDS Integers, Sequences

CONSTANTS Char, NUL, Cells, Fill,
    Max                              \* the greatest int

VARIABLES
    sink,        \* "buffer", "null" (no array), "function" or "none" (no function)
    size,        \* the size the caller gave for the array
    text,        \* every character produced
    dest,        \* the array and the memory behind it
    heard,       \* what the output function was given
    running,     \* the call has not returned
    result       \* the value returned, 0 before the return

ovars == <<sink, size, text, dest, heard, running, result>>

\* The values of an int.
Ints == -(Max + 1)..Max

\* An unsigned int can count the text.
Counted == Len(text) < 2 * (Max + 1)

\* A count as an int.
Count == IF Len(text) <= Max THEN Len(text) ELSE Len(text) - (2 * (Max + 1))

\* The number of characters that may be kept.
Usable == IF size > Max THEN Max ELSE size

\* The characters of the text that stay in the array.
Kept == IF Len(text) < Usable THEN Len(text) ELSE Usable - 1

\* The array as much of the text as fits, a NUL, and old memory behind it.
Truncated == [c \in Cells |-> IF c < Kept THEN text[c + 1]
                              ELSE IF c = Kept THEN NUL ELSE Fill]

Init ==
    /\ sink \in {"buffer", "null", "function", "none"}
    /\ size \in Nat
    /\ text = <<>>
    /\ dest = [c \in Cells |-> Fill]
    /\ heard = <<>>
    /\ running = (sink # "none")
    /\ result = 0

\* A function is given no more characters than an int can count.
Say(c) ==
    /\ running
    /\ text' = Append(text, c)
    /\ \/ heard' = Append(heard, c) /\ sink = "function" /\ (Counted => Len(text) < Max)
       \/ heard' = heard /\ ~ (sink = "function" /\ Len(text) < Max)
    /\ UNCHANGED <<sink, size, dest, running, result>>

\* The text is as long as an unsigned int can count, or shorter.
Return ==
    /\ running /\ Counted
    /\ result' = Count
    /\ dest' = IF sink = "buffer" /\ size > 0 THEN Truncated ELSE dest
    /\ running' = FALSE
    /\ UNCHANGED <<sink, size, text, heard>>

\* The count has been lost; a string is left in the array, and nothing behind it.
ReturnUncounted ==
    /\ running /\ ~ Counted
    /\ result' \in Ints
    /\ dest' \in [Cells -> Char]
    /\ sink = "buffer" /\ size > 0 => \E c \in Cells : c < Usable /\ dest'[c] = NUL
    /\ \A c \in Cells : sink # "buffer" \/ c >= Usable => dest'[c] = Fill
    /\ running' = FALSE
    /\ UNCHANGED <<sink, size, text, heard>>

Next == Return \/ ReturnUncounted \/ \E c \in Char : Say(c)

Spec == Init /\ [][Next]_ovars

=============================================================================
