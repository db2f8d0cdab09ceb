--------------------------------- MODULE Gadget ---------------------------------
(***************************************************************************)
(* output_gadget_t of sdk/librv/printf.c, from the entry points that build *)
(* one to the return of vsnprintf_impl.  What produces the characters is   *)
(* left open here: Put takes any of them, Printf says which.               *)
(***************************************************************************)
EXTENDS Integers, Sequences

CONSTANTS
    Char,                              \* characters, NUL among them
    NUL,
    Fill,                              \* what the array holds before the call
    Sizes,                             \* sizes a caller may give
    Cells,                             \* indices of the array and of memory behind it
    PRINTF_MAX_POSSIBLE_BUFFER_SIZE    \* INT_MAX

ASSUME GadgetAssumption ==
    /\ NUL \in Char
    /\ Fill \in Char
    /\ Sizes \subseteq Nat
    /\ PRINTF_MAX_POSSIBLE_BUFFER_SIZE \in Nat \ {0}
    /\ Cells \subseteq Nat
    /\ \A n \in Sizes, c \in 0..(PRINTF_MAX_POSSIBLE_BUFFER_SIZE - 1) : c < n => c \in Cells

\* 2^width of int, and of the unsigned int that printf_size_t is.
IntMod == 2 * (PRINTF_MAX_POSSIBLE_BUFFER_SIZE + 1)

\* n converted to the signed type of m values.
ToSigned(n, m) == IF (n % m) < (m \div 2) THEN n % m ELSE (n % m) - m

VARIABLES
    sink,         \* which of buffer and function is set, and in which entry point
    size,         \* the buffer size given by the caller
    pos,
    max_chars,
    buffer,       \* the caller's memory
    sent,         \* what the function received
    text,         \* every character given to putchar_via_gadget (history)
    running,
    result        \* what the call returned, 0 while it runs

gvars == <<sink, size, pos, max_chars, buffer, sent, text, running, result>>

\* vsnprintf and vsprintf with an array or with NULL; vprintf and vfctprintf
\* with a function; vfctprintf with NULL.
Sinks == {"buffer", "null", "function", "none"}

\* Mutant: one more character than the array has.
MaxCharsPlusNul(s, n) ==
    CASE s = "function" -> PRINTF_MAX_POSSIBLE_BUFFER_SIZE
      [] s = "buffer"   -> IF n >= PRINTF_MAX_POSSIBLE_BUFFER_SIZE
                           THEN PRINTF_MAX_POSSIBLE_BUFFER_SIZE ELSE n + 1
      [] OTHER          -> 0

\* Mutant: the place of the NUL is taken off at once.
MaxCharsWithoutNul(s, n) ==
    CASE s = "function" -> PRINTF_MAX_POSSIBLE_BUFFER_SIZE
      [] s = "buffer"   -> IF n > PRINTF_MAX_POSSIBLE_BUFFER_SIZE
                           THEN PRINTF_MAX_POSSIBLE_BUFFER_SIZE ELSE n - 1
      [] OTHER          -> 0

\* max_chars as buffer_gadget and function_gadget set it.
MaxChars(s, n) ==
    CASE s = "function" -> PRINTF_MAX_POSSIBLE_BUFFER_SIZE
      [] s = "buffer"   -> IF n > PRINTF_MAX_POSSIBLE_BUFFER_SIZE
                           THEN PRINTF_MAX_POSSIBLE_BUFFER_SIZE ELSE n
      [] OTHER          -> 0

\* vfctprintf returns 0 at once when it has no function.
GadgetInit ==
    /\ sink \in Sinks
    /\ size \in Sizes
    /\ pos = 0
    /\ max_chars = MaxChars(sink, size)
    /\ buffer = [c \in Cells |-> Fill]
    /\ sent = <<>>
    /\ text = <<>>
    /\ running = (sink # "none")
    /\ result = 0

\* Mutant: a full gadget stops counting.
PutStopsCounting(c) ==
    /\ running
    /\ pos' = IF pos < max_chars THEN (pos + 1) % IntMod ELSE pos
    /\ text' = Append(text, c)
    /\ sent' = IF pos < max_chars /\ sink = "function" THEN Append(sent, c) ELSE sent
    /\ buffer' = IF pos < max_chars /\ sink = "buffer"
                 THEN [buffer EXCEPT ![pos] = c] ELSE buffer
    /\ UNCHANGED <<sink, size, max_chars, running, result>>

\* putchar_via_gadget: pos always advances, and comes round as an unsigned int
\* does; a full gadget drops the character.
Put(c) ==
    /\ running
    /\ pos' = (pos + 1) % IntMod
    /\ text' = Append(text, c)
    /\ sent' = IF pos < max_chars /\ sink = "function" THEN Append(sent, c) ELSE sent
    /\ buffer' = IF pos < max_chars /\ sink # "function"
                 THEN [buffer EXCEPT ![pos] = c] ELSE buffer
    /\ UNCHANGED <<sink, size, max_chars, running, result>>

null_char_pos == IF pos < max_chars THEN pos ELSE max_chars - 1

\* append_termination_with_gadget
Terminated == IF sink \in {"function", "null"} \/ max_chars = 0 THEN buffer
              ELSE [buffer EXCEPT ![null_char_pos] = NUL]

\* Mutant: the value returned is cut off at the greatest int.
FinishSaturated ==
    /\ running
    /\ buffer' = Terminated
    /\ result' = IF pos > PRINTF_MAX_POSSIBLE_BUFFER_SIZE
                 THEN PRINTF_MAX_POSSIBLE_BUFFER_SIZE ELSE pos
    /\ running' = FALSE
    /\ UNCHANGED <<sink, size, pos, max_chars, sent, text>>

\* The end of vsnprintf_impl, with the conversion of pos to int.
Finish ==
    /\ running
    /\ buffer' = Terminated
    /\ result' = ToSigned(pos, IntMod)
    /\ running' = FALSE
    /\ UNCHANGED <<sink, size, pos, max_chars, sent, text>>

GadgetNext == Finish \/ \E c \in Char : Put(c)

GadgetSpec == GadgetInit /\ [][GadgetNext]_gvars

-----------------------------------------------------------------------------

\* Types of the variables of the gadget.
GadgetTypeOK ==
    /\ sink \in Sinks
    /\ size \in Nat
    /\ pos \in 0..(IntMod - 1)
    /\ max_chars \in 0..PRINTF_MAX_POSSIBLE_BUFFER_SIZE
    /\ buffer \in [Cells -> Char]
    /\ sent \in Seq(Char)
    /\ text \in Seq(Char)
    /\ running \in BOOLEAN
    /\ result \in -(PRINTF_MAX_POSSIBLE_BUFFER_SIZE + 1)..PRINTF_MAX_POSSIBLE_BUFFER_SIZE

O == INSTANCE Output WITH
        Max  <- PRINTF_MAX_POSSIBLE_BUFFER_SIZE,
        dest <- IF running THEN [c \in Cells |-> Fill] ELSE buffer,
        heard <- sent

\* What a caller of the printf family can rely on (snprintf_, fctprintf).  An
\* array ends as the longest terminated prefix of the text; a function hears the
\* first INT_MAX characters of it, each once and in order; the value returned
\* is the length of the text without any limit if an int can hold it, and
\* negative if an unsigned int still can.  Of longer texts only this is left:
\* the array is terminated, and memory behind its size is untouched.
OutputSpec == O!Spec

=============================================================================
