----------------------------------- MODULE Librv ----------------------------------
(***************************************************************************)
(* query_performance_counter and query_instruction_counter of               *)
(* sdk/librv/librv.h: a counter of two registers is read in two halves      *)
(* while it runs, and read again when the high half has changed meanwhile.  *)
(***************************************************************************)
EXTENDS Arch

VARIABLES
    counter,          \* the 64-bit counter
    at,               \* the next instruction of the loop, or where the program is
    hi, lo, hi2,      \* the three operands of the asm statement
    since             \* history: the counter when the loop was last begun

vars == <<counter, at, hi, lo, hi2, since>>

Counter == 0 .. RegMod * RegMod - 1

Init ==
    /\ counter \in Counter /\ since = counter
    /\ at \in {"out", "csrr hi"}
    /\ hi \in Word /\ lo \in Word /\ hi2 \in Word

\* The counter runs on, by any amount, during every instruction; a csrr reads it
\* somewhere in between.
Runs == counter' \in Counter /\ counter' >= counter

High(c) == c \div RegMod
Lower(c) == c % RegMod

ReadHi ==
    /\ at = "csrr hi" /\ at' = "csrr lo"
    /\ Runs /\ \E c \in counter .. counter' : hi' = High(c)
    /\ since' = counter
    /\ UNCHANGED <<lo, hi2>>

ReadLo ==
    /\ at = "csrr lo" /\ at' = "csrr hi2"
    /\ Runs /\ \E c \in counter .. counter' : lo' = Lower(c)
    /\ UNCHANGED <<hi, hi2, since>>

ReadHi2 ==
    /\ at = "csrr hi2" /\ at' = "bne"
    /\ Runs /\ \E c \in counter .. counter' : hi2' = High(c)
    /\ UNCHANGED <<hi, lo, since>>

Bne ==
    /\ at = "bne"
    /\ at' = IF hi # hi2 THEN "csrr hi" ELSE "return"
    /\ Runs
    /\ UNCHANGED <<hi, lo, hi2, since>>

\* The rest of the program.
Elsewhere ==
    /\ at \in {"return", "out"} /\ at' \in {"out", "csrr hi"}
    /\ Runs
    /\ hi' \in Word /\ lo' \in Word /\ hi2' \in Word
    /\ UNCHANGED since

Next == ReadHi \/ ReadLo \/ ReadHi2 \/ Bne \/ Elsewhere

Spec == Init /\ [][Next]_vars

-----------------------------------------------------------------------------
\* The value put together from the two halves: ((uint64_t)hi << 32) | lo.
Value == hi * RegMod + lo

\* The value returned is one the counter had during the last turn of the loop,
\* however far it runs between the reads: the halves belong together.
NotTorn == at = "return" => since <= Value /\ Value <= counter

=============================================================================
