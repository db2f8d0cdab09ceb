--------------------------------- MODULE Printf ---------------------------------
(***************************************************************************)
(* format_string_loop of sdk/librv/printf.c as printf_config.h compiles    *)
(* it: no floating point, no %n, no MSVC sizes.  One call per behaviour.   *)
(* stage is the place in the loop; every read of *format is at `at`; the   *)
(* characters a conversion has ready wait in todo and pass through the     *)
(* gadget one by one.                                                      *)
(***************************************************************************)
EXTENDS Gadget, FiniteSets

CONSTANTS
    Calls,                        \* records with a format and its args
    NULL,                         \* the null pointer as an argument
    CharMod, ShortMod, LongMod, LongLongMod,   \* 2^width of each type but int
    PtrSize,                      \* sizeof(void*)
    SizeFlag, IntmaxFlag,         \* flags of the lengths z and t, and of j
    PRINTF_INTEGER_BUFFER_SIZE

Digits     == <<"0", "1", "2", "3", "4", "5", "6", "7", "8", "9">>
LowerDigits == <<"0", "1", "2", "3", "4", "5", "6", "7", "8", "9", "a", "b", "c", "d", "e", "f">>
UpperDigits == <<"0", "1", "2", "3", "4", "5", "6", "7", "8", "9", "A", "B", "C", "D", "E", "F">>

DigitChars == {Digits[i] : i \in 1..10}

\* The value of a digit character.
DigitOf == [c \in DigitChars |-> CHOOSE d \in 0..9 : Digits[d + 1] = c]

FlagOf == [c \in {"0", "-", "+", " ", "#"} |->
              CASE c = "0" -> "ZEROPAD" [] c = "-" -> "LEFT" [] c = "+" -> "PLUS"
                [] c = " " -> "SPACE"   [] c = "#" -> "HASH"]

LengthOf == [c \in {"l", "L", "h", "t", "j", "z"} |->
                CASE c = "l" -> "LONG"   [] c = "L" -> "LONG_DOUBLE"
                  [] c = "h" -> "SHORT"  [] c = "j" -> IntmaxFlag
                  [] OTHER   -> SizeFlag]

SignedChars   == {"d", "i"}
UnsignedChars == {"u", "x", "X", "o", "b"}
IntegerChars  == SignedChars \cup UnsignedChars
Flags == {"ZEROPAD", "LEFT", "PLUS", "SPACE", "HASH", "UPPERCASE", "CHAR", "SHORT", "INT",
          "LONG", "LONG_LONG", "PRECISION", "POINTER", "SIGNED", "LONG_DOUBLE"}

BaseOf(c) == CASE c \in {"x", "X"} -> 16 [] c = "o" -> 8 [] c = "b" -> 2 [] OTHER -> 10

ASSUME PrintfAssumption ==
    /\ {CharMod, ShortMod, LongMod, LongLongMod} \subseteq Nat \ {0}
    /\ PtrSize \in Nat \ {0}
    /\ PRINTF_INTEGER_BUFFER_SIZE \in Nat \ {0}
    /\ SizeFlag \in {"INT", "LONG", "LONG_LONG"}
    /\ IntmaxFlag \in {"LONG", "LONG_LONG"}
    /\ \A i \in 1..16 : LowerDigits[i] \in Char /\ UpperDigits[i] \in Char
    /\ {" ", "+", "-", "x", "X", ")", "l", "u", "n", "i", "("} \subseteq Char

ASSUME CallsAssumption ==
    \A c \in Calls : c.format \in Seq(Char)

VARIABLES
    call,                     \* the format and arguments of this call
    at,                       \* index of *format in call.format
    args,                     \* what va_arg has not taken
    stage,
    flags, width, precision,
    base, negative, value,    \* of print_integer
    buf,                      \* its buffer, least significant digit first
    todo                      \* characters on their way to the gadget

spec   == <<flags, width, precision>>
number == <<base, negative, value, buf>>
pvars  == <<call, at, args, stage, spec, number, todo>>
vars   == <<gvars, pvars>>

\* *format: the string ends with a NUL.
C == IF at <= Len(call.format) THEN call.format[at] ELSE NUL

Init ==
    /\ GadgetInit
    /\ call \in Calls
    /\ at = 1
    /\ args = call.args
    /\ stage = "content"
    /\ flags = {} /\ width = 0 /\ precision = 0
    /\ base = 10 /\ negative = FALSE /\ value = 0
    /\ buf = <<>>
    /\ todo = <<>>

-----------------------------------------------------------------------------
(* Content and the fields of a specifier *)

\* ADVANCE_IN_FORMAT_STRING: the end of the format inside a specifier returns.
Advance(next) ==
    /\ at' = at + 1
    /\ stage' = IF at < Len(call.format) THEN next ELSE "terminate"

Content ==
    /\ stage = "content" /\ C \notin {"%", NUL}
    /\ Put(C)
    /\ at' = at + 1
    /\ UNCHANGED <<call, args, stage, spec, number, todo>>

Percent ==
    /\ stage = "content" /\ C = "%"
    /\ Advance("flags")
    /\ flags' = {} /\ width' = 0 /\ precision' = 0
    /\ UNCHANGED <<gvars, call, args, number, todo>>

\* The characters each field takes, and the field that comes after it.
Accepts == [flags            |-> DOMAIN FlagOf,
            width            |-> DigitChars \cup {"*"},
            width_digits     |-> DigitChars,
            dot              |-> {"."},
            precision        |-> DigitChars \cup {"-", "*"},
            precision_digits |-> DigitChars,
            minus            |-> DigitChars,
            length           |-> DOMAIN LengthOf,
            long             |-> {"l"},
            short            |-> {"h"}]

Following == [flags |-> "width", width |-> "dot", width_digits |-> "dot",
              dot |-> "length", precision |-> "length", precision_digits |-> "length",
              minus |-> "length", length |-> "specifier", long |-> "specifier",
              short |-> "specifier"]

\* The field is absent or complete; nothing is consumed.
NextField ==
    /\ stage \in DOMAIN Accepts /\ C \notin Accepts[stage]
    /\ stage' = Following[stage]
    /\ UNCHANGED <<gvars, call, at, args, spec, number, todo>>

\* One round of parse_flags, which does not look for the end of the format.
ParseFlag ==
    /\ stage = "flags" /\ C \in Accepts.flags
    /\ flags' = flags \cup {FlagOf[C]}
    /\ at' = at + 1
    /\ UNCHANGED <<gvars, call, args, stage, width, precision, number, todo>>

\* Mutant: atou_ does not move the pointer.
WidthDigitStays ==
    /\ stage \in {"width", "width_digits"} /\ C \in DigitChars
    /\ width' = (width * 10 + DigitOf[C]) % IntMod
    /\ stage' = "width_digits"
    /\ UNCHANGED <<gvars, call, at, args, flags, precision, number, todo>>

\* One round of atou_, which does not look for it either.
WidthDigit ==
    /\ stage \in {"width", "width_digits"} /\ C \in DigitChars
    /\ width' = (width * 10 + DigitOf[C]) % IntMod
    /\ at' = at + 1
    /\ stage' = "width_digits"
    /\ UNCHANGED <<gvars, call, args, flags, precision, number, todo>>

\* va_arg finds an argument of the type it names; a call that gave another is
\* undefined, and this model stops there.
Taking(IsOfType(_)) == args # <<>> /\ IsOfType(Head(args))

IsInt(a)     == a \in Int
IsChar(a)    == a \in Char
IsString(a)  == a = NULL \/ a \in Seq(Char)
IsPointer(a) == a = NULL \/ a \in Nat

\* Mutant: a negative width keeps its sign.
WidthStarKeepsSign ==
    /\ stage = "width" /\ C = "*" /\ Taking(IsInt)
    /\ flags' = IF Head(args) < 0 THEN flags \cup {"LEFT"} ELSE flags
    /\ width' = Head(args)
    /\ args' = Tail(args)
    /\ Advance("dot")
    /\ UNCHANGED <<gvars, call, precision, number, todo>>

\* A negative width is a flag and a width.
WidthStar ==
    /\ stage = "width" /\ C = "*" /\ Taking(IsInt)
    /\ LET w == Head(args)
       IN  /\ flags' = IF w < 0 THEN flags \cup {"LEFT"} ELSE flags
           /\ width' = IF w < 0 THEN -w ELSE w
    /\ args' = Tail(args)
    /\ Advance("dot")
    /\ UNCHANGED <<gvars, call, precision, number, todo>>

Dot ==
    /\ stage = "dot" /\ C = "."
    /\ flags' = flags \cup {"PRECISION"}
    /\ Advance("precision")
    /\ UNCHANGED <<gvars, call, args, width, precision, number, todo>>

PrecisionDigit ==
    /\ stage \in {"precision", "precision_digits"} /\ C \in DigitChars
    /\ precision' = (precision * 10 + DigitOf[C]) % IntMod
    /\ at' = at + 1
    /\ stage' = "precision_digits"
    /\ UNCHANGED <<gvars, call, args, flags, width, number, todo>>

\* A negative precision counts as none.
PrecisionMinus ==
    /\ \/ stage = "precision" /\ C = "-"
       \/ stage = "minus" /\ C \in DigitChars
    /\ flags' = flags \ {"PRECISION"}
    /\ Advance("minus")
    /\ UNCHANGED <<gvars, call, args, width, precision, number, todo>>

\* Mutant: a negative precision leaves its flag set.
PrecisionStarKeepsFlag ==
    /\ stage = "precision" /\ C = "*" /\ Taking(IsInt)
    /\ precision' = IF Head(args) < 0 THEN 0 ELSE Head(args)
    /\ args' = Tail(args)
    /\ Advance("length")
    /\ UNCHANGED <<gvars, call, flags, width, number, todo>>

PrecisionStar ==
    /\ stage = "precision" /\ C = "*" /\ Taking(IsInt)
    /\ LET p == Head(args)
       IN  /\ flags' = IF p < 0 THEN flags \ {"PRECISION"} ELSE flags
           /\ precision' = IF p < 0 THEN 0 ELSE p
    /\ args' = Tail(args)
    /\ Advance("length")
    /\ UNCHANGED <<gvars, call, width, number, todo>>

Length ==
    /\ stage = "length" /\ C \in DOMAIN LengthOf
    /\ flags' = flags \cup {LengthOf[C]}
    /\ Advance(CASE C = "l" -> "long" [] C = "h" -> "short" [] OTHER -> "specifier")
    /\ UNCHANGED <<gvars, call, args, width, precision, number, todo>>

\* ll and hh
LengthTwice ==
    /\ \/ stage = "long" /\ C = "l" /\ flags' = flags \cup {"LONG_LONG"}
       \/ stage = "short" /\ C = "h" /\ flags' = flags \cup {"CHAR"}
    /\ Advance("specifier")
    /\ UNCHANGED <<gvars, call, args, width, precision, number, todo>>

-----------------------------------------------------------------------------
(* Integers *)

\* 2^width of the type va_arg or the cast after it names.
ArgMod ==
    IF "LONG_LONG" \in flags THEN LongLongMod
    ELSE IF "LONG" \in flags THEN LongMod
    ELSE IF "CHAR" \in flags THEN CharMod
    ELSE IF "SHORT" \in flags THEN ShortMod
    ELSE IntMod

\* ABS_FOR_PRINTING: the negation of LLONG_MIN wraps to its magnitude.
ABS_FOR_PRINTING(n) == IF n > 0 THEN n ELSE (-n) % LongLongMod

IntegerFlags(c) ==
    (flags \cup (IF c \in SignedChars THEN {"SIGNED"} ELSE {})
           \cup (IF c = "X" THEN {"UPPERCASE"} ELSE {}))
    \ ((IF BaseOf(c) = 10 THEN {"HASH"} ELSE {})
       \cup (IF "PRECISION" \in flags THEN {"ZEROPAD"} ELSE {})
       \cup (IF c \in UnsignedChars THEN {"PLUS", "SPACE"} ELSE {}))

\* The specifiers d, i, u, x, X, o and b, up to the call of print_integer.
Integer ==
    /\ stage = "specifier" /\ C \in IntegerChars /\ Taking(IsInt)
    /\ LET n == IF C \in SignedChars THEN ToSigned(Head(args), ArgMod)
                                     ELSE Head(args) % ArgMod
       IN  value' = ABS_FOR_PRINTING(n) /\ negative' = (n < 0)
    /\ base' = BaseOf(C)
    /\ flags' = IntegerFlags(C)
    /\ args' = Tail(args)
    /\ buf' = <<>>
    /\ at' = at + 1
    /\ stage' = "digits"
    /\ UNCHANGED <<gvars, call, width, precision, todo>>

\* print_integer on 0: a digit unless the precision is explicit; only a binary
\* or octal 0 of explicit precision keeps HASH.
ZeroDigit ==
    /\ stage = "digits" /\ value = 0
    /\ buf' = IF "PRECISION" \in flags THEN buf ELSE <<"0">>
    /\ flags' = IF "PRECISION" \notin flags \/ base = 16 THEN flags \ {"HASH"} ELSE flags
    /\ stage' = "finish"
    /\ UNCHANGED <<gvars, call, at, args, width, precision, base, negative, value, todo>>

\* Mutant: the loop over the digits looks at the value alone.
DigitUnbounded ==
    /\ stage = "digits" /\ value # 0
    /\ buf' = Append(buf, (IF "UPPERCASE" \in flags THEN UpperDigits ELSE LowerDigits)
                             [(value % base) + 1])
    /\ value' = value \div base
    /\ stage' = IF value' # 0 THEN "digits" ELSE "finish"
    /\ UNCHANGED <<gvars, call, at, args, spec, base, negative, todo>>

\* One round of its loop over the digits, which ends when the buffer is full.
Digit ==
    /\ stage = "digits" /\ value # 0
    /\ buf' = Append(buf, (IF "UPPERCASE" \in flags THEN UpperDigits ELSE LowerDigits)
                             [(value % base) + 1])
    /\ value' = value \div base
    /\ stage' = IF value' # 0 /\ Len(buf') < PRINTF_INTEGER_BUFFER_SIZE
                THEN "digits" ELSE "finish"
    /\ UNCHANGED <<gvars, call, at, args, spec, base, negative, todo>>

Repeat(c, n) == [i \in 1..(IF n > 0 THEN n ELSE 0) |-> c]
Reversed(s)  == [i \in 1..Len(s) |-> s[Len(s) + 1 - i]]

\* b with zeros up to length n, as far as the buffer has room.
ZerosTo(b, n) ==
    b \o Repeat("0", (IF n < PRINTF_INTEGER_BUFFER_SIZE THEN n ELSE PRINTF_INTEGER_BUFFER_SIZE)
                     - Len(b))

\* b and one more character, if the buffer has room.
AddChar(b, c) == IF Len(b) < PRINTF_INTEGER_BUFFER_SIZE THEN Append(b, c) ELSE b

\* out_rev_
OutRev(b, w) ==
    IF "LEFT" \in flags THEN Reversed(b) \o Repeat(" ", w - Len(b))
    ELSE IF "ZEROPAD" \in flags THEN Reversed(b)
    ELSE Repeat(" ", w - Len(b)) \o Reversed(b)

\* The width of the digits: a sign takes one place of a zero-padded field.
DigitsWidth ==
    IF /\ "LEFT" \notin flags /\ width > 0 /\ "ZEROPAD" \in flags
       /\ negative \/ flags \cap {"PLUS", "SPACE"} # {}
    THEN width - 1 ELSE width

\* The digits with leading zeros for the width, then for the precision.
Padded ==
    ZerosTo(IF flags \cap {"LEFT", "ZEROPAD"} = {"ZEROPAD"} THEN ZerosTo(buf, DigitsWidth)
                                                            ELSE buf,
            precision)

\* Zeros of an octal number serve as its prefix.
HasPrefix ==
    \/ "POINTER" \in flags
    \/ "HASH" \in flags /\ ~ (base = 8 /\ Len(Padded) > Len(buf))

\* Mutant: digits are given back where there is no padding.
TakenBackDigits ==
    IF "PRECISION" \in flags \/ Len(Padded) \notin ({precision, DigitsWidth} \ {0}) THEN 0
    ELSE IF base \in {16, 2} THEN 2 ELSE 1

\* Padding given back to make room for the prefix: one digit, or two for 0x and 0b.
TakenBack ==
    LET room == Len(Padded) - Len(buf)
        most == IF base \in {16, 2} THEN 2 ELSE 1
    IN  IF "PRECISION" \in flags \/ Len(Padded) \notin ({precision, DigitsWidth} \ {0}) THEN 0
        ELSE IF room < most THEN room ELSE most

\* The letter of the prefix.
AddLetter(b) ==
    CASE base = 16 -> AddChar(b, IF "UPPERCASE" \in flags THEN "X" ELSE "x")
      [] base = 2  -> AddChar(b, "b")
      [] OTHER     -> b

Prefixed ==
    IF HasPrefix
    THEN AddChar(AddLetter(SubSeq(Padded, 1, Len(Padded) - TakenBack)), "0")
    ELSE Padded

Signed ==
    CASE negative -> AddChar(Prefixed, "-")
      [] ~ negative /\ "PLUS" \in flags -> AddChar(Prefixed, "+")
      [] ~ negative /\ flags \cap {"PLUS", "SPACE"} = {"SPACE"} -> AddChar(Prefixed, " ")
      [] OTHER -> Prefixed

\* print_integer_finalization
Finalize ==
    /\ stage = "finish"
    /\ buf' = Signed
    /\ todo' = OutRev(Signed, DigitsWidth)
    /\ stage' = "emit"
    /\ UNCHANGED <<gvars, call, at, args, spec, base, negative, value>>

-----------------------------------------------------------------------------
(* The other specifiers, and the way to the gadget *)

\* A field of text s counted as l characters, padded with spaces.
Field(s, l) == IF "LEFT" \in flags THEN s \o Repeat(" ", width - l)
                                   ELSE Repeat(" ", width - l) \o s

CharSpecifier ==
    /\ stage = "specifier" /\ C = "c" /\ Taking(IsChar)
    /\ todo' = Field(<<Head(args)>>, 1)
    /\ args' = Tail(args)
    /\ at' = at + 1
    /\ stage' = "emit"
    /\ UNCHANGED <<gvars, call, spec, number>>

\* strnlen_s_
Strnlen(s, max) == IF Len(s) < max THEN Len(s) ELSE max

\* The characters of a string that the loop over it puts.
Shown(s) == IF "PRECISION" \in flags THEN SubSeq(s, 1, Strnlen(s, precision)) ELSE s

\* The length the padding counts.
CountedLength(s) ==
    LET l == Strnlen(s, IF precision # 0 THEN precision ELSE PRINTF_MAX_POSSIBLE_BUFFER_SIZE)
    IN  IF "PRECISION" \in flags /\ precision < l THEN precision ELSE l

StringSpecifier ==
    /\ stage = "specifier" /\ C = "s" /\ Taking(IsString)
    /\ todo' = LET s == Head(args)
               IN  IF s = NULL THEN OutRev(<<")", "l", "l", "u", "n", "(">>, width)
                   ELSE Field(Shown(s), CountedLength(s))
    /\ args' = Tail(args)
    /\ at' = at + 1
    /\ stage' = "emit"
    /\ UNCHANGED <<gvars, call, spec, number>>

PointerSpecifier ==
    /\ stage = "specifier" /\ C = "p" /\ Taking(IsPointer)
    /\ width' = (PtrSize * 2) + 2
    /\ flags' = flags \cup {"ZEROPAD", "POINTER"}
    /\ IF Head(args) = NULL
       THEN stage' = "nil" /\ UNCHANGED <<value, base, negative, buf>>
       ELSE /\ stage' = "digits"
            /\ value' = Head(args) % LongLongMod
            /\ base' = 16 /\ negative' = FALSE /\ buf' = <<>>
    /\ args' = Tail(args)
    /\ at' = at + 1
    /\ UNCHANGED <<gvars, call, precision, todo>>

\* The null pointer, in the flags and the width that p has set.
NilPointer ==
    /\ stage = "nil"
    /\ todo' = OutRev(<<")", "l", "i", "n", "(">>, width)
    /\ stage' = "emit"
    /\ UNCHANGED <<gvars, call, at, args, spec, number>>

\* %% and unknown specifiers print themselves.  So does the end of the format
\* when flags or digits are the last thing before it: the NUL is printed, and
\* the loop goes on reading behind the string, where this model stops.
Literal ==
    /\ stage = "specifier" /\ C \notin IntegerChars \cup {"c", "s", "p"}
    /\ Put(C)
    /\ at' = at + 1
    /\ stage' = IF C = NUL THEN "past_end" ELSE "content"
    /\ UNCHANGED <<call, args, spec, number, todo>>

\* putchar_via_gadget, once per character of a conversion.
Emit ==
    /\ stage = "emit" /\ todo # <<>>
    /\ Put(Head(todo))
    /\ todo' = Tail(todo)
    /\ UNCHANGED <<call, at, args, stage, spec, number>>

Emitted ==
    /\ stage = "emit" /\ todo = <<>>
    /\ stage' = "content"
    /\ UNCHANGED <<gvars, call, at, args, spec, number, todo>>

\* The end of vsnprintf_impl.
Return ==
    /\ stage = "terminate" \/ (stage = "content" /\ C = NUL)
    /\ Finish
    /\ stage' = "returned"
    /\ UNCHANGED <<call, at, args, spec, number, todo>>

Fields ==
    \/ Percent \/ NextField \/ ParseFlag \/ WidthDigit \/ WidthStar \/ Dot
    \/ PrecisionDigit \/ PrecisionMinus \/ PrecisionStar \/ Length \/ LengthTwice

Conversions ==
    \/ Integer \/ ZeroDigit \/ Digit \/ Finalize
    \/ CharSpecifier \/ StringSpecifier \/ PointerSpecifier \/ NilPointer

Next ==
    /\ running
    /\ Fields \/ Conversions \/ Content \/ Literal \/ Emit \/ Emitted \/ Return

Spec == Init /\ [][Next]_vars /\ WF_vars(Next)

-----------------------------------------------------------------------------

Stages == DOMAIN Accepts \cup {"content", "specifier", "digits", "finish", "nil", "emit",
                               "terminate", "returned", "past_end"}

\* Types of the variables of the format loop.
FormatTypeOK ==
    /\ call.format \in Seq(Char)
    /\ at \in Nat \ {0}
    /\ stage \in Stages
    /\ flags \subseteq Flags
    /\ width \in Nat /\ precision \in Nat
    /\ base \in {2, 8, 10, 16}
    /\ negative \in BOOLEAN
    /\ value \in Nat
    /\ buf \in Seq(Char)
    /\ todo \in Seq(Char)

\* No conversion overruns the array of print_integer, neither with digits nor
\* with zeros, prefix and sign.
IntegerBufferBounded == Len(buf) <= PRINTF_INTEGER_BUFFER_SIZE

=============================================================================
