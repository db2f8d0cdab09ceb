--------------------------------- MODULE CFormat ---------------------------------
(***************************************************************************)
(* A format as the C standard sees it: a sequence of pieces, each ordinary *)
(* text or one conversion with its fields, and the text it stands for.     *)
(* FormatOf and ArgsOf write a piece down as a program would.              *)
(*                                                                         *)
(* piece.conv is "text", "cut" (a specifier the format ends in) or a       *)
(* specifier; width and precision are a number, or -1 when absent; star    *)
(* holds the fields given by an argument; flags are in the order written.  *)
(***************************************************************************)
EXTENDS Printf

Piece(conv, fl, w, p, len, star, arg) ==
    [conv |-> conv, flags |-> fl, width |-> w, precision |-> p, length |-> len,
     star |-> star, arg |-> arg]

Plain(chars) == Piece("text", <<>>, -1, -1, <<>>, {}, chars)
Cut(chars)   == Piece("cut", <<>>, -1, -1, <<>>, {}, chars)

FlagsOf(piece) == {piece.flags[i] : i \in DOMAIN piece.flags}

\* A number below 100 as it is written in a format.
Written(n) == IF n < 10 THEN <<Digits[n + 1]>> ELSE <<Digits[(n \div 10) + 1], Digits[(n % 10) + 1]>>

WidthText(piece) ==
    IF "width" \in piece.star THEN <<"*">>
    ELSE IF piece.width = -1 THEN <<>> ELSE Written(piece.width)

\* A negative precision is written with its sign, the precision 0 without digits.
PrecisionText(piece) ==
    IF "precision" \in piece.star THEN <<".", "*">>
    ELSE CASE piece.precision = -1 -> <<>>
           [] piece.precision < -1 -> <<".", "-">> \o Written(-piece.precision)
           [] piece.precision = 0  -> <<".">>
           [] OTHER                -> <<".">> \o Written(piece.precision)

FormatOf(piece) ==
    IF piece.conv \in {"text", "cut"} THEN piece.arg
    ELSE <<"%">> \o piece.flags \o WidthText(piece) \o PrecisionText(piece)
         \o piece.length \o <<piece.conv>>

ArgsOf(piece) ==
    (IF "width" \in piece.star THEN <<piece.width>> ELSE <<>>)
    \o (IF "precision" \in piece.star THEN <<piece.precision>> ELSE <<>>)
    \o (IF piece.conv \in {"text", "cut", "%", "?"} THEN <<>> ELSE <<piece.arg>>)

-----------------------------------------------------------------------------
(* The meaning of one conversion *)

\* 2^width of the argument's type, after the conversion hh and h ask for.
TypeMod(piece) ==
    CASE piece.length = <<"h", "h">> -> CharMod
      [] piece.length = <<"h">>      -> ShortMod
      [] piece.length = <<"l">>      -> LongMod
      [] piece.length = <<"l", "l">> -> LongLongMod
      [] piece.length = <<"j">>      -> LongLongMod
      [] OTHER                       -> IntMod

\* The value of the type that is congruent to the argument.
Converted(piece) ==
    LET m == TypeMod(piece)
        range == IF piece.conv \in SignedChars THEN (-(m \div 2))..((m \div 2) - 1)
                                               ELSE 0..(m - 1)
    IN  CHOOSE v \in range : (v - piece.arg) % m = 0

\* The numeral of n without leading zeros; 0 has none.
Numeral(n, b, symbols) ==
    LET len == CHOOSE k \in 0..16 : n < b^k /\ (k = 0 \/ n >= b^(k - 1))
    IN  [i \in 1..len |-> symbols[((n \div b^(len - i)) % b) + 1]]

\* The digits of an integer's magnitude.
Bare(piece) ==
    LET v == Converted(piece)
    IN  Numeral(IF v < 0 THEN -v ELSE v, BaseOf(piece.conv),
                IF piece.conv = "X" THEN UpperDigits ELSE LowerDigits)

WidthOf(piece) == IF piece.width < -1 THEN -piece.width
                  ELSE IF piece.width = -1 THEN 0 ELSE piece.width

LeftAdjusted(piece) == "-" \in FlagsOf(piece) \/ piece.width < -1

InField(piece, s) ==
    LET pad == Repeat(" ", WidthOf(piece) - Len(s))
    IN  IF LeftAdjusted(piece) THEN s \o pad ELSE pad \o s

\* The parts of an integer: its sign and prefix, and at least the digits that
\* the precision asks for.
IntegerParts(piece) ==
    LET v     == Converted(piece)
        least == IF piece.precision < 0 THEN 1 ELSE piece.precision
        full  == Repeat("0", least - Len(Bare(piece))) \o Bare(piece)
        alt   == "#" \in FlagsOf(piece)
    IN  [digits |-> IF /\ alt /\ piece.conv = "o"
                       /\ full = <<>> \/ Head(full \o <<"1">>) # "0"
                    THEN <<"0">> \o full ELSE full,
         prefix |-> CASE piece.conv \in SignedChars ->
                           (IF v < 0 THEN <<"-">>
                            ELSE IF "+" \in FlagsOf(piece) THEN <<"+">>
                            ELSE IF " " \in FlagsOf(piece) THEN <<" ">> ELSE <<>>)
                      [] piece.conv \in {"x", "X", "b"} /\ alt /\ v # 0 -> <<"0", piece.conv>>
                      [] OTHER -> <<>>]

IntegerText(piece) ==
    LET parts == IntegerParts(piece)
        zeros == IF /\ "0" \in FlagsOf(piece) /\ ~ LeftAdjusted(piece)
                    /\ piece.precision < 0
                 THEN Repeat("0", WidthOf(piece) - Len(parts.prefix) - Len(parts.digits))
                 ELSE <<>>
    IN  parts.prefix \o zeros \o parts.digits

\* A pointer is a full-width hexadecimal number.
PointerText(piece) ==
    LET bare == Numeral(piece.arg, 16, LowerDigits)
    IN  <<"0", "x">> \o Repeat("0", (PtrSize * 2) - Len(bare)) \o bare

PieceText(piece) ==
    CASE piece.conv = "text" -> piece.arg
      [] piece.conv = "cut"  -> <<>>
      [] piece.conv \in IntegerChars -> InField(piece, IntegerText(piece))
      [] piece.conv = "c" -> InField(piece, <<piece.arg>>)
      [] piece.conv = "s" ->
            InField(piece,
                    IF piece.arg = NULL THEN <<"(", "n", "u", "l", "l", ")">>
                    ELSE IF piece.precision < 0 \/ Len(piece.arg) < piece.precision
                    THEN piece.arg ELSE SubSeq(piece.arg, 1, piece.precision))
      [] piece.conv = "p" -> IF piece.arg = NULL THEN <<"(", "n", "i", "l", ")">>
                             ELSE PointerText(piece)
      [] OTHER -> <<piece.conv>>

\* The conversion buffer holds the number with its zeros, prefix and sign.
FitsBuffer(piece) ==
    piece.conv \in IntegerChars =>
        Len(IntegerText(piece)) <= PRINTF_INTEGER_BUFFER_SIZE

=============================================================================
