-------------------------------- MODULE MCPrintf --------------------------------
(***************************************************************************)
(* Calls of the printf family for TLC, and what is checked of them.  A     *)
(* call's record also carries the pieces its format was written from.      *)
(* char has 4 bits, short 6, int and long 8 and long long 16; the          *)
(* conversion buffer has 8 characters, one for each bit of an int, as the  *)
(* 32 of the program are for its int.                                      *)
(***************************************************************************)
EXTENDS CFormat

\* All characters; strings of length one, and the letters of nil and null.
MCChar == (DOMAIN FlagOf) \cup DigitChars \cup IntegerChars
          \cup {LowerDigits[i] : i \in 1..16} \cup {UpperDigits[i] : i \in 1..16}
          \cup {"%", ".", "*", "l", "h", "L", "t", "j", "z", "s", "p", "n",
                "(", ")", "?", NUL, Fill}

Sq == INSTANCE SequencesExt

CallOf(pieces) ==
    LET each(op(_)) == [i \in 1..Len(pieces) |-> op(pieces[i])]
    IN  [format |-> Sq!FlattenSeq(each(FormatOf)), args |-> Sq!FlattenSeq(each(ArgsOf)),
         text   |-> Sq!FlattenSeq(each(PieceText)),
         fits   |-> \A i \in 1..Len(pieces) : FitsBuffer(pieces[i]),
         number |-> IF /\ Len(pieces) = 1
                       /\ pieces[1].conv \in IntegerChars
                       /\ Len(Bare(pieces[1])) <= PRINTF_INTEGER_BUFFER_SIZE
                    THEN Bare(pieces[1]) ELSE <<>>]

\* Every combination of the flags that interact, in fields narrower and wider
\* than the buffer.
Decimals ==
    {Piece("d", fl, w, p, <<>>, {}, n) :
        fl \in {<<>>, <<"0">>, <<"-">>, <<"+", "0">>, <<" ">>, <<" ", "+">>, <<"-", "0">>},
        w \in {-1, 3, 8, 10}, p \in {-1, 0, 4, 9}, n \in {0, 7, -1, 127, -128}}

Alternatives ==
    {Piece(conv, fl, w, p, <<>>, {}, n) :
        conv \in {"x", "X", "o", "u"},
        fl \in {<<"#">>, <<"#", "0">>, <<"#", "-">>, <<"0", "+">>},
        w \in {-1, 2, 4, 6}, p \in {-1, 0, 2, 3}, n \in {0, 8, 63, 255}}

\* Without one case: the code prints a prefix before a binary zero of explicit
\* precision, and none before a hexadecimal one.
Binaries ==
    {piece \in {Piece("b", fl, w, p, <<>>, {}, n) :
                   fl \in {<<>>, <<"#">>, <<"#", "0">>}, w \in {-1, 3, 6}, p \in {-1, 2, 4},
                   n \in {0, 5, 255}} :
        ~ (piece.flags # <<>> /\ piece.precision >= 0 /\ piece.arg = 0)}

Lengths ==
    {Piece(conv, <<>>, -1, -1, len, {}, n) :
        conv \in {"d", "i", "u", "x"},
        len \in {<<"h", "h">>, <<"h">>, <<"l">>, <<"z">>, <<"t">>, <<"L">>},
        n \in {0, 5, -3, 100, -128}}
    \cup {Piece(conv, <<"+">>, -1, -1, len, {}, n) :
        conv \in {"d", "u", "x", "b"}, len \in {<<"l", "l">>, <<"j">>},
        n \in {-1, 300, 32767, -32768}}

\* Widths and precisions given by arguments, of both signs, or with a minus; the
\* negation of the least int wraps, and its conversion to printf_size_t is exact.
Starred ==
    {Piece(conv, fl, w, p, <<>>, star, 5) :
        conv \in {"d", "x"}, fl \in {<<>>, <<"0">>}, w \in {-6, 4}, p \in {-5, 0, 3},
        star \in {{"width"}, {"width", "precision"}}}
    \cup {Piece("d", <<"0">>, 4, p, <<>>, star, 5) :
        p \in {-12, 0}, star \in {{}, {"precision"}}}
    \cup {Piece(conv, <<>>, -128, -1, <<>>, {"width"}, 5) : conv \in {"d", "x"}}

Texts ==
    {Piece("s", fl, w, p, <<>>, {}, s) :
        fl \in {<<>>, <<"-">>}, w \in {-1, 4, 8}, p \in {-1, 0, 2, 5},
        s \in {<<>>, <<"a", "b", "c">>}}
    \cup {Piece("s", fl, w, -1, <<>>, {}, NULL) : fl \in {<<>>, <<"-">>}, w \in {-1, 8}}
    \cup {Piece("c", fl, w, -1, <<>>, {}, "a") : fl \in {<<>>, <<"-">>}, w \in {-1, 1, 3}}
    \cup {Piece("p", <<>>, -1, -1, <<>>, {}, a) : a \in {NULL, 1, 255}}
    \cup {Piece(c, <<>>, -1, -1, <<>>, {}, 0) : c \in {"%", "?"}}

\* Formats that end inside a specifier: where the code looks for the end, and
\* where it does not.
CutShort ==
    {Cut(c) : c \in {<<"%">>, <<"%", "5", ".">>, <<"%", ".", "-">>, <<"%", ".", "-", "1">>,
                     <<"%", "l">>, <<"%", "l", "l">>, <<"%", "h">>, <<"%", "z">>}}

PastEnd == {Cut(c) : c \in {<<"%", "0">>, <<"%", "5">>, <<"%", ".", "5">>}}

\* Second conversions that would show what a first one left behind.
Seconds == {Piece("d", <<>>, -1, -1, <<>>, {}, 7), Piece("s", <<>>, 4, -1, <<>>, {}, <<"b">>),
            Piece("x", <<"0">>, 4, -1, <<>>, {}, 10), Plain(<<"a", "b">>)}

Firsts == {Piece("d", <<"-", "+">>, 6, 2, <<"h", "h">>, {}, -3),
           Piece("x", <<"#", "0">>, 8, -1, <<"l">>, {"width"}, 255),
           Piece("s", <<"-">>, 5, 1, <<>>, {"precision"}, <<"a", "b", "c">>),
           Piece("c", <<>>, 2, -1, <<>>, {}, NUL),
           Piece("p", <<>>, -1, -1, <<>>, {}, NULL), Plain(<<"a">>)}

\* Texts longer than the greatest int, 127, and than the 255 of its unsigned form.
Wide == Piece("d", <<>>, -128, -1, <<>>, {"width"}, 5)

LongTexts == {<<Wide, Plain(<<"a">>)>>, <<Wide, Wide>>, <<Wide, Wide, Plain(<<"a", "b">>)>>}

Singles == Decimals \cup Alternatives \cup Binaries \cup Lengths \cup Starred \cup Texts
           \cup CutShort

MCCalls ==
    {CallOf(<<first>>) : first \in Singles \cup PastEnd}
    \cup {CallOf(<<first, second>>) : first \in Firsts, second \in Seconds \cup CutShort}
    \cup {CallOf(pieces) : pieces \in LongTexts \cup {<<>>}}

\* The calls of the findings.
EndCalls  == {CallOf(<<Plain(<<"a">>), last>>) : last \in CutShort \cup PastEnd}
WideCalls == {CallOf(<<Piece("b", <<>>, -1, -1, len, {}, 300)>>) : len \in {<<>>, <<"l", "l">>}}
NulCalls  == {CallOf(<<Piece("c", <<>>, w, -1, <<>>, {}, NUL)>>) : w \in {-1, 2}}

\* The caller's array of six characters and memory behind it.
MCCells == 0..8

-----------------------------------------------------------------------------

\* A call returns the text the C standard gives its format and arguments,
\* whenever its numbers fit the conversion buffer: fields, flags, the sign of
\* the least value, taking padding back for a prefix, and forgetting one
\* specifier's fields before the next (format_string_loop, print_integer).
StandardText == stage = "returned" /\ call.fits => text = call.text

\* A number whose digits fit the buffer keeps them all, in order and at the end of
\* its field, whatever zeros, prefix and sign do not find room beside them and are
\* dropped (print_integer_finalization).
NumberKept ==
    stage = "returned" /\ call.number # <<>> =>
        \E last \in Len(call.number)..Len(text) :
            /\ SubSeq(text, last - Len(call.number) + 1, last) = call.number
            /\ \A i \in last + 1..Len(text) : text[i] = " "

\* Every call returns, or reads on behind a format that ends in its fields.
CallReturns == <>(~ running \/ stage = "past_end")

\* printf.c:152 is "extra-safe" about formats that end inside a specifier: the
\* loop never reads *format behind the terminating NUL (ADVANCE_IN_FORMAT_STRING).
FormatInBounds == stage # "past_end"

\* printf.c:79 wants the buffer "big enough to hold one converted numeric
\* number": print_integer never leaves digits of the number behind.
NumberComplete == stage = "finish" => value = 0

\* printf.c:388 says that the library never passes '\0' to putchar_via_gadget.
NoNulPut == \A i \in DOMAIN text : text[i] # NUL

=============================================================================
