---------------------------- MODULE DecimalShift ----------------------------
(* LeftShift and RightShift of util.go, which move the decimal point of an   *)
(* amount by as many places as the coin has (8 in the program), and what     *)
(* strconv makes of the result.  A string is a sequence of characters.  The  *)
(* second part says what a numeral denotes; nothing of the program uses it.  *)
EXTENDS Integers, Sequences, SequencesExt

Digits == <<"0", "1", "2", "3", "4", "5", "6", "7", "8", "9">>
DigitChars == {"0", "1", "2", "3", "4", "5", "6", "7", "8", "9"}
DigitOf(c) == CHOOSE d \in 0 .. 9 : Digits[d + 1] = c
Zeros(n) == [j \in 1 .. n |-> "0"]

\* big.Int.String: decimal digits, a sign before negative numbers.
Unsigned(n) ==
    LET digits[k \in 0 .. n] == IF k < 10 THEN <<Digits[k + 1]>>
                                ELSE Append(digits[k \div 10], Digits[(k % 10) + 1])
    IN  digits[n]
String(n) == IF n < 0 THEN <<"-">> \o Unsigned(-n) ELSE Unsigned(n)

\* The place of the dot, counted from 0, or -1, and what is left without it.
Dot(s) == SelectInSeq(s, LAMBDA c : c = ".") - 1
Undotted(s) ==
    LET index == Dot(s)
    IN  SubSeq(s, 1, index) \o SubSeq(s, index + 2, Len(s))

\* Mutant of LeftShift: one zero too many before a short amount.
LeftShiftPadded(str, size) ==
    IF Len(str) <= size THEN <<"0", ".">> \o Zeros(size - Len(str) + 1) \o str
    ELSE SubSeq(str, 1, Len(str) - size) \o <<".">> \o SubSeq(str, Len(str) - size + 1, Len(str))

\* str / 10^size.  The characters count, whatever they are: a sign counts as
\* a digit.
LeftShift(str, size) ==
    LET index == Dot(str)
        raw == Undotted(str)
    IN  IF str = <<>> \/ size <= 0 THEN str
        ELSE IF index > size
        THEN SubSeq(str, 1, index - size) \o <<".">> \o SubSeq(raw, index - size + 1, Len(raw))
        ELSE IF index >= 0 THEN <<"0", ".">> \o Zeros(size - index) \o raw
        ELSE IF Len(str) <= size THEN <<"0", ".">> \o Zeros(size - Len(str)) \o str
        ELSE SubSeq(str, 1, Len(str) - size) \o <<".">>
             \o SubSeq(str, Len(str) - size + 1, Len(str))

\* Leading zeros go, but one before a dot; a string of zeros stays.
TrimHead(s) ==
    LET stop == SelectInSeq(s, LAMBDA c : c # "0")
    IN  IF stop = 0 THEN s
        ELSE SubSeq(s, IF s[stop] = "." THEN stop - 1 ELSE stop, Len(s))

\* Mutant of RightShift: a fraction of exactly size decimals keeps the dot.
RightShiftDotted(str, size) ==
    LET index == Dot(str)
        raw == Undotted(str)
    IN  IF index = -1 THEN str \o Zeros(size)
        ELSE IF index + size > Len(str) - 1
        THEN TrimHead(raw \o Zeros(index + size - Len(str) + 1))
        ELSE TrimHead(SubSeq(raw, 1, index + size) \o <<".">>
                      \o SubSeq(raw, index + size + 1, Len(raw)))

\* str * 10^size.  More decimals than size leave a dot in the result.
RightShift(str, size) ==
    LET index == Dot(str)
        raw == Undotted(str)
    IN  IF str = <<>> \/ size <= 0 THEN str
        ELSE IF index = -1 THEN str \o Zeros(size)
        ELSE IF index + size >= Len(str) - 1
        THEN TrimHead(raw \o Zeros(index + size - Len(str) + 1))
        ELSE TrimHead(SubSeq(raw, 1, index + size) \o <<".">>
                      \o SubSeq(raw, index + size + 1, Len(raw)))

IsDigits(s) == s # <<>> /\ \A j \in 1 .. Len(s) : s[j] \in DigitChars
Number(s) ==
    LET upTo[k \in 0 .. Len(s)] == IF k = 0 THEN 0 ELSE 10 * upTo[k - 1] + DigitOf(s[k])
    IN  upTo[Len(s)]

\* strconv.ParseInt without its range check: is it a number, and which?  The
\* error for what is none comes with 0.
IsInt(s) == IsDigits(s) \/ (s # <<>> /\ s[1] \in {"-", "+"} /\ IsDigits(Tail(s)))
ParseInt(s) ==
    IF ~IsInt(s) THEN 0 ELSE IF s[1] = "-" THEN -Number(Tail(s))
    ELSE Number(IF s[1] = "+" THEN Tail(s) ELSE s)

-----------------------------------------------------------------------------
\* A numeral is digits with at most one dot; it denotes the number of its
\* digits divided by the power of ten that its decimals make.
TenTo(k) == LET power[j \in 0 .. k] == IF j = 0 THEN 1 ELSE 10 * power[j - 1] IN power[k]
Fraction(s) ==
    LET index == Dot(s)
    IN  IF index < 0 THEN 0 ELSE Len(s) - 1 - index
IsNumeral(s) == IsDigits(Undotted(s))

\* A numeral times 10^places, for at most so many decimals.
Value(s, places) == Number(Undotted(s)) * TenTo(places - Fraction(s))

\* The numeral s denotes n / 10^places.
Denotes(s, n, places) ==
    LET digits == Undotted(s)
        decimals == Fraction(s)
    IN  IsDigits(digits) /\ decimals <= places /\ Number(digits) * TenTo(places - decimals) = n
=============================================================================
