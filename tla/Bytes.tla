-------------------------------- MODULE Bytes --------------------------------
(* Texts as sequences of bytes, and what the C++ code does with them.       *)
EXTENDS Integers, SequencesExt

LF == 10    CR == 13    SP == 32    Quote == 34   Plus == 43   Comma == 44
Minus == 45   Dot == 46   Slash == 47   Colon == 58   Semicolon == 59
Backslash == 92   LBracket == 91   RBracket == 93   LBrace == 123   RBrace == 125

CRLF == <<CR, LF>>

(* The code asks i < s.size() before it looks at s[i]. *)
End == -1
Peek(s, i) == IF i <= Len(s) THEN s[i] ELSE End

(* The first position from i on that does not hold one of "bytes". *)
RECURSIVE Skip(_, _, _)
Skip(s, i, bytes) == IF Peek(s, i) \in bytes THEN Skip(s, i + 1, bytes) ELSE i

(* std::string::find: where "what" first occurs from i on, or 0 for npos. *)
RECURSIVE FindFrom(_, _, _)
FindFrom(s, what, i) ==
    IF i + Len(what) - 1 > Len(s) THEN 0
    ELSE IF SubSeq(s, i, i + Len(what) - 1) = what THEN i
    ELSE FindFrom(s, what, i + 1)

Rest(s, i) == SubSeq(s, i, Len(s))

Space == 9 .. 13 \cup {SP}          \* isspace, in the "C" locale
Digit == 48 .. 57                   \* isdigit
HexDigit == Digit \cup 65 .. 70 \cup 97 .. 102

DigitValue(c) == CASE c \in Digit -> c - 48
                   [] c \in 65 .. 70 -> c - 55
                   [] c \in 97 .. 102 -> c - 87

(* A digit as snprintf writes it. *)
DigitByte(d) == IF d < 10 THEN 48 + d ELSE 87 + d

ValueOf(digits, base) ==
    FoldLeft(LAMBDA n, c : n * base + DigitValue(c), 0, digits)

(* strtoul, strtoull, atoi: the number a text begins with, 0 without one. *)
LeadingNumber(s, base) ==
    LET digits == IF base = 16 THEN HexDigit ELSE Digit
        from == Skip(s, 1, Space)
    IN ValueOf(SubSeq(s, from, Skip(s, from, digits) - 1), base)

RECURSIVE Written(_, _)
Written(n, base) ==
    (IF n < base THEN <<>> ELSE Written(n \div base, base)) \o <<DigitByte(n % base)>>

=============================================================================
