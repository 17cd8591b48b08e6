------------------------------- MODULE JsonText -------------------------------
(* Json.cpp: the writer and the recursive-descent parser, on bytes.         *)
(* The messages of errors are left out: a text parses or it does not.       *)
EXTENDS Bytes, TLC

(* A number is a decimal <<m, e>>, m times ten to the e, m not divisible by *)
(* ten: the double a short token stands for.                               *)
NullValue == [type |-> "Null"]
BoolValue(b) == [type |-> "Bool", b |-> b]
NumberValue(num) == [type |-> "Number", num |-> num]
StringValue(str) == [type |-> "String", str |-> str]
ArrayValue(arr) == [type |-> "Array", arr |-> arr]
ObjectValue(obj) == [type |-> "Object", obj |-> obj]

TrueWord == <<116, 114, 117, 101>>
FalseWord == <<102, 97, 108, 115, 101>>
NullWord == <<110, 117, 108, 108>>

(* Value::set on the members of an object: a known key keeps its place. *)
Set(obj, key, v) ==
    IF \E k \in DOMAIN obj : obj[k][1] = key
    THEN [k \in DOMAIN obj |-> IF obj[k][1] = key THEN <<key, v>> ELSE obj[k]]
    ELSE Append(obj, <<key, v>>)

-----------------------------------------------------------------------------
(* dump *)

(* Slip: control characters go out as they are. *)
EscapeQuotesOnly(c) == IF c \in {Quote, Backslash} THEN <<Backslash, c>> ELSE <<c>>

(* escapeString, one byte: \" \\ \b \f \n \r \t, \u00xx, or the byte. *)
Escape(c) ==
    LET short == (Quote :> Quote) @@ (Backslash :> Backslash) @@ (8 :> 98)
                 @@ (12 :> 102) @@ (LF :> 110) @@ (CR :> 114) @@ (9 :> 116)
    IN CASE c \in DOMAIN short -> <<Backslash, short[c]>>
         [] c \notin DOMAIN short /\ c < 32 ->
              <<Backslash, 117, 48, 48, DigitByte(c \div 16), DigitByte(c % 16)>>
         [] OTHER -> <<c>>

EscapeString(s) ==
    <<Quote>> \o FlattenSeq([k \in DOMAIN s |-> Escape(s[k])]) \o <<Quote>>

Joined(texts) ==
    FlattenSeq([k \in DOMAIN texts |->
                  IF k = 1 THEN texts[k] ELSE <<Comma>> \o texts[k]])

(* %.17g of a whole number below 10^17: all the program writes. *)
DumpNumber(num) ==
    (IF num[1] < 0 THEN <<Minus>> ELSE <<>>)
    \o Written(IF num[1] < 0 THEN -num[1] ELSE num[1], 10)
    \o [k \in 1 .. num[2] |-> 48]

RECURSIVE Dump(_)
Dump(v) ==
    CASE v.type = "Null" -> NullWord
      [] v.type = "Bool" -> IF v.b THEN TrueWord ELSE FalseWord
      [] v.type = "Number" -> DumpNumber(v.num)
      [] v.type = "String" -> EscapeString(v.str)
      [] v.type = "Array" ->
           <<LBracket>> \o Joined([k \in DOMAIN v.arr |-> Dump(v.arr[k])])
           \o <<RBracket>>
      [] v.type = "Object" ->
           <<LBrace>>
           \o Joined([k \in DOMAIN v.obj |->
                EscapeString(v.obj[k][1]) \o <<Colon>> \o Dump(v.obj[k][2])])
           \o <<RBrace>>

-----------------------------------------------------------------------------
(* parse.  Each function of Parser returns its value and the position after *)
(* it, or fails.                                                           *)
Parsed(v, i) == [v |-> v, i |-> i]
NoParse == [v |-> NullValue, i |-> 0]
Fails(r) == r.i = 0

SkipWs(s, i) == Skip(s, i, Space)

(* appendUtf8, without bounds on cp. *)
Utf8(cp) ==
    CASE cp <= 127 -> <<cp>>
      [] cp \in 128 .. 2047 -> <<192 + cp \div 64, 128 + (cp % 64)>>
      [] cp \in 2048 .. 65535 ->
           <<224 + cp \div 4096, 128 + ((cp \div 64) % 64), 128 + (cp % 64)>>
      [] cp > 65535 ->
           <<240 + cp \div 262144, 128 + ((cp \div 4096) % 64),
             128 + ((cp \div 64) % 64), 128 + (cp % 64)>>

(* parseHex4, or -1. *)
ParseHex4(s, i) ==
    IF \A k \in i .. i + 3 : Peek(s, k) \in HexDigit
    THEN ValueOf(SubSeq(s, i, i + 3), 16) ELSE -1

(* The code units after "\u" at i: one, or a high surrogate and whatever    *)
(* unit an escape right after it holds.  Surrogates alone stay as they are. *)
ParseUnits(s, i) ==
    LET unit == ParseHex4(s, i)
        paired == /\ unit \in 55296 .. 56319
                  /\ Peek(s, i + 4) = Backslash /\ Peek(s, i + 5) = 117
        low == ParseHex4(s, i + 6)
    IN CASE unit < 0 \/ (paired /\ low < 0) -> NoParse
         [] paired /\ low >= 0 ->
              Parsed(Utf8(65536 + (unit - 55296) * 1024 + (low - 56320)), i + 10)
         [] unit >= 0 /\ ~paired -> Parsed(Utf8(unit), i + 4)

Unescape == (Quote :> Quote) @@ (Backslash :> Backslash) @@ (Slash :> Slash)
            @@ (98 :> 8) @@ (102 :> 12) @@ (110 :> LF) @@ (114 :> CR) @@ (116 :> 9)

(* parseString from position i on, behind the opening quote, with str read. *)
RECURSIVE ParseString(_, _, _)
ParseString(s, i, str) ==
    LET c == Peek(s, i)
        e == Peek(s, i + 1)
        units == ParseUnits(s, i + 2)
    IN CASE c = End -> NoParse
         [] c = Quote -> Parsed(StringValue(str), i + 1)
         [] c = Backslash /\ e \in DOMAIN Unescape ->
              ParseString(s, i + 2, Append(str, Unescape[e]))
         [] c = Backslash /\ e = 117 ->
              IF Fails(units) THEN NoParse
              ELSE ParseString(s, units.i, str \o units.v)
         [] c = Backslash /\ e \notin DOMAIN Unescape \cup {117} -> NoParse
         [] OTHER -> ParseString(s, i + 1, Append(str, c))

(* parseBool, parseNull: s.compare at i. *)
ParseWord(s, i, word, v) ==
    IF \A k \in DOMAIN word : Peek(s, i + k - 1) = word[k]
    THEN Parsed(v, i + Len(word)) ELSE NoParse

RECURSIVE Decimal(_, _)
Decimal(m, e) ==
    CASE m = 0 -> <<0, 0>>
      [] m # 0 /\ m % 10 = 0 -> Decimal(m \div 10, e + 1)
      [] OTHER -> <<m, e>>

(* parseNumber: the longest token that looks like a number, then strtod,    *)
(* which wants one digit before any exponent and lets go of an empty one.   *)
ParseNumber(s, i) ==
    LET whole == IF s[i] = Minus THEN i + 1 ELSE i
        point == Skip(s, whole, Digit)
        mant == IF Peek(s, point) = Dot THEN Skip(s, point + 1, Digit) ELSE point
        digits == SelectSeq(SubSeq(s, whole, mant - 1), LAMBDA c : c # Dot)
        exp == IF Peek(s, mant) \in {69, 101} THEN mant + 1 ELSE mant
        sign == IF exp > mant /\ Peek(s, exp) \in {Plus, Minus} THEN exp + 1 ELSE exp
        end == IF exp > mant THEN Skip(s, sign, Digit) ELSE mant
        power == (IF Peek(s, sign - 1) = Minus THEN -1 ELSE 1)
                 * ValueOf(SubSeq(s, sign, end - 1), 10)
        fraction == IF mant > point THEN mant - point - 1 ELSE 0
        num == Decimal(ValueOf(digits, 10), power - fraction)
    IN IF digits = <<>> THEN NoParse
       ELSE Parsed(NumberValue(IF s[i] = Minus THEN <<-num[1], num[2]>> ELSE num), end)

(* Slip: a text that ends inside an object ends the object. *)
ClosesAtEnd(c) == c \in {RBrace, End}

Closes(c) == c = RBrace

RECURSIVE ParseValue(_, _), ParseMembers(_, _, _), ParseElements(_, _, _)

(* parseObject, behind the value of a member. *)
AfterMember(s, key, val, obj) ==
    LET next == SkipWs(s, val.i)
        more == Set(obj, key, val.v)
    IN CASE Fails(val) -> NoParse
         [] ~Fails(val) /\ Closes(Peek(s, next)) -> Parsed(ObjectValue(more), next + 1)
         [] ~Fails(val) /\ Peek(s, next) = Comma -> ParseMembers(s, next + 1, more)
         [] OTHER -> NoParse

(* parseObject, behind a key. *)
AfterKey(s, key, obj) ==
    LET colon == SkipWs(s, key.i)
    IN IF Fails(key) \/ Peek(s, colon) # Colon THEN NoParse
       ELSE AfterMember(s, key.v.str, ParseValue(s, colon + 1), obj)

(* parseObject, at a key. *)
ParseMembers(s, i, obj) ==
    LET start == SkipWs(s, i)
    IN IF Peek(s, start) # Quote THEN NoParse
       ELSE AfterKey(s, ParseString(s, start + 1, <<>>), obj)

(* parseArray, behind an element. *)
AfterElement(s, val, arr) ==
    LET next == SkipWs(s, val.i)
        more == Append(arr, val.v)
    IN CASE Fails(val) -> NoParse
         [] ~Fails(val) /\ Peek(s, next) = RBracket -> Parsed(ArrayValue(more), next + 1)
         [] ~Fails(val) /\ Peek(s, next) = Comma -> ParseElements(s, next + 1, more)
         [] OTHER -> NoParse

(* parseArray, at an element. *)
ParseElements(s, i, arr) == AfterElement(s, ParseValue(s, i), arr)

ParseValue(s, i) ==
    LET at == SkipWs(s, i)
        c == Peek(s, at)
        inside == SkipWs(s, at + 1)
    IN CASE c = LBrace -> IF Peek(s, inside) = RBrace
                          THEN Parsed(ObjectValue(<<>>), inside + 1)
                          ELSE ParseMembers(s, inside, <<>>)
         [] c = LBracket -> IF Peek(s, inside) = RBracket
                            THEN Parsed(ArrayValue(<<>>), inside + 1)
                            ELSE ParseElements(s, inside, <<>>)
         [] c = Quote -> ParseString(s, at + 1, <<>>)
         [] c = 116 -> ParseWord(s, at, TrueWord, BoolValue(TRUE))
         [] c = 102 -> ParseWord(s, at, FalseWord, BoolValue(FALSE))
         [] c = 110 -> ParseWord(s, at, NullWord, NullValue)
         [] c = Minus \/ c \in Digit -> ParseNumber(s, at)
         [] OTHER -> NoParse

(* parse: one value and nothing but white space after it. *)
Whole(text, r) ==
    IF ~Fails(r) /\ SkipWs(text, r.i) > Len(text)
    THEN [ok |-> TRUE, v |-> r.v] ELSE [ok |-> FALSE, v |-> NullValue]

Parse(text) == Whole(text, ParseValue(text, 1))

=============================================================================
