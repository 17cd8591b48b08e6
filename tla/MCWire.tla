-------------------------------- MODULE MCWire --------------------------------
(* Small documents for Wire.                                                *)
EXTENDS Wire

Ascii(c, short) == [utf8 |-> <<c>>, units |-> <<c>>, short |-> short]

(* A letter, the characters with a short escape, a control character        *)
(* without one, and characters of two, three and four bytes: é, 买, 😀.     *)
Characters ==
    {Ascii(65, {}), Ascii(Quote, {Quote}), Ascii(Backslash, {Backslash}),
     Ascii(Slash, {Slash}), Ascii(8, {98}), Ascii(9, {116}), Ascii(LF, {110}),
     Ascii(12, {102}), Ascii(CR, {114}), Ascii(1, {}), Ascii(31, {}),
     [utf8 |-> <<195, 169>>, units |-> <<233>>, short |-> {}],
     [utf8 |-> <<228, 185, 176>>, units |-> <<20080>>, short |-> {}],
     [utf8 |-> <<240, 159, 152, 128>>, units |-> <<55357, 56832>>, short |-> {}]}

Key == <<116>>                      \* "t"
KeyText == <<Quote, 116, Quote>>

Member(text) == <<LBrace>> \o KeyText \o <<Colon>> \o text \o <<RBrace>>
Spaced(text) ==
    <<LF, LBrace, SP>> \o KeyText \o <<9, Colon, SP>> \o text \o <<CR, RBrace, SP>>

(* {"t": "<character>"} *)
StringDocument(char) ==
    [stamp |-> NoStamp, value |-> ObjectValue(<<<<Key, StringValue(char.utf8)>>>>),
     texts |-> {Member(<<Quote>> \o s \o <<Quote>>) : s \in Spellings(char)}]

(* {"t": <number>} *)
NumberDocument(num, texts) ==
    [stamp |-> NoStamp, value |-> ObjectValue(<<<<Key, NumberValue(num)>>>>),
     texts |-> {Member(text) : text \in texts}]

Zero == 48    One == 49    Two == 50    LetterE == 101

Numbers ==
    {NumberDocument(<<0, 0>>, {<<Zero>>, <<Zero, Dot, Zero>>}),
     NumberDocument(<<-12, 0>>, {<<Minus, One, Two>>,
                                 <<Minus, One, Dot, Two, LetterE, One>>}),
     NumberDocument(<<1, 2>>, {<<One, Zero, Zero>>, <<One, LetterE, Plus, Zero, Two>>,
                               <<One, Zero, Zero, Zero, 69, Minus, One>>})}

(* {"t": [true, {"t": null}, [], {}, false], "": 1}, close and with white   *)
(* space, and once with a "t" before that another "t" replaces.            *)
Nested ==
    LET inner == ArrayValue(<<BoolValue(TRUE), ObjectValue(<<<<Key, NullValue>>>>),
                              ArrayValue(<<>>), ObjectValue(<<>>), BoolValue(FALSE)>>)
        text == <<LBracket>> \o TrueWord \o <<Comma>> \o Member(NullWord)
                \o <<Comma, LBracket, RBracket, Comma, LBrace, RBrace, Comma>>
                \o FalseWord \o <<RBracket>>
        spaced == <<LBracket, SP>> \o TrueWord \o <<SP, Comma, LF>> \o Spaced(NullWord)
                  \o <<Comma, LBracket, SP, RBracket, Comma, LBrace, CR, RBrace, SP, Comma>>
                  \o FalseWord \o <<SP, RBracket>>
        tail == <<Comma, Quote, Quote, Colon, One, RBrace>>
    IN [stamp |-> NoStamp,
        value |-> ObjectValue(<<<<Key, inner>>, <<<<>>, NumberValue(<<1, 0>>)>>>>),
        texts |-> {Front(Member(text)) \o tail,
                   Front(Front(Spaced(spaced))) \o tail,
                   Front(Member(<<One>>)) \o <<Comma>> \o KeyText \o <<Colon>>
                   \o text \o tail}]

(* The first second, the turns of days, months, years and leap years, and   *)
(* the last second of a signed count.                                      *)
Stamps ==
    {[sec |-> 0, ms |-> 1], [sec |-> 68255999, ms |-> 999], [sec |-> 951782399, ms |-> 10],
     [sec |-> 951868800, ms |-> 0], [sec |-> 1709251199, ms |-> 100],
     [sec |-> 1735689599, ms |-> 0], [sec |-> 2147483647, ms |-> 999]}

(* {"t": "<time>"} *)
StampDocument(stamp, text) ==
    [stamp |-> stamp, value |-> ObjectValue(<<<<Key, StringValue(text)>>>>),
     texts |-> {Member(<<Quote>> \o text \o <<Quote>>)}]

Url == <<HttpScheme, HostName, Colon, 56, 48, 56, 48, Slash, OtherWord>>

MCCalls ==
    UNION {CallsFor(Url, StringDocument(char), {200}) : char \in Characters}
    \cup UNION {CallsFor(Url, document, {201}) : document \in Numbers}
    \cup UNION {UNION {CallsFor(Url, StampDocument(stamp, text), {200}) :
                        text \in InstantTexts(stamp)} : stamp \in Stamps}
    \cup CallsFor(Url, Nested, {200, 401})
    \cup UNION {CallsFor(url, StringDocument(Ascii(65, {})), {200}) :
                  url \in {<<HttpsScheme, HostName>>, <<HttpScheme, Slash>>,
                           <<HttpScheme, HostName>>}}

(* The answers to a registration, framed in every way. *)
FramedCalls == CallsFor(Url, StringDocument(Ascii(65, {})), {201})

=============================================================================
