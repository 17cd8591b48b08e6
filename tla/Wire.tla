--------------------------------- MODULE Wire ---------------------------------
(* The answers of the server on their way to the code that reads them: a    *)
(* JSON text, framed by HTTP in one of the ways HTTP/1.1 knows, cut off     *)
(* anywhere, decoded by HttpClient and parsed by Json.  A call is           *)
(*   [url, answer, status, value, texts, last, stamp]:                      *)
(* "answer" has that status and one of "texts", the texts that mean         *)
(* "value"; "last" says that the header that frames it is the last one;     *)
(* "stamp" is the time that a member of the value spells, or NoStamp.       *)
EXTENDS HttpClient, JsonText, IsoTime

-----------------------------------------------------------------------------
(* What the server may write, by RFC 8259 and RFC 9112 (reference).         *)

Hex4(unit) ==
    <<DigitByte(unit \div 4096), DigitByte((unit \div 256) % 16),
      DigitByte((unit \div 16) % 16), DigitByte(unit % 16)>>

Upper(text) == [k \in DOMAIN text |-> IF text[k] \in 97 .. 102 THEN text[k] - 32 ELSE text[k]]

(* The ways to write a character [utf8, units, short]: its bytes, if they   *)
(* may stand in a string, a short escape, if it has one, and its UTF-16     *)
(* code units.                                                             *)
Spellings(char) ==
    (IF char.utf8[1] >= 32 /\ char.utf8[1] \notin {Quote, Backslash}
     THEN {char.utf8} ELSE {})
    \cup {<<Backslash, e>> : e \in char.short}
    \cup {FlattenSeq([k \in DOMAIN char.units |-> <<Backslash, 117>> \o hex[k]]) :
            hex \in {[k \in DOMAIN char.units |-> Hex4(char.units[k])],
                     [k \in DOMAIN char.units |-> Upper(Hex4(char.units[k]))]}}

NoStamp == [sec |-> 0, ms |-> -1]

(* Instant.parse takes a fraction of three digits, or none for a whole      *)
(* second, which is how Instant.toString writes it.                        *)
InstantTexts(stamp) ==
    LET second == DateAndTime(GmTime(stamp.sec))
    IN {second \o <<Dot>> \o Padded(stamp.ms, 3) \o <<LetterZ>>}
       \cup (IF stamp.ms = 0 THEN {second \o <<LetterZ>>} ELSE {})

(* The ways to send a body: [lines, bytes], the framing header and what     *)
(* follows the head.  Chunks are of k bytes, a junk of bytes may follow.    *)
RECURSIVE Chunks(_, _, _)
Chunks(body, k, ext) ==
    IF body = <<>> THEN Written(0, 16) \o CRLF \o CRLF
    ELSE LET n == IF Len(body) < k THEN Len(body) ELSE k
         IN Written(n, 16) \o ext \o CRLF \o SubSeq(body, 1, n) \o CRLF
            \o Chunks(Rest(body, n + 1), k, ext)

Framings(body) ==
    {[header |-> <<TransferEncoding + 100, Colon, SP, Chunked>>,
      bytes |-> Chunks(body, k, ext)] :
        k \in {1, 7, 40}, ext \in {<<>>, <<Semicolon, OtherWord>>}}
    \cup {[header |-> <<ContentLength, Colon, SP>> \o Written(Len(body), 10),
           bytes |-> body \o junk] : junk \in {<<>>, <<LBrace>>}}
    \cup {[header |-> <<>>, bytes |-> body]}

(* A whole answer; the header that frames it comes before or after others.  *)
Answer(status, framing, last) ==
    LET other == <<OtherName, Colon, SP, OtherWord>>
        lines == IF framing.header = <<>> THEN <<other>>
                 ELSE IF last THEN <<other, framing.header>>
                 ELSE <<framing.header, other>>
    IN <<HttpVersion, SP>> \o Written(status, 10) \o <<SP, Reason>> \o CRLF
       \o FlattenSeq([k \in DOMAIN lines |-> lines[k] \o CRLF])
       \o CRLF \o framing.bytes

CallsFor(url, document, statuses) ==
    UNION {{[url |-> url, status |-> status, value |-> document.value,
             texts |-> document.texts, stamp |-> document.stamp, last |-> last /\ framing.header # <<>>,
             answer |-> Answer(status, framing, last)] :
               framing \in Framings(text), last \in BOOLEAN, status \in statuses} :
               text \in document.texts}

-----------------------------------------------------------------------------
(* What SyncEngine and SyncController make something of: a Response that is *)
(* ok and whose body parses, as an object (find finds nothing in any other  *)
(* value).                                                                 *)
Understood ==
    stage = "Done" /\ Ok(out) /\ Parse(out.body).v.type = "Object"

(* The engine and the registration act on what they understand without any *)
(* check of its length (SyncEngine.cpp:157, 184, SyncController.cpp:110):   *)
(* recv treats a timeout like an end, a short body and an incomplete chunk  *)
(* are accepted in silence, and yet an answer cut off anywhere, or framed   *)
(* in a way that is overlooked, is never taken for another answer.          *)
WholeOrNothing ==
    Understood => call.status \in 200 .. 299 /\ Parse(out.body).v = call.value

(* An answer that arrives whole is understood, however it is framed (chunks *)
(* of any size, extensions, bytes after the body) and spelled (escapes,     *)
(* surrogate pairs, white space, numbers) - if the header that frames it    *)
(* is not the last one.                                                    *)
ArrivedAnswerUnderstood ==
    (/\ stage = "Done" /\ ~out.error
     /\ received = Len(call.answer) /\ ~call.last /\ call.status \in 200 .. 299)
    => Understood /\ Parse(out.body).v = call.value

(* The client is said to handle chunked answers (README.md:22, "含 chunked",*)
(* HttpClient.cpp:191, "解码 chunked 响应体"), wherever the header stands.   *)
ChunkedUnderstood ==
    (/\ stage = "Done" /\ ~out.error /\ Contains(call.answer, Chunked)
     /\ received = Len(call.answer) /\ call.status \in 200 .. 299)
    => Understood

(* What dump writes for a request is JSON with that meaning: one of the     *)
(* texts of the value, which parse reads back, and of which no proper       *)
(* beginning parses, so that a request cut off is refused too.              *)
RequestsAreJson ==
    stage = "Start" =>
      LET text == Dump(call.value)
      IN /\ text \in call.texts
         /\ Parse(text) = [ok |-> TRUE, v |-> call.value]
         /\ \A n \in 0 .. Len(text) - 1 : ~Parse(SubSeq(text, 1, n)).ok

(* The stamp of an item arrives at the server as it left the device         *)
(* (itemToWire), and at another device as the first one made it             *)
(* (itemFromWire), in leap years and whole seconds too: the merge compares  *)
(* stamps for equality, and a stamp that changed would be another write.    *)
StampsSurvive ==
    call.stamp # NoStamp =>
      /\ stage = "Start" => IsoFromMs(call.stamp) \in InstantTexts(call.stamp)
      /\ Understood => MsFromIso(Parse(out.body).v.obj[1][2].str) = call.stamp

=============================================================================
