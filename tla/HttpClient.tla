------------------------------ MODULE HttpClient ------------------------------
(* HttpClient.cpp: one request on a connection of its own.  The bytes of    *)
(* "answer" are what the server sends; each piece recv returns is some more *)
(* of them, and an end, an error and a timeout of recv look the same.       *)
(* In a head, a name and a word of a value are one symbol each.             *)
EXTENDS Bytes

CONSTANTS
    Calls,          \* what may be asked and answered: [url, answer, ...]
    BufSize         \* the size of buf, 8192 in the code

ASSUME BufSizeAssumption == BufSize \in Nat \ {0}

(* Symbols of heads and of URLs beyond the bytes; those of names in upper   *)
(* case are the ones above 300.                                            *)
HttpVersion == 256    Reason == 257          HttpScheme == 258   HttpsScheme == 259
HostName == 260       ContentLength == 261   TransferEncoding == 262
Chunked == 263        OtherName == 264       OtherWord == 265

VARIABLES
    call,           \* the call under way
    stage,          \* where roundtrip is
    received,       \* raw.size(): how much of the answer has arrived
    out             \* the Response

vars == <<call, stage, received, out>>

NoResponse == [status |-> 0, body |-> <<>>, error |-> FALSE]
Error == [NoResponse EXCEPT !.error = TRUE]

(* Response::ok *)
Ok(r) == ~r.error /\ r.status \in 200 .. 299

(* splitUrl: what is between the scheme and the first slash is the host, up *)
(* to its first colon.                                                     *)
SplitUrl(url) ==
    LET slash == FindFrom(url, <<Slash>>, 2)
        authority == SubSeq(url, 2, IF slash = 0 THEN Len(url) ELSE slash - 1)
        colon == FindFrom(authority, <<Colon>>, 1)
    IN [ok |-> Peek(url, 1) = HttpScheme /\ authority # <<>> /\ colon # 1,
        host |-> IF colon = 0 THEN authority ELSE SubSeq(authority, 1, colon - 1),
        port |-> IF colon = 0 THEN <<56, 48>> ELSE Rest(authority, colon + 1),
        path |-> IF slash = 0 THEN <<Slash>> ELSE Rest(url, slash)]

-----------------------------------------------------------------------------
(* parseResponse *)

ToLower(name) == IF name > 300 THEN name - 100 ELSE name

(* The lines of the head that the loop over the headers sees: those with a  *)
(* line end inside the head, which the last one does not have.              *)
RECURSIVE LinesOf(_)
LinesOf(head) ==
    LET eol == FindFrom(head, CRLF, 1)
    IN IF eol = 0 THEN <<>>
       ELSE <<SubSeq(head, 1, eol - 1)>> \o LinesOf(Rest(head, eol + 2))

(* A header line without its white space, the name in lower case; a line    *)
(* without a colon is skipped.                                             *)
Header(line) ==
    [name |-> IF FindFrom(line, <<Colon>>, 1) = 2 THEN ToLower(line[1]) ELSE OtherName,
     val |-> Rest(line, Skip(line, 3, Space))]

(* Slip: the line end after a chunk stays in the way. *)
RECURSIVE DecodeChunkedEndless(_)
DecodeChunkedEndless(body) ==
    LET eol == FindFrom(body, CRLF, 1)
        chunk == LeadingNumber(SubSeq(body, 1, eol - 1), 16)
    IN IF eol = 0 \/ chunk = 0 \/ eol + 1 + chunk > Len(body) THEN <<>>
       ELSE SubSeq(body, eol + 2, eol + 1 + chunk)
            \o DecodeChunkedEndless(Rest(body, eol + 2 + chunk))

(* decodeChunked: extensions are ignored, and an incomplete chunk with all  *)
(* that follows it.                                                        *)
RECURSIVE DecodeChunked(_)
DecodeChunked(body) ==
    LET eol == FindFrom(body, CRLF, 1)
        semi == FindFrom(SubSeq(body, 1, eol - 1), <<Semicolon>>, 1)
        chunk == LeadingNumber(SubSeq(body, 1, (IF semi = 0 THEN eol ELSE semi) - 1), 16)
        next == eol + 2 + chunk
    IN IF eol = 0 \/ chunk = 0 \/ next - 1 > Len(body) THEN <<>>
       ELSE SubSeq(body, eol + 2, next - 1)
            \o (IF Peek(body, next) = CR /\ Peek(body, next + 1) = LF
                THEN DecodeChunked(Rest(body, next + 2)) ELSE <<>>)

ParseResponse(raw) ==
    LET headEnd == FindFrom(raw, CRLF \o CRLF, 1)
        head == SubSeq(raw, 1, headEnd - 1)
        rest == Rest(raw, headEnd + 4)
        sp1 == FindFrom(head, <<SP>>, 1)
        lines == LinesOf(head)
        headers == [k \in DOMAIN lines |-> Header(lines[k])]
        chunked == \E k \in DOMAIN headers :
                      /\ headers[k].name = TransferEncoding
                      /\ Contains(headers[k].val, Chunked)
        lengths == SelectSeq(headers, LAMBDA h : h.name = ContentLength)
        cl == IF lengths = <<>> THEN Len(rest)
              ELSE LeadingNumber(Last(lengths).val, 10)
    IN IF headEnd = 0 \/ sp1 = 0 THEN Error
       ELSE [status |-> LeadingNumber(Rest(head, sp1 + 1), 10),
             body |-> CASE chunked -> DecodeChunked(rest)
                        [] ~chunked /\ Len(rest) > cl -> SubSeq(rest, 1, cl)
                        [] OTHER -> rest,
             error |-> FALSE]

-----------------------------------------------------------------------------
(* roundtrip *)

Init ==
    /\ call \in Calls
    /\ stage = "Start"
    /\ received = 0
    /\ out = NoResponse

Returns(response) == stage' = "Done" /\ out' = response /\ UNCHANGED <<call, received>>

(* The URL does not split, the name does not resolve, or nobody listens. *)
ConnectFails ==
    /\ stage = "Start"
    /\ Returns(Error)

Connect ==
    /\ stage = "Start"
    /\ SplitUrl(call.url).ok
    /\ stage' = "Sending"
    /\ UNCHANGED <<call, received, out>>

SendFails ==
    /\ stage = "Sending"
    /\ Returns(Error)

Send ==
    /\ stage = "Sending"
    /\ stage' = "Receiving"
    /\ UNCHANGED <<call, received, out>>

Recv ==
    /\ stage = "Receiving"
    /\ \E n \in 1 .. BufSize :
         /\ received + n <= Len(call.answer)
         /\ received' = received + n
    /\ UNCHANGED <<call, stage, out>>

(* recv returned nothing: the server closed, or ten seconds passed. *)
RecvEnds ==
    /\ stage = "Receiving"
    /\ Returns(ParseResponse(SubSeq(call.answer, 1, received)))

Next == ConnectFails \/ Connect \/ SendFails \/ Send \/ Recv \/ RecvEnds

Spec == Init /\ [][Next]_vars

=============================================================================
