-------------------------------- MODULE IsoTime --------------------------------
(* SyncEngine.cpp: stamps of items as ISO-8601 texts and back.  A stamp,    *)
(* milliseconds since 1970 in the code, is [sec, ms], ms / 1000 and         *)
(* ms % 1000, of a clock between 1970 and 2038.                             *)
EXTENDS Bytes

LetterT == 84    LetterZ == 90

-----------------------------------------------------------------------------
(* gmtime and timegm                                                        *)

Leap(y) == (y % 4 = 0 /\ y % 100 # 0) \/ y % 400 = 0

DaysIn(y, mo) ==
    CASE mo = 2 -> IF Leap(y) THEN 29 ELSE 28
      [] mo \in {4, 6, 9, 11} -> 30
      [] OTHER -> 31

(* Days since 1970-01-01. *)
DayNumber(y, mo, d) ==
    LET leapDays == Cardinality({x \in 1970 .. y - 1 : Leap(x)})
    IN 365 * (y - 1970) + leapDays
       + FoldLeft(LAMBDA n, m : n + DaysIn(y, m), 0, [m \in 1 .. mo - 1 |-> m]) + d - 1

TimeGm(t) == DayNumber(t.y, t.mo, t.d) * 86400 + t.h * 3600 + t.mi * 60 + t.s

GmTime(sec) ==
    LET day == sec \div 86400
        y == CHOOSE x \in 1970 .. 2038 : DayNumber(x, 1, 1) <= day /\ day < DayNumber(x + 1, 1, 1)
        mo == CHOOSE x \in 1 .. 12 : LET d == day - DayNumber(y, x, 1) IN d >= 0 /\ d < DaysIn(y, x)
    IN [y |-> y, mo |-> mo, d |-> 1 + day - DayNumber(y, mo, 1),
        h |-> (sec \div 3600) % 24, mi |-> (sec \div 60) % 60, s |-> sec % 60]

-----------------------------------------------------------------------------
Padded(n, width) == [k \in 1 .. width |-> 48 + ((n \div 10^(width - k)) % 10)]

(* A date and a time as strftime writes them. *)
DateAndTime(t) ==
    Padded(t.y, 4) \o <<Minus>> \o Padded(t.mo, 2) \o <<Minus>> \o Padded(t.d, 2)
    \o <<LetterT>> \o Padded(t.h, 2) \o <<Colon>> \o Padded(t.mi, 2)
    \o <<Colon>> \o Padded(t.s, 2)

IsoFromMs(stamp) ==
    DateAndTime(GmTime(stamp.sec)) \o <<Dot>> \o Padded(stamp.ms, 3) \o <<LetterZ>>

(* Slip: a whole second, which the server writes without a fraction, is not *)
(* a time.                                                                 *)
MsFromIsoNeedsFraction(iso) ==
    LET field(i, n) == ValueOf(SubSeq(iso, i, i + n - 1), 10)
        dot == FindFrom(iso, <<Dot>>, 1)
    IN IF dot = 0 THEN [sec |-> 0, ms |-> 0]
       ELSE [sec |-> TimeGm([y |-> field(1, 4), mo |-> field(6, 2), d |-> field(9, 2),
                             h |-> field(12, 2), mi |-> field(15, 2), s |-> field(18, 2)]),
             ms |-> field(dot + 1, 3)]

(* sscanf on a text whose fields have their full widths, as all writers     *)
(* pad them; then at most three digits of the fraction.                    *)
MsFromIso(iso) ==
    LET field(i, n) == ValueOf(SubSeq(iso, i, i + n - 1), 10)
        scans == /\ Len(iso) >= 19
                 /\ \A k \in 1 .. 19 :
                      CASE k \in {5, 8} -> iso[k] = Minus
                        [] k = 11 -> iso[k] = LetterT
                        [] k \in {14, 17} -> iso[k] = Colon
                        [] OTHER -> iso[k] \in Digit
        dot == FindFrom(iso, <<Dot>>, 1)
        last == IF dot = 0 THEN 0 ELSE Skip(iso, dot + 1, Digit) - 1
        digits == SubSeq(iso, dot + 1, IF last > dot + 3 THEN dot + 3 ELSE last)
    IN IF ~scans THEN [sec |-> 0, ms |-> 0]
       ELSE [sec |-> TimeGm([y |-> field(1, 4), mo |-> field(6, 2), d |-> field(9, 2),
                             h |-> field(12, 2), mi |-> field(15, 2), s |-> field(18, 2)]),
             ms |-> ValueOf(digits, 10) * 10^(3 - Len(digits))]

=============================================================================
