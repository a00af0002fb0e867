-------------------------------- MODULE Itoa --------------------------------
(***************************************************************************)
(* internal/itoa.h of src/protocol/json/rapidjson: the digits of an        *)
(* integer, two at a time from a table of the numbers below one hundred,   *)
(* four to a group; the leading zeros of the first group are not written.  *)
(***************************************************************************)
EXTENDS Integers, Sequences

DigitsLut(i) == 48 + IF i % 2 = 0 THEN (i \div 2) \div 10 ELSE (i \div 2) % 10

\* The four digits of n < 10000, and those without leading zeros.
Group(n) ==
    LET d1 == (n \div 100) * 2
        d2 == (n % 100) * 2
    IN  <<DigitsLut(d1), DigitsLut(d1 + 1), DigitsLut(d2), DigitsLut(d2 + 1)>>

FirstGroup(n) ==
    LET first == IF n >= 1000 THEN 1 ELSE IF n >= 100 THEN 2 ELSE IF n >= 10 THEN 3 ELSE 4
    IN  SubSeq(Group(n), first, 4)

\* Two groups, n < 100000000: all eight digits, or without leading zeros.
Eight(n) == Group(n \div 10000) \o Group(n % 10000)
UpToEight(n) == IF n < 10000 THEN FirstGroup(n)
                ELSE FirstGroup(n \div 10000) \o Group(n % 10000)

u32toa(value) ==
    IF value < 100000000 THEN UpToEight(value)
    ELSE FirstGroup(value \div 100000000) \o Eight(value % 100000000)

\* A value from 10^16 on has a first group of up to four digits, 1844.
u64toa(value) ==
    LET v0 == value \div 100000000
        v1 == value % 100000000
    IN  IF v0 = 0 THEN UpToEight(value)
        ELSE IF v0 < 100000000 THEN UpToEight(v0) \o Eight(v1)
        ELSE FirstGroup(v0 \div 100000000) \o Eight(v0 % 100000000) \o Eight(v1)

\* The minus sign, then the digits of the magnitude.
i32toa(value) == IF value < 0 THEN <<45>> \o u32toa(-value) ELSE u32toa(value)
i64toa(value) == IF value < 0 THEN <<45>> \o u64toa(-value) ELSE u64toa(value)
=============================================================================
