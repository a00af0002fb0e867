----------------------------- MODULE JsonTexts -----------------------------
(***************************************************************************)
(* Texts as they arrive, piece by piece, each prefix read by both parsers  *)
(* of JsonReader: every text that is still the beginning of some legal one *)
(* is extended, the others are read once.                                  *)
(***************************************************************************)
EXTENDS JsonReader

CONSTANT Scripts     \* records [seed, pieces, more, flags]: where a text
                     \* starts, what may follow, how often, the parse flags

VARIABLES script,    \* the script this text follows
          text,      \* the bytes so far
          typed,     \* how many pieces they are
          read,      \* what Parse made of them
          iterated   \* what IterativeParse made of them

vars == <<script, text, typed, read, iterated>>

Start(s, t) ==
    /\ script = s /\ text = t /\ typed = 0
    /\ read = Parse([text |-> t, flags |-> s.flags])
    /\ iterated = IterativeParse([text |-> t, flags |-> s.flags])

Init == \E s \in Scripts : Start(s, s.seed)

\* One more piece, unless the reader has already stopped inside the text.
Type(piece) ==
    /\ typed < script.more
    /\ ~Failed(read) \/ read.at > Len(text)
    /\ text' = text \o piece
    /\ typed' = typed + 1
    /\ read' = Parse([text |-> text \o piece, flags |-> script.flags])
    /\ iterated' = IterativeParse([text |-> text \o piece, flags |-> script.flags])
    /\ UNCHANGED script

Next == \E piece \in script.pieces : Type(piece)

---------------------------------------------------------------------------
(* Properties. *)

\* The iterative parser, whose states come from a table, accepts the texts
\* the recursive one accepts and calls the handler with the same events in
\* the same order; a text it rejects it rejects at the same byte for the same
\* reason (a text that cannot begin at all is "empty" to it and an invalid
\* value to the other).
ParsersAgree ==
    /\ iterated.ev = read.ev
    /\ iterated.at = read.at
    /\ \/ iterated.err = read.err
       \/ iterated.err = "DocumentEmpty" /\ read.err = "ValueInvalid" /\ read.ev = <<>>

\* The number a sequence of decimal digits stands for.
Decimal(s) == FoldLeft(LAMBDA n, c : n * 10 + (c - 48), 0, s)

\* The ways to cut t into sign, integer, fraction and exponent that the
\* grammar of JSON allows (there is at most one).
Parts(t) ==
    LET all(i, j) == \A k \in i .. j : t[k] \in Digits
        first == IF t # <<>> /\ t[1] = Minus THEN 2 ELSE 1
        N == Len(t)
    IN  {c \in [point : first + 1 .. N + 1, e : first + 1 .. N + 1] :
            /\ c.point <= c.e /\ all(first, c.point - 1)
            /\ t[first] = 48 => c.point = first + 1
            /\ c.point < c.e => t[c.point] = Point /\ c.e > c.point + 1
                                /\ all(c.point + 1, c.e - 1)
            /\ c.e <= N =>
                  LET d == IF c.e < N /\ t[c.e + 1] \in {Plus, Minus} THEN c.e + 2 ELSE c.e + 1
                  IN  t[c.e] \in Exponents /\ d <= N /\ all(d, N)}

\* The largest magnitude of an integer in so many bits.
Largest(bits, minus) == IF minus THEN 2 ^ (bits - 1) ELSE 2 ^ bits - 1

\* What ParseNumber delivers is the number written: a text is accepted when
\* it is a JSON number (or refused as too big), an integer comes in the
\* narrowest type that holds it with its exact value, and a number with a
\* fraction or an exponent keeps its value as long as its digits fit the
\* significand.  The hazard is at the boundaries, where one digit more moves
\* the number from one type to the next.
NumbersAreExact ==
    script.seed = <<>> /\ script.pieces \subseteq {<<c>> : c \in Digits \cup {Minus, Point} \cup Exponents}
    =>  /\ Failed(read) => Parts(text) = {} \/ read.err = "NumberTooBig"
        /\ ~Failed(read) => \E c \in Parts(text) :
              LET minus == text[1] = Minus
                  int   == SubSeq(text, IF minus THEN 2 ELSE 1, c.point - 1)
                  frac  == SubSeq(text, c.point + 1, c.e - 1)
                  sign  == IF c.e < Len(text) /\ text[c.e + 1] = Minus THEN -1 ELSE 1
                  exp   == IF c.e > Len(text) THEN 0
                           ELSE sign * Decimal(SelectSeq(SubSeq(text, c.e + 1, Len(text)),
                                                         LAMBDA b : b \in Digits))
                  n     == Decimal(int)
                  e     == read.ev[1]
                  whole == c.point > Len(text)
                  m     == Decimal(int \o frac)
              IN  IF e.k = "Double"
                  THEN /\ ~whole \/ n > Largest(LongBits, minus)
                       /\ Len(int \o frac) <= SignificandDigits =>
                             \E k \in 0 .. Len(frac) :
                                /\ e.p = exp - Len(frac) + k
                                /\ (IF e.v < 0 THEN -e.v ELSE e.v) * 10 ^ k = m
                  ELSE /\ whole /\ e.v = (IF minus THEN -n ELSE n)
                       /\ e.k = IF n <= Largest(IntBits, minus)
                                THEN (IF minus THEN "Int" ELSE "Uint")
                                ELSE (IF minus THEN "Int64" ELSE "Uint64")

\* The code points of a byte sequence, read from its front.
RECURSIVE CodepointsFrom(_, _)
CodepointsFrom(s, p) ==
    IF p > Len(s) THEN <<>>
    ELSE LET n == Validated(s, p)
             escaped == p + 2 <= Len(s) /\ s[p] = 237 /\ s[p + 1] \in 176 .. 191
         IN  CASE n > 0 -> <<Decode(s, p)>> \o CodepointsFrom(s, p + n)
               [] escaped -> <<56320>> \o CodepointsFrom(s, p + 3)
               [] OTHER -> <<-1>> \o CodepointsFrom(s, p + 1)

\* Under kParseValidateEncoding a string handed to the handler is UTF-8: each
\* code point is a Unicode scalar value in its shortest form, whether it came
\* as bytes, as an escape or as an escaped surrogate pair.  (One exception
\* the code makes: an escaped low surrogate without a lead is encoded as it
\* is, CodepointsFrom gives it as 56320.)
ValidatedIsUnicode ==
    "ValidateEncoding" \in script.flags =>
        \A i \in DOMAIN read.ev : read.ev[i].k \in {"String", "Key"} =>
            LET cs == CodepointsFrom(read.ev[i].s, 1)
            IN  /\ \A j \in DOMAIN cs : \/ cs[j] \in 0 .. 55295 \/ cs[j] \in 57344 .. 1114111
                                         \/ cs[j] = 56320
                /\ (\A j \in DOMAIN cs : cs[j] # 56320)
                      => FoldLeft(LAMBDA t, c : t \o Encode(c), <<>>, cs) = read.ev[i].s
=============================================================================
