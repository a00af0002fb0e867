---------------------------- MODULE JsonLexer -----------------------------
(***************************************************************************)
(* The lower half of the SAX reader of                                     *)
(* src/protocol/json/rapidjson/reader.h: white space, comments, literals   *)
(* and strings.                                                            *)
(*                                                                         *)
(* A text is a sequence of bytes; Nul ends it, as it ends a C string.  The *)
(* operators take x == [text, flags], the text and the parse flags, and a  *)
(* reading r == [at, ev, err]: the index of the next byte, the events the  *)
(* handler has been sent and the first error ("None" while there is none). *)
(* RAPIDJSON_PARSE_ERROR leaves every enclosing function, so an operator   *)
(* given a failed reading returns it as it is.  The handler never declines *)
(* an event (Document's members all return true).                          *)
(***************************************************************************)
EXTENDS Integers, Sequences, SequencesExt, Utf8

Nul == 0
Newline == 10
Space == 32
Quote == 34
Star == 42
Plus == 43
Comma == 44
Minus == 45
Point == 46
Slash == 47
Colon == 58
LBracket == 91
Backslash == 92
RBracket == 93
LowerU == 117
LBrace == 123
RBrace == 125
Blanks == {Space, Newline, 13, 9}
Digits == 48 .. 57

Peek(x, p) == IF p \in 1 .. Len(x.text) THEN x.text[p] ELSE Nul

Failed(r) == r.err # "None"
Fail(r, e) == [r EXCEPT !.err = e]
Take(r) == [r EXCEPT !.at = @ + 1]
Emit(r, e) == [r EXCEPT !.ev = Append(@, e)]

SkipWhitespace(x, p) ==
    CHOOSE q \in p .. Len(x.text) + 1 :
        /\ Peek(x, q) \notin Blanks
        /\ \A i \in p .. q - 1 : Peek(x, i) \in Blanks

\* The index after the comment that starts at p, 0 when it is not closed.
AfterComment(x, p) ==
    LET first(S) == IF S = {} THEN 0 ELSE CHOOSE i \in S : \A j \in S : i <= j
        open(i)  == \A j \in p .. i : Peek(x, j) # Nul
    IN  CASE Peek(x, p + 1) = Star ->
                first({i \in p + 4 .. Len(x.text) + 1 :
                          Peek(x, i - 1) = Slash /\ Peek(x, i - 2) = Star /\ open(i - 1)})
          [] Peek(x, p + 1) = Slash ->
                first({i \in p + 2 .. Len(x.text) + 1 :
                          Peek(x, i) = Nul \/ (i > p + 2 /\ Peek(x, i - 1) = Newline)})
          [] OTHER -> 0

\* White space and comments, for as long as there are any, from p on.
SkipWhitespaceAndComments(x, r) ==
    LET skip[p \in 1 .. Len(x.text) + 1] ==
            LET q == SkipWhitespace(x, p)
            IN  IF ~("Comments" \in x.flags /\ Peek(x, q) = Slash) THEN [r EXCEPT !.at = q]
                ELSE IF AfterComment(x, q) = 0
                THEN Fail([r EXCEPT !.at = q], "UnspecificSyntaxError")
                ELSE skip[AfterComment(x, q)]
    IN  IF Failed(r) THEN r ELSE skip[r.at]

Expect(x, r, c, e) ==
    IF Failed(r) THEN r
    ELSE IF Peek(x, r.at) = c THEN Take(r) ELSE Fail(r, e)

NullLetters == <<110, 117, 108, 108>>
TrueLetters == <<116, 114, 117, 101>>
FalseLetters == <<102, 97, 108, 115, 101>>

\* null, true and false: every letter must follow.
ParseLiteral(x, r, letters, event) ==
    LET wrong == {i \in 1 .. Len(letters) : Peek(x, r.at + i - 1) # letters[i]}
    IN  IF wrong = {} THEN Emit([r EXCEPT !.at = @ + Len(letters)], event)
        ELSE Fail([r EXCEPT !.at = @ + (CHOOSE i \in wrong : \A j \in wrong : i <= j) - 1],
                  "ValueInvalid")

---------------------------------------------------------------------------
(* Strings. *)

Escape ==
    [c \in {Quote, Slash, Backslash, 98, 102, 110, 114, 116} |->
        CASE c = 98 -> 8    [] c = 102 -> 12  [] c = 110 -> 10
          [] c = 114 -> 13  [] c = 116 -> 9   [] OTHER -> c]

HexDigit(c) == CASE c \in 48 .. 57  -> c - 48
                 [] c \in 65 .. 70  -> c - 55
                 [] c \in 97 .. 102 -> c - 87
                 [] OTHER -> -1

\* The code unit of the four hexadecimal digits at p, -1 when one is not.
ParseHex4(x, p) ==
    LET h(i) == HexDigit(Peek(x, p + i))
    IN  IF \E i \in 0 .. 3 : h(i) = -1 THEN -1
        ELSE h(0) * 4096 + h(1) * 256 + h(2) * 16 + h(3)

BadEscape(p, e) == [err |-> e, code |-> 0, at |-> p]

\* The code point of the surrogate pair whose escapes begin at p.
SurrogatePair(p, lead, trail) ==
    IF trail = -1 THEN BadEscape(p, "StringUnicodeEscapeInvalidHex")
    ELSE IF trail \notin 56320 .. 57343 THEN BadEscape(p, "StringUnicodeSurrogateInvalid")
    ELSE [err |-> "None", at |-> p + 12,
          code |-> (lead - 55296) * 1024 + (trail - 56320) + 65536]

\* The escape \uXXXX at p, whose digits are the unit lead, or the surrogate
\* pair it begins: the code point and the index after it.
Codepoint(x, p, lead) ==
    IF lead = -1 THEN BadEscape(p, "StringUnicodeEscapeInvalidHex")
    ELSE IF lead \notin 55296 .. 56319 THEN [err |-> "None", code |-> lead, at |-> p + 6]
    ELSE IF Peek(x, p + 6) = Backslash /\ Peek(x, p + 7) = LowerU
    THEN SurrogatePair(p, lead, ParseHex4(x, p + 8))
    ELSE BadEscape(p, "StringUnicodeSurrogateInvalid")

\* One turn of the loop of ParseStringToStream: c == [r, s, open], the
\* reading, what the stack holds of the string, whether the loop goes on.
StringTurn(x, c) ==
    LET p == c.r.at
        b == Peek(x, p)
        e == Peek(x, p + 1)
        on(k, t) == [c EXCEPT !.r.at = @ + k, !.s = @ \o t]
        stop(r) == [c EXCEPT !.r = r, !.open = FALSE]
        unit(u) == IF u.err # "None" THEN stop(Fail(c.r, u.err)) ELSE on(u.at - p, Encode(u.code))
        byte(n) == IF n = 0 THEN stop(Fail(c.r, "StringInvalidEncoding"))
                   ELSE on(n, SubSeq(x.text, p, p + n - 1))
    IN  IF ~c.open THEN c
        ELSE IF b = Backslash
        THEN IF e \in DOMAIN Escape THEN on(2, <<Escape[e]>>)
             ELSE IF e = LowerU THEN unit(Codepoint(x, p, ParseHex4(x, p + 2)))
             ELSE stop(Fail(c.r, "StringEscapeInvalid"))
        ELSE IF b = Quote THEN stop(Take(c.r))
        ELSE IF b = Nul THEN stop(Fail(c.r, "StringMissQuotationMark"))
        ELSE IF b < 32 THEN stop(Fail(c.r, "StringEscapeInvalid"))
        ELSE byte(IF "ValidateEncoding" \in x.flags THEN Validated(x.text, p) ELSE 1)

\* The loop, from the byte after the quote; a turn takes one byte or stops.
ParseStringToStream(x, r) ==
    LET turn[k \in 0 .. Len(x.text)] ==
            IF k = 0 THEN [r |-> r, s |-> <<>>, open |-> TRUE]
            ELSE LET before == turn[k - 1] IN StringTurn(x, before)
    IN  turn[Len(x.text)]

ParseString(x, r, isKey) ==
    LET done(read) == IF Failed(read.r) THEN read.r
                      ELSE Emit(read.r, [k |-> IF isKey THEN "Key" ELSE "String", s |-> read.s])
    IN  IF Failed(r) THEN r ELSE done(ParseStringToStream(x, Take(r)))
=============================================================================
