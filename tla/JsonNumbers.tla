---------------------------- MODULE JsonNumbers ----------------------------
(***************************************************************************)
(* Numbers: ParseNumber of src/protocol/json/rapidjson/reader.h.           *)
(*                                                                         *)
(* Integers have IntBits and LongBits bits for the 32 and 64 of the code   *)
(* and the bounds ParseNumber puts on doubles are constants.  A double is  *)
(* the exact decimal v * 10^p: its rounding is left out.                   *)
(***************************************************************************)
EXTENDS JsonLexer

CONSTANTS IntBits,            \* 32
          LongBits,           \* 64
          SignificandDigits,  \* 17
          FastLimit,          \* 2^53 - 1
          HugeDouble,         \* DBL_MAX / 10
          MaxExponent,        \* 308
          HugeExponent        \* 214748364

\* What the code's own values satisfy: a digit is an int, an int is narrower
\* than an int64_t, one more digit of the fast path fits, a one-digit
\* exponent is never huge.
ASSUME NumbersAssumption ==
    /\ IntBits \in Nat \ 0 .. 4 /\ LongBits > IntBits
    /\ FastLimit * 10 + 9 < 2 ^ LongBits
    /\ MaxExponent > 9 /\ HugeExponent > 9

Digit(x, p) == Peek(x, p) - 48
AtDigit(x, p) == Digit(x, p) \in 0 .. 9

\* Mutation: the most negative number of a width taken to need the next one.
LimitSymmetric(bits, minus) == IF minus THEN 2 ^ (bits - 1) - 1 ELSE 2 ^ bits - 1

\* The largest magnitude an integer of so many bits has on this side of zero.
Limit(bits, minus) == IF minus THEN 2 ^ (bits - 1) ELSE 2 ^ bits - 1

\* The digits at p taken into n, of which d are counted, while n stays in the
\* limit: the code compares n with limit / 10 and the digit with limit % 10.
RECURSIVE TakeDigits(_, _, _, _, _)
TakeDigits(x, p, n, d, limit) ==
    IF /\ AtDigit(x, p)
       /\ n < limit \div 10 \/ (n = limit \div 10 /\ Digit(x, p) <= limit % 10)
    THEN TakeDigits(x, p + 1, n * 10 + Digit(x, p), d + 1, limit)
    ELSE [at |-> p, n |-> n, d |-> d]

\* A number too wide for 64 bits goes on as a double; -1 when that overflows.
RECURSIVE TakeAsDouble(_, _, _)
TakeAsDouble(x, p, n) ==
    CASE ~AtDigit(x, p) -> [at |-> p, n |-> n]
      [] n >= HugeDouble -> [at |-> p, n |-> -1]
      [] OTHER -> TakeAsDouble(x, p + 1, n * 10 + Digit(x, p))

\* int = zero / ( digit1-9 *DIGIT ), and the width it needs.
ParseInt(x, p, minus) ==
    LET narrow == TakeDigits(x, p + 1, Digit(x, p), 0, Limit(IntBits, minus))
        wide   == TakeDigits(x, narrow.at, narrow.n, narrow.d, Limit(LongBits, minus))
        double == TakeAsDouble(x, wide.at, wide.n)
        is(width, t, d) == [width |-> width, at |-> t.at, n |-> t.n, d |-> d]
    IN  CASE Digit(x, p) = 0 -> [width |-> "Int", at |-> p + 1, n |-> 0, d |-> 0]
          [] ~AtDigit(x, narrow.at) -> is("Int", narrow, narrow.d)
          [] ~AtDigit(x, wide.at) -> is("Long", wide, wide.d)
          [] OTHER -> is("Double", double, wide.d)

\* frac = decimal-point 1*DIGIT: exact up to FastLimit, then the significant
\* digits only; zeros before the first other digit are not counted.
RECURSIVE TakeFraction(_, _, _)
TakeFraction(x, f, fast) ==
    LET n == f.n * 10 + Digit(x, f.at)
        taken == [f EXCEPT !.at = @ + 1, !.n = n, !.exp = @ - 1,
                           !.d = IF n > 0 THEN @ + 1 ELSE @]
    IN  CASE ~AtDigit(x, f.at) -> f
          [] fast /\ f.n > FastLimit -> TakeFraction(x, f, FALSE)
          [] fast \/ f.d < SignificandDigits -> TakeFraction(x, taken, fast)
          [] OTHER -> TakeFraction(x, [f EXCEPT !.at = @ + 1], fast)

\* The digits of an exponent; -1 when it is too big.
RECURSIVE TakeExponent(_, _, _, _, _)
TakeExponent(x, p, e, minus, max) ==
    LET next == e * 10 + Digit(x, p)
    IN  CASE ~AtDigit(x, p) -> [at |-> p, e |-> e]
          [] minus /\ e >= HugeExponent -> TakeExponent(x, p + 1, e, minus, max)
          [] ~minus /\ next > max -> [at |-> p + 1, e |-> -1]
          [] OTHER -> TakeExponent(x, p + 1, next, minus, max)

Exponents == {69, 101}

\* exp = e [ minus / plus ] 1*DIGIT at p, after a fraction of exponent frac.
ParseExponent(x, p, frac) ==
    LET minus == Peek(x, p + 1) = Minus
        q     == IF Peek(x, p + 1) \in {Plus, Minus} THEN p + 2 ELSE p + 1
        t     == TakeExponent(x, q + 1, Digit(x, q), minus, MaxExponent - frac)
    IN  CASE ~AtDigit(x, q) -> [at |-> q, e |-> 0, err |-> "NumberMissExponent"]
          [] t.e = -1 -> [at |-> t.at, e |-> 0, err |-> "NumberTooBig"]
          [] OTHER -> [at |-> t.at, e |-> IF minus THEN -t.e ELSE t.e, err |-> "None"]

\* The end of ParseNumber, with what was read of the integer, of the fraction
\* and of the exponent.
Deliver(x, r, minus, i, f, e) ==
    LET point == Peek(x, i.at) = Point
        sign(n) == IF minus THEN -n ELSE n
        done(event) == Emit([r EXCEPT !.at = e.at], event)
    IN  CASE i.n = -1 -> Fail(r, "NumberTooBig")
          [] point /\ ~AtDigit(x, i.at + 1) ->
                Fail([r EXCEPT !.at = i.at + 1], "NumberMissFraction")
          [] e.err = "NumberMissExponent" -> Fail([r EXCEPT !.at = e.at], e.err)
          [] e.err = "NumberTooBig" -> Fail(r, e.err)
          [] point \/ e.at # f.at \/ i.width = "Double" ->
                done([k |-> "Double", v |-> sign(f.n), p |-> e.e + f.exp])
          [] i.width = "Long" ->
                done([k |-> IF minus THEN "Int64" ELSE "Uint64", v |-> sign(i.n)])
          [] OTHER -> done([k |-> IF minus THEN "Int" ELSE "Uint", v |-> sign(i.n)])

AfterFraction(x, r, minus, i, f) ==
    Deliver(x, r, minus, i, f,
            IF Peek(x, f.at) \in Exponents THEN ParseExponent(x, f.at, f.exp)
            ELSE [at |-> f.at, e |-> 0, err |-> "None"])

AfterInt(x, r, minus, i) ==
    LET none == [at |-> i.at, n |-> i.n, exp |-> 0, d |-> i.d]
    IN  AfterFraction(x, r, minus, i,
                      IF Peek(x, i.at) = Point
                      THEN TakeFraction(x, [none EXCEPT !.at = @ + 1], i.width # "Double")
                      ELSE none)

ParseNumber(x, r) ==
    LET minus == Peek(x, r.at) = Minus
        first == IF minus THEN r.at + 1 ELSE r.at
    IN  IF AtDigit(x, first) THEN AfterInt(x, r, minus, ParseInt(x, first, minus))
        ELSE Fail([r EXCEPT !.at = first], "ValueInvalid")
=============================================================================
