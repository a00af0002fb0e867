------------------------------- MODULE Utf8 -------------------------------
(***************************************************************************)
(* UTF8<char> of src/protocol/json/rapidjson/encodings.h: the encoder the  *)
(* reader uses for \uXXXX escapes, and the decoder and validator, which    *)
(* classify bytes by a table of ranges.                                    *)
(***************************************************************************)
EXTENDS Integers, Sequences, TLC

Encode(codepoint) ==
    LET tail(unit) == 128 + ((codepoint \div unit) % 64)
    IN  IF codepoint <= 127 THEN <<codepoint>>
        ELSE IF codepoint <= 2047 THEN <<192 + codepoint \div 64, tail(1)>>
        ELSE IF codepoint <= 65535 THEN <<224 + codepoint \div 4096, tail(64), tail(1)>>
        ELSE <<240 + codepoint \div 262144, tail(4096), tail(64), tail(1)>>

\* Mutation: 224 leads like the others of three bytes, overlong forms and all.
GetRangeOverlong(c) ==
    CASE c \in 0 .. 127   -> 0    [] c \in 128 .. 143 -> 16
      [] c \in 144 .. 159 -> 64   [] c \in 160 .. 191 -> 32
      [] c \in 194 .. 223 -> 2    [] c \in 224 .. 239 -> 3
      [] c = 240 -> 11            [] c \in 241 .. 243 -> 6
      [] c = 244 -> 5             [] OTHER -> 8

\* GetRange's table: the sets of trailing bytes are the bits 16, 32 and 64,
\* the leading bytes have a type of their own, 8 is never legal.
GetRange(c) ==
    CASE c \in 0 .. 127   -> 0    [] c \in 128 .. 143 -> 16
      [] c \in 144 .. 159 -> 64   [] c \in 160 .. 191 -> 32
      [] c \in 194 .. 223 -> 2    [] c = 224 -> 10
      [] c = 237 -> 4             [] c \in 225 .. 239 \ {237} -> 3
      [] c = 240 -> 11            [] c \in 241 .. 243 -> 6
      [] c = 244 -> 5             [] OTHER -> 8

Trail == {16, 32, 64}                                   \* TRANS(0x70)

\* The ranges each byte after the first may be in, by the type of the first.
Follow ==
    [type \in {2, 3, 4, 5, 6, 10, 11} |->
        CASE type = 2  -> <<Trail>>
          [] type = 3  -> <<Trail, Trail>>
          [] type = 4  -> <<{16, 64}, Trail>>
          [] type = 5  -> <<{16}, Trail, Trail>>
          [] type = 6  -> <<Trail, Trail, Trail>>
          [] type = 10 -> <<{32}, Trail>>
          [] type = 11 -> <<{32, 64}, Trail, Trail>>]

ByteAt(t, p) == IF p \in 1 .. Len(t) THEN t[p] ELSE 0

\* How many bytes the sequence at p of t has, 0 when it is not valid.
Validated(t, p) ==
    LET type == GetRange(ByteAt(t, p))
        follows == \A i \in DOMAIN Follow[type] : GetRange(ByteAt(t, p + i)) \in Follow[type][i]
    IN  IF type = 0 THEN 1
        ELSE IF type \in DOMAIN Follow /\ follows THEN 1 + Len(Follow[type]) ELSE 0

\* (0xFF >> type) & c, the bits a leading byte gives.
Lead(type, c) ==
    CASE type = 2 -> c % 64  [] type = 3 -> c % 32  [] type = 4 -> c % 16
      [] type = 5 -> c % 8   [] type = 6 -> c % 4   [] OTHER -> 0

\* The code point of the sequence at p, -1 when it is not valid.
Decode(t, p) ==
    LET n     == Validated(t, p)
        low(i) == ByteAt(t, p + i) % 64
        two   == Lead(GetRange(ByteAt(t, p)), ByteAt(t, p)) * 64 + low(1)
        three == two * 64 + low(2)
    IN  CASE n = 0 -> -1
          [] n = 1 -> ByteAt(t, p)
          [] n = 2 -> two
          [] n = 3 -> three
          [] OTHER -> three * 64 + low(3)
=============================================================================
