--------------------------- MODULE ProtobufWire ----------------------------
(***************************************************************************)
(* What src/protocol/protobuf/protocol.cpp uses of the protobuf library:   *)
(* strings, integers and nested messages as tagged fields, in the order    *)
(* they are written.  A text that ends in the middle of a field is         *)
(* malformed; the fields before it stay in the message that was parsed.    *)
(***************************************************************************)
EXTENDS Integers, Sequences, SequencesExt

RECURSIVE Varint(_)
Varint(n) == IF n < 128 THEN <<n>> ELSE <<128 + (n % 128)>> \o Varint(n \div 128)

\* The integer at p and the index after it, which is 0 when it does not end.
RECURSIVE ReadVarint(_, _)
ReadVarint(t, p) ==
    CASE p > Len(t)   -> [n |-> 0, at |-> 0]
      [] t[p] < 128   -> [n |-> t[p], at |-> p + 1]
      [] OTHER        -> LET more == ReadVarint(t, p + 1)
                         IN  [n |-> (t[p] - 128) + 128 * more.n, at |-> more.at]

BytesField(field, s) == <<8 * field + 2>> \o Varint(Len(s)) \o s
IntField(field, n) == <<8 * field>> \o Varint(n)

\* The fields of t from p on, and the field t ends in when it is malformed
\* (0 when it is not).
RECURSIVE FieldsFrom(_, _, _)
FieldsFrom(t, p, fields) ==
    LET field  == t[p] \div 8
        n      == ReadVarint(t, p + 1)
        isInt  == t[p] % 8 = 0
        last   == n.at + n.n - 1
        torn   == n.at = 0 \/ (~isInt /\ last > Len(t))
        value  == IF isInt THEN n.n ELSE SubSeq(t, n.at, last)
    IN  CASE p > Len(t) -> [fields |-> fields, torn |-> 0]
          [] torn       -> [fields |-> fields, torn |-> field]
          [] OTHER      -> FieldsFrom(t, IF isInt THEN n.at ELSE last + 1,
                                      Append(fields, [field |-> field, value |-> value]))

ParseFields(t) == FieldsFrom(t, 1, <<>>)

\* A repeated field of a parsed message, and a single one, of which the
\* last counts.
Repeated(parsed, field) ==
    LET of == SelectSeq(parsed.fields, LAMBDA f : f.field = field)
    IN  [i \in DOMAIN of |-> of[i].value]

Single(parsed, field, default) ==
    IF Repeated(parsed, field) = <<>> THEN default ELSE Last(Repeated(parsed, field))
=============================================================================
