---------------------------- MODULE JsonEncodings ---------------------------
(***************************************************************************)
(* The Unicode encodings of encodings.h behind the byte streams of         *)
(* encodedstream.h: a text is written code point by code point through an  *)
(* EncodedOutputStream or an AutoUTFOutputStream, and what the stream then *)
(* holds is read through an EncodedInputStream, or an AutoUTFInputStream,  *)
(* which guesses the encoding.  A unit is a character of the encoding, a   *)
(* stream a sequence of bytes.                                             *)
(***************************************************************************)
EXTENDS Utf8, SequencesExt

CONSTANTS Points,      \* code points written
          RawUnits,    \* units written to a stream that is no text, for each family
          MaxWrites    \* bound: code points or units in a stream

VARIABLES stream,      \* a record of Streams
          points,      \* code points written
          bytes        \* the stream

vars == <<stream, points, bytes>>

(* The encodings: of UTF-8, UTF-16 and UTF-32, and of ASCII. *)

Surrogates == 55296 .. 57343                        \* 0xD800 .. 0xDFFF
Leads      == 55296 .. 56319
LastPoint  == 1114111

Utf16Encode(point) ==
    IF point <= 65535 THEN <<point>>
    ELSE <<55296 + (point - 65536) \div 1024, 56320 + ((point - 65536) % 1024)>>

\* How many of the units at p are one code point, 0 when they are none.
Utf16Validate(u, p) ==
    CASE ByteAt(u, p) \notin Surrogates -> 1
      [] ByteAt(u, p) \in Leads /\ ByteAt(u, p + 1) \in Surrogates \ Leads -> 2
      [] OTHER -> 0

\* The code point at p; units that are none are not asked for.
Utf16Decode(u, p) ==
    IF Utf16Validate(u, p) = 1 THEN ByteAt(u, p)
    ELSE (ByteAt(u, p) % 1024) * 1024 + (ByteAt(u, p + 1) % 1024) + 65536

Utf32Validate(u, p) == IF ByteAt(u, p) <= LastPoint THEN 1 ELSE 0

AsciiValidate(u, p) == IF ByteAt(u, p) <= 127 THEN 1 ELSE 0

\* The bytes of a unit, by the weight of each, and the byte order mark.
UTF8    == [family |-> "UTF8",  weights |-> <<1>>, mark |-> <<239, 187, 191>>]
UTF16LE == [family |-> "UTF16", weights |-> <<1, 256>>, mark |-> <<255, 254>>]
UTF16BE == [family |-> "UTF16", weights |-> <<256, 1>>, mark |-> <<254, 255>>]
UTF32LE == [family |-> "UTF32", weights |-> <<1, 256, 65536, 16777216>>,
            mark |-> <<255, 254, 0, 0>>]
UTF32BE == [family |-> "UTF32", weights |-> <<16777216, 65536, 256, 1>>,
            mark |-> <<0, 0, 254, 255>>]
ASCII   == [family |-> "ASCII", weights |-> <<1>>, mark |-> <<>>]

\* The assertions of the encoders: what they have units for.
Encodable(type, point) ==
    /\ point <= LastPoint
    /\ type.family = "UTF16" => point \notin Surrogates
    /\ type.family = "ASCII" => point <= 127

EncodeAs(type, point) ==
    CASE type.family = "UTF8"  -> Encode(point)
      [] type.family = "UTF16" -> Utf16Encode(point)
      [] OTHER -> <<point>>

ValidateAs(type, u, p) ==
    CASE type.family = "UTF8"  -> Validated(u, p)
      [] type.family = "UTF16" -> Utf16Validate(u, p)
      [] type.family = "UTF32" -> Utf32Validate(u, p)
      [] OTHER -> AsciiValidate(u, p)

DecodeAs(type, u, p) ==
    CASE type.family = "UTF8"  -> Decode(u, p)
      [] type.family = "UTF16" -> Utf16Decode(u, p)
      [] OTHER -> ByteAt(u, p)

(* Bytes. *)

Put(type, unit) == [i \in DOMAIN type.weights |-> (unit \div type.weights[i]) % 256]

PutAll(type, units) == FoldLeft(LAMBDA b, unit : b \o Put(type, unit), <<>>, units)

\* The unit whose first byte is at p: past the end the stream gives 0.
Take(type, b, p) ==
    FoldLeft(LAMBDA n, i : n + ByteAt(b, p + i - 1) * type.weights[i], 0,
             [i \in DOMAIN type.weights |-> i])

HasMark(type, b) == type.mark # <<>> /\ IsPrefix(type.mark, b)

\* The first byte after the mark.  UTF8::TakeBOM drops each byte of the mark
\* it finds, until one is missing.
TakeBOM(type, b) ==
    CASE type.family = "UTF8" ->
            1 + Cardinality({n \in 1 .. 3 : IsPrefix(SubSeq(type.mark, 1, n), b)})
      [] type.family # "UTF8" /\ HasMark(type, b) -> 1 + Len(type.mark)
      [] OTHER -> 1

\* UTF-8 in a MemoryStream is looked at by a stream of its own, which drops
\* each byte of the mark that comes next, whether the one before was there or not.
TakeBOMInMemory(b) ==
    FoldLeft(LAMBDA p, byte : IF ByteAt(b, p) = byte THEN p + 1 ELSE p, 1, UTF8.mark)

\* Mutation: the short marks are tried before the long ones.
MarkedShortFirst(b) == SelectSeq(<<UTF16BE, UTF16LE, UTF32BE, UTF32LE, UTF8>>, LAMBDA t : HasMark(t, b))

\* The encodings whose mark the stream begins with, in the order they are tried.
Marked(b) == SelectSeq(<<UTF32BE, UTF32LE, UTF16BE, UTF16LE, UTF8>>, LAMBDA t : HasMark(t, b))

\* The encoding the null bytes among the first four tell, else the user's.
ByNulls(b, user) ==
    LET nonzero == {i \in 1 .. 4 : b[i] # 0}
    IN  CASE nonzero = {4} -> UTF32BE
          [] nonzero = {2, 4} -> UTF16BE
          [] nonzero = {1} -> UTF32LE
          [] nonzero = {1, 3} -> UTF16LE
          [] nonzero = 1 .. 4 -> UTF8
          [] OTHER -> user

\* AutoUTFInputStream: the encoding, and where the text begins.  Peek4 has
\* nothing to show of a stream of less than four bytes.
DetectType(b, user) ==
    CASE Len(b) < 4 -> [type |-> user, at |-> 1]
      [] Len(b) >= 4 /\ Marked(b) # <<>> ->
            [type |-> Head(Marked(b)), at |-> 1 + Len(Head(Marked(b)).mark)]
      [] OTHER -> [type |-> ByNulls(b, user), at |-> 1]

Opened(s, b) ==
    CASE s.reader = "auto" -> DetectType(b, s.user)
      [] s.reader = "memory" /\ s.type = UTF8 -> [type |-> UTF8, at |-> TakeBOMInMemory(b)]
      [] OTHER -> [type |-> s.type, at |-> TakeBOM(s.type, b)]

\* The units a reader takes, up to the end.
Units(o, b) ==
    LET width == Len(o.type.weights)
    IN  [i \in 1 .. (Len(b) - o.at + width) \div width |-> Take(o.type, b, o.at + (i - 1) * width)]

(* Transcoder: from an encoding to another one, or to the same. *)

RECURSIVE Decoded(_, _, _)
\* The code points of the units from p on, -1 after the last valid one.
Decoded(type, u, p) ==
    LET n == ValidateAs(type, u, p)
    IN  CASE p > Len(u) -> <<>>
          [] p <= Len(u) /\ n = 0 -> <<-1>>
          [] OTHER -> <<DecodeAs(type, u, p)>> \o Decoded(type, u, p + n)

Transcode(source, target, u) ==
    IF source = target THEN u
    ELSE FoldLeft(LAMBDA out, c : IF c = -1 THEN out ELSE out \o EncodeAs(target, c), <<>>,
                  Decoded(source, u, 1))

---------------------------------------------------------------------------

Utfs == {UTF8, UTF16LE, UTF16BE, UTF32LE, UTF32BE}

\* The encoding of a stream, whether a mark is written, what reads it ("auto":
\* an AutoUTFInputStream told user, else an EncodedInputStream from "memory"
\* or from a "file"), whether units are written to it instead of points.
Streams ==
    [type : Utfs, bom : BOOLEAN, reader : {"auto"}, user : Utfs, raw : {FALSE}]
    \cup [type : Utfs \cup {ASCII}, bom : BOOLEAN, reader : {"memory", "file"},
          user : {UTF8}, raw : {FALSE}]
    \cup [type : Utfs \cup {ASCII}, bom : {FALSE}, reader : {"memory"}, user : {UTF8}, raw : {TRUE}]

Open(s) ==
    /\ stream = s
    /\ points = <<>>
    /\ bytes = IF s.bom THEN s.type.mark ELSE <<>>

Init == \E s \in Streams : Open(s)

Write(point) ==
    /\ ~stream.raw /\ Len(points) < MaxWrites
    /\ Encodable(stream.type, point)
    /\ points' = Append(points, point)
    /\ bytes' = bytes \o PutAll(stream.type, EncodeAs(stream.type, point))
    /\ UNCHANGED stream

WriteUnit(unit) ==
    /\ stream.raw /\ Len(bytes) < MaxWrites * Len(stream.type.weights)
    /\ bytes' = bytes \o Put(stream.type, unit)
    /\ UNCHANGED <<stream, points>>

Next == \/ \E point \in Points : Write(point)
        \/ stream.raw /\ \E unit \in RawUnits[stream.type.family] : WriteUnit(unit)

---------------------------------------------------------------------------
(* Properties. *)

\* Whether a reader can know the encoding: from a mark, or, as every JSON
\* text begins with an ASCII character, from the nulls of four bytes (for
\* UTF-16 two characters, the second below U+0100), or from the user.
Recognisable ==
    \/ stream.bom
    \/ /\ points[1] <= 127
       /\ \/ stream.reader # "auto" \/ stream.user = stream.type
          \/ Len(bytes) >= 4 /\ (stream.type.family # "UTF16" \/ points[2] <= 255)

\* Whatever encoding, mark and way to read it, a reader that can know the
\* encoding gets the code points that were written, and after Transcode to
\* another encoding they are still the same.
PointsReadBack ==
    ~stream.raw /\ points # <<>> /\ Recognisable =>
        LET o == Opened(stream, bytes)
            u == Units(o, bytes)
        IN  /\ o.type = stream.type
            /\ Decoded(o.type, u, 1) = points
            /\ \A t \in {UTF8, UTF16LE, UTF32LE} :
                 (\A i \in DOMAIN points : Encodable(t, points[i])) =>
                    Decoded(t, Transcode(o.type, t, u), 1) = points

\* Units that Validate accepts are the encoding of the code points that Decode
\* finds, and these are Unicode scalar values (but for UTF-32, whose Decode
\* and Validate let surrogates through).
ValidUnitsAreUnicode ==
    stream.raw =>
        LET u  == Units([type |-> stream.type, at |-> 1], bytes)
            cs == Decoded(stream.type, u, 1)
        IN  (\A i \in DOMAIN cs : cs[i] # -1) =>
                /\ FoldLeft(LAMBDA out, c : out \o EncodeAs(stream.type, c), <<>>, cs) = u
                /\ \A i \in DOMAIN cs : /\ cs[i] <= LastPoint
                                        /\ stream.type.family = "UTF32" \/ cs[i] \notin Surrogates

EncodingsReadBack == PointsReadBack /\ ValidUnitsAreUnicode
=============================================================================
