---------------------------- MODULE JsonWriter -----------------------------
(***************************************************************************)
(* Writer and PrettyWriter of src/protocol/json/rapidjson, over a string   *)
(* buffer: the events of a document become its text.                       *)
(*                                                                         *)
(* A writer w == [os, levels, root, ok, pretty, unicode]: the buffer, the  *)
(* open objects and arrays, whether a root was written, whether every call *)
(* has succeeded and every assertion held so far; pretty and unicode say   *)
(* which of the two writers it is and whether its target encoding has all  *)
(* of Unicode (UTF8) or not (ASCII).  Doubles are not written.             *)
(***************************************************************************)
EXTENDS JsonLexer, JsonMemory, Itoa

CONSTANTS Indent,           \* kDefaultIndentCharCount of the PrettyWriter, 4
          BufferCapacity    \* GenericStringBuffer::kDefaultCapacity

ASSUME WriterAssumption == Indent \in Nat /\ BufferCapacity \in Nat

VARIABLE writer     \* a writer, between two calls

NewWriter(pretty, unicode) ==
    [os |-> NewStack(BufferCapacity), levels |-> <<>>, root |-> FALSE, ok |-> TRUE,
     pretty |-> pretty, unicode |-> unicode]

Put(w, c) == [w EXCEPT !.os = Push(@, <<c>>)]
PutReserve(w, n) == [w EXCEPT !.os = Reserve(@, n)]
PutUnsafe(w, s) == [w EXCEPT !.os = PushUnsafe(@, s)]
Require(w, condition) == [w EXCEPT !.ok = @ /\ condition]

\* A text of a known length: reserved, then put byte by byte.
WriteText(w, s) == PutUnsafe(PutReserve(w, Len(s)), s)

\* A number is printed into the buffer itself: room for the longest one is
\* pushed, what is left of it popped.
WriteNumber(w, room, s) ==
    [Require(w, Len(s) <= room) EXCEPT
        !.os = Pop(Push(@, s \o [i \in 1 .. room - Len(s) |-> Nul]), room - Len(s))]

HexDigits(n) ==
    LET digit(d) == IF d < 10 THEN 48 + d ELSE 55 + d
    IN  <<digit((n \div 4096) % 16), digit((n \div 256) % 16),
          digit((n \div 16) % 16), digit(n % 16)>>

\* The escapes of WriteString; the other control characters get \u00XX.
Escaped ==
    [c \in {8, 9, 10, 12, 13, Quote, Backslash} |->
        CASE c = 8 -> 98    [] c = 9 -> 116   [] c = 10 -> 110
          [] c = 12 -> 102  [] c = 13 -> 114  [] OTHER -> c]

\* Mutation: the pair of a code point from which 0x10000 was not taken.
EscapeUnshifted(codepoint) ==
    IF codepoint <= 65535 THEN <<Backslash, LowerU>> \o HexDigits(codepoint)
    ELSE <<Backslash, LowerU>> \o HexDigits((codepoint \div 1024) + 55296)
         \o <<Backslash, LowerU>> \o HexDigits((codepoint % 1024) + 56320)

EscapeCodepoint(codepoint) ==
    LET s == codepoint - 65536
    IN  IF codepoint <= 65535 THEN <<Backslash, LowerU>> \o HexDigits(codepoint)
        ELSE <<Backslash, LowerU>> \o HexDigits((s \div 1024) + 55296)
             \o <<Backslash, LowerU>> \o HexDigits((s % 1024) + 56320)

\* One turn of the loop of WriteString: c == [at, out, ok], the next byte of
\* s, what is written, whether no byte sequence was invalid.  The last case is
\* TranscodeUnsafe.
CharTurn(s, unicode, c) ==
    LET b == ByteAt(s, c.at)
        n == Validated(s, c.at)
        put(k, t) == [c EXCEPT !.at = @ + k, !.out = @ \o t]
    IN  IF c.at > Len(s) \/ ~c.ok THEN c
        ELSE IF ~unicode /\ b >= 128
        THEN IF n = 0 THEN [c EXCEPT !.ok = FALSE] ELSE put(n, EscapeCodepoint(Decode(s, c.at)))
        ELSE IF b \in DOMAIN Escaped THEN put(1, <<Backslash, Escaped[b]>>)
        ELSE IF b < 32 THEN put(1, <<Backslash, LowerU>> \o HexDigits(b))
        ELSE put(1, <<b>>)

\* The loop: a turn takes one byte or more.
WriteChars(s, unicode) ==
    LET turn[k \in 0 .. Len(s)] ==
            IF k = 0 THEN [at |-> 1, out |-> <<>>, ok |-> TRUE]
            ELSE LET before == turn[k - 1] IN CharTurn(s, unicode, before)
    IN  turn[Len(s)]

\* The string between its quotes; the last one is missing when it is invalid.
Quoted(w, chars) ==
    Require(PutUnsafe(w, <<Quote>> \o chars.out \o (IF chars.ok THEN <<Quote>> ELSE <<>>)),
            chars.ok)

\* Mutation: no room for the quotes.
WriteStringTight(w, s) ==
    Quoted(PutReserve(w, IF w.unicode THEN Len(s) * 6 ELSE Len(s) * 12),
           WriteChars(s, w.unicode))

WriteString(w, s) ==
    Quoted(PutReserve(w, IF w.unicode THEN 2 + Len(s) * 6 ELSE 2 + Len(s) * 12),
           WriteChars(s, w.unicode))

---------------------------------------------------------------------------
(* Commas, colons, line breaks and indentation. *)

WriteIndent(w) ==
    [w EXCEPT !.os = Push(@, [i \in 1 .. Len(w.levels) * Indent |-> Space])]

NewLine(w) == WriteIndent(Put(w, Newline))

\* What separates a value from the one before it: Prefix, PrettyPrefix.
Separator(w, level) ==
    LET name == level.count % 2 = 0
        after(c) == IF level.count > 0 THEN Put(w, c) ELSE w
    IN  IF level.inArray \/ name
        THEN IF w.pretty THEN NewLine(after(Comma)) ELSE after(Comma)
        ELSE IF w.pretty THEN Put(after(Colon), Space) ELSE after(Colon)

Prefix(w, type) ==
    LET level == w.levels[Len(w.levels)]
        named == level.inArray \/ level.count % 2 = 1 \/ type = "String"
    IN  IF w.levels = <<>> THEN [Require(w, ~w.root) EXCEPT !.root = TRUE]
        ELSE [Require(Separator(w, level), named) EXCEPT !.levels[Len(w.levels)].count = @ + 1]

Open(w, inArray) ==
    LET p == Prefix(w, IF inArray THEN "Array" ELSE "Object")
    IN  Put([p EXCEPT !.levels = Append(@, [count |-> 0, inArray |-> inArray])],
            IF inArray THEN LBracket ELSE LBrace)

End(w, inArray) ==
    LET level == w.levels[Len(w.levels)]
        popped == [Require(w, level.inArray = inArray) EXCEPT !.levels = Front(@)]
        line == IF w.pretty /\ level.count > 0 THEN NewLine(popped) ELSE popped
    IN  IF w.levels = <<>> THEN Require(w, FALSE)
        ELSE Put(line, IF inArray THEN RBracket ELSE RBrace)

\* One event of the handler the writer is.
Write(w, event) ==
    LET k == event.k
        number(room, s) == WriteNumber(Prefix(w, "Number"), room, s)
    IN  CASE k = "StartObject" -> Open(w, FALSE)
          [] k = "EndObject"   -> End(w, FALSE)
          [] k = "StartArray"  -> Open(w, TRUE)
          [] k = "EndArray"    -> End(w, TRUE)
          [] k \in {"String", "Key"} -> WriteString(Prefix(w, "String"), event.s)
          [] k = "Int"    -> number(11, i32toa(event.v))
          [] k = "Uint"   -> number(10, u32toa(event.v))
          [] k = "Int64"  -> number(21, i64toa(event.v))
          [] k = "Uint64" -> number(20, u64toa(event.v))
          [] k = "Null"   -> WriteText(Prefix(w, k), NullLetters)
          [] k = "True"   -> WriteText(Prefix(w, k), TrueLetters)
          [] k = "False"  -> WriteText(Prefix(w, k), FalseLetters)

\* StringBuffer::GetString: a terminator is pushed, popped and left there.
GetString(w) == [w EXCEPT !.os = Pop(Push(@, <<Nul>>), 1)]

IsComplete(w) == w.root /\ w.levels = <<>>

---------------------------------------------------------------------------
(* Properties. *)

\* No byte is put where none was reserved, and none taken back that was not
\* put: the room WriteString() reserves before it writes the escapes is
\* enough for every string, and a number fits the room it is given.
WrittenIsReserved == ~writer.os.failed /\ Len(writer.os.data) <= writer.os.cap
=============================================================================
