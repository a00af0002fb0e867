---------------------------- MODULE JsonPointer -----------------------------
(***************************************************************************)
(* The JSON pointers of pointer.h: the text of a pointer, typed piece by   *)
(* piece, is parsed to tokens and written back, as it is or as a URI       *)
(* fragment; and a document is edited through pointers.  A value is        *)
(* [k, items]: for an object or an array its members or elements, as       *)
(* records [name, value].                                                  *)
(***************************************************************************)
EXTENDS Utf8, SequencesExt

CONSTANTS IndexBits,     \* width of SizeType
          Tasks,         \* records [pieces, names, indices, more, edits]: pieces of
                         \* text to type, names and indices to append, up to a
                         \* length, or edits
          Pointers,      \* texts of the pointers used in edits
          Givens         \* values that are stored

VARIABLES task,          \* a record of Tasks
          source,        \* the text typed so far
          pointer,       \* what Parse made of it
          root,          \* the document
          hand,          \* the value passed by reference
          edit,          \* the last edit: [op, at, value, result]
          count          \* edits so far

vars == <<task, source, pointer, root, hand, edit, count>>

Slash == 47
Tilde == 126
Percent == 37
Hash == 35

\* Unreserved characters: digits, letters and - . _ ~
NeedPercentEncode(c) ==
    c \notin (48 .. 57) \cup (65 .. 90) \cup (97 .. 122) \cup {45, 46, 95, 126}

Hexadecimal(c) ==
    CASE c \in 48 .. 57 -> c - 48
      [] c \in 65 .. 70 -> c - 55
      [] c \in 97 .. 102 -> c - 87
      [] OTHER -> -1

\* The code unit of a triplet %XY at p, -1 when it is none.
Triplet(t, p) ==
    IF p + 2 > Len(t) THEN -1
    ELSE IF t[p] = Percent /\ Hexadecimal(t[p + 1]) >= 0 /\ Hexadecimal(t[p + 2]) >= 0
    THEN Hexadecimal(t[p + 1]) * 16 + Hexadecimal(t[p + 2])
    ELSE -1

\* The code units of the triplets at p that are one UTF-8 sequence, none when
\* they are not valid.
PercentDecoded(t, p) ==
    LET units == [i \in 1 .. 4 |-> Triplet(t, p + 3 * (i - 1))]
        n == IF units[1] = -1 THEN 0 ELSE Validated(units, 1)
    IN  SubSeq(units, 1, n)

InvalidIndex == 2 ^ IndexBits - 1          \* kPointerInvalidIndex

\* The number of a token, in the width of SizeType: the conversion gives up
\* when a digit makes it smaller.
Numbered(name) ==
    FoldLeft(LAMBDA n, c : CASE n = InvalidIndex -> n
                             [] n # InvalidIndex /\ (n * 10 + c - 48) % 2 ^ IndexBits < n -> InvalidIndex
                             [] OTHER -> (n * 10 + c - 48) % 2 ^ IndexBits, 0, name)

\* A token that is all digits, without a leading zero, is an index as well.
Token(name) ==
    [name  |-> name,
     index |-> IF name = <<>> \/ (\E i \in DOMAIN name : name[i] \notin 48 .. 57)
                  \/ (Len(name) > 1 /\ name[1] = 48)
               THEN InvalidIndex ELSE Numbered(name)]

Fail(x, error) == [x EXCEPT !.error = error]

\* The bytes of the name read so far, and where reading goes on.
More(x, units, at) == [x EXCEPT !.names[Len(x.names)] = @ \o units, !.at = at]

\* The character c, which ended before p: ~0 and ~1 stand for ~ and /.
Unescape(t, x, c, p) ==
    CASE c # Tilde -> More(x, <<c>>, p)
      [] c = Tilde /\ ByteAt(t, p) = 48 -> More(x, <<Tilde>>, p + 1)
      [] c = Tilde /\ ByteAt(t, p) = 49 -> More(x, <<Slash>>, p + 1)
      [] OTHER -> Fail([x EXCEPT !.at = p], "InvalidEscape")

FromTriplets(t, x, units) ==
    CASE units = <<>> -> Fail(x, "InvalidPercentEncoding")
      [] Len(units) = 1 -> Unescape(t, x, units[1], x.at + 3)
      [] OTHER -> More(x, units, x.at + 3 * Len(units))

RECURSIVE NamesFrom(_, _)
NamesFrom(t, x) ==
    IF x.error # "none" \/ x.at > Len(t) THEN x
    ELSE NamesFrom(t,
            CASE t[x.at] = Slash -> [x EXCEPT !.names = Append(@, <<>>), !.at = @ + 1]
              [] x.fragment /\ t[x.at] = Percent -> FromTriplets(t, x, PercentDecoded(t, x.at))
              [] x.fragment /\ t[x.at] # Percent /\ t[x.at] # Slash /\ NeedPercentEncode(t[x.at]) ->
                    Fail(x, "CharacterMustPercentEncode")
              [] OTHER -> Unescape(t, x, t[x.at], x.at + 1))

Pointed(x) ==
    [error  |-> x.error, offset |-> x.at,
     tokens |-> IF x.error = "none" THEN [i \in DOMAIN x.names |-> Token(x.names[i])] ELSE <<>>]

Parse(t) ==
    LET fragment == ByteAt(t, 1) = Hash
        at    == IF fragment THEN 2 ELSE 1
        begin == [error |-> "none", at |-> at, fragment |-> fragment, names |-> <<>>]
    IN  Pointed(IF at <= Len(t) /\ ByteAt(t, at) # Slash
                THEN Fail(begin, "TokenMustBeginWithSolidus") ELSE NamesFrom(t, begin))

IsValid(p) == p.error = "none"

HexDigits == [i \in 0 .. 15 |-> IF i < 10 THEN 48 + i ELSE 55 + i]

PercentEncoded(units) ==
    FoldLeft(LAMBDA s, u : s \o <<Percent, HexDigits[u \div 16], HexDigits[u % 16]>>, <<>>, units)

RECURSIVE NameWritten(_, _, _)
\* A name from its byte j on; a name that is not UTF-8 has no fragment.
NameWritten(name, j, fragment) ==
    LET c == name[j]
        n == Validated(name, j)
    IN  CASE j > Len(name) -> <<>>
          [] j <= Len(name) /\ c = Tilde -> <<Tilde, 48>> \o NameWritten(name, j + 1, fragment)
          [] j <= Len(name) /\ c = Slash -> <<Tilde, 49>> \o NameWritten(name, j + 1, fragment)
          [] j <= Len(name) /\ c \notin {Tilde, Slash} /\ fragment /\ NeedPercentEncode(c) ->
                PercentEncoded(SubSeq(name, j, j + n - 1)) \o NameWritten(name, j + n, fragment)
          [] OTHER -> <<c>> \o NameWritten(name, j + 1, fragment)

Stringify(ts, fragment) ==
    FoldLeft(LAMBDA s, t : s \o <<Slash>> \o NameWritten(t.name, 1, fragment),
             IF fragment THEN <<Hash>> ELSE <<>>, ts)

\* Pointers with the same tokens.
SamePointer(p, q) ==
    /\ IsValid(p) /\ IsValid(q) /\ Len(p.tokens) = Len(q.tokens)
    /\ \A i \in DOMAIN p.tokens : p.tokens[i] = q.tokens[i]

RECURSIVE Digits(_)
Digits(n) == IF n < 10 THEN <<48 + n>> ELSE Digits(n \div 10) \o <<48 + (n % 10)>>

\* Append: a copy of the pointer (CopyFromRaw) with one more token, a name
\* that is never an index or an index.
WithToken(p, token) == [p EXCEPT !.tokens = Append(@, token)]
WithName(p, name)   == WithToken(p, [name |-> name, index |-> InvalidIndex])
WithIndex(p, n)     == WithToken(p, [name |-> Digits(n), index |-> n])

---------------------------------------------------------------------------
(* Documents. *)

Null == [k |-> "Null", items |-> <<>>]
Slot(name, value) == [name |-> name, value |-> value]

Named(v, name) == SelectInSeq(v.items, LAMBDA m : m.name = name)    \* FindMember

\* Where in v a token leads, 0 when nowhere.
Resolved(v, t) ==
    CASE v.k = "Object" -> Named(v, t.name)
      [] v.k = "Array" -> IF t.index # InvalidIndex /\ t.index < Len(v.items) THEN t.index + 1 ELSE 0
      [] OTHER -> 0

RECURSIVE Get(_, _)
\* The value at the end of the path, as a sequence: empty when there is none.
Get(v, ts) ==
    CASE ts = <<>> -> <<v>>
      [] ts # <<>> /\ Resolved(v, Head(ts)) = 0 -> <<>>
      [] OTHER -> Get(v.items[Resolved(v, Head(ts))].value, Tail(ts))

\* Create changes what is no container, or an array for a name, to the
\* container the token needs.
Container(v, t) ==
    CASE t.index = InvalidIndex /\ v.k # "Object" -> [k |-> "Object", items |-> <<>>]
      [] t.index # InvalidIndex /\ v.k \notin {"Array", "Object"} -> [k |-> "Array", items |-> <<>>]
      [] OTHER -> v

Extended(v, n) ==
    [v EXCEPT !.items = @ \o [i \in 1 .. n - Len(@) |-> Slot(<<>>, Null)]]

\* Mutation: a member is added without a look for one of that name.
RoomAdded(v, t) ==
    CASE v.k = "Array" /\ t.index < Len(v.items) -> [value |-> v, at |-> t.index + 1]
      [] v.k = "Array" /\ t.index >= Len(v.items) -> [value |-> Extended(v, t.index + 1), at |-> t.index + 1]
      [] OTHER -> [value |-> [v EXCEPT !.items = Append(@, Slot(t.name, Null))], at |-> Len(v.items) + 1]

\* The container with a place for the token, and which that is.
Room(v, t) ==
    CASE v.k = "Array" /\ t.index < Len(v.items) -> [value |-> v, at |-> t.index + 1]
      [] v.k = "Array" /\ t.index >= Len(v.items) -> [value |-> Extended(v, t.index + 1), at |-> t.index + 1]
      [] v.k = "Object" /\ Named(v, t.name) # 0 -> [value |-> v, at |-> Named(v, t.name)]
      [] OTHER -> [value |-> [v EXCEPT !.items = Append(@, Slot(t.name, Null))], at |-> Len(v.items) + 1]

Stepped(v, t) ==
    IF v.k = "Array" /\ t.name = <<45>>
    THEN [value |-> Extended(v, Len(v.items) + 1), at |-> Len(v.items) + 1]
    ELSE Room(Container(v, t), t)

RECURSIVE Placed(_, _, _)
\* w where Create makes or finds the value, below the step s of a container.
PlacedBelow(s, ts, w) ==
    [s.value EXCEPT !.items[s.at].value = Placed(@, ts, w)]

Placed(v, ts, w) == IF ts = <<>> THEN w ELSE PlacedBelow(Stepped(v, Head(ts)), Tail(ts), w)

\* The value Create returns a reference to: what is there, or null.
Created(v, ts) == IF Get(v, ts) = <<>> THEN Null ELSE Get(v, ts)[1]

RECURSIVE Erased(_, _)
Erased(v, ts) ==
    LET at == Resolved(v, Head(ts))
    IN  IF Len(ts) = 1 THEN [v EXCEPT !.items = RemoveAt(@, at)]
        ELSE [v EXCEPT !.items[at].value = Erased(@, Tail(ts))]

---------------------------------------------------------------------------

Begin(k) ==
    /\ task = k /\ source = <<>> /\ pointer = Parse(<<>>)
    /\ root = Null /\ hand = Null /\ count = 0
    /\ edit = [op |-> "none", at |-> <<>>, value |-> Null, result |-> FALSE]

Init == \E k \in Tasks : Begin(k)

\* One more piece of a text that is not wrong yet, or not before its end.
Type(piece) ==
    /\ Len(source) < task.more
    /\ IsValid(pointer) \/ pointer.offset > Len(source)
    /\ source' = source \o piece /\ pointer' = Parse(source \o piece)
    /\ UNCHANGED <<task, root, hand, edit, count>>

\* From here on source is what Stringify writes of the pointer.
AppendToken(p) ==
    /\ IsValid(pointer) /\ ByteAt(source, 1) # Hash /\ Len(source) < task.more
    /\ pointer' = p /\ source' = Stringify(p.tokens, FALSE)
    /\ UNCHANGED <<task, root, hand, edit, count>>

Edited(op, ts, value, result) ==
    /\ count < task.edits /\ count' = count + 1
    /\ edit' = [op |-> op, at |-> ts, value |-> value, result |-> result]
    /\ UNCHANGED <<task, source, pointer>>

CreateValueByPointer(ts) ==
    /\ Edited("Create", ts, Null, Get(root, ts) # <<>>)
    /\ root' = Placed(root, ts, Created(root, ts))
    /\ UNCHANGED hand

GetValueByPointerWithDefault(ts, default) ==
    /\ Edited("Default", ts, default, Get(root, ts) # <<>>)
    /\ root' = IF Get(root, ts) # <<>> THEN root ELSE Placed(root, ts, default)
    /\ UNCHANGED hand

\* A value is copied; the one in hand is moved and leaves null.
SetValueByPointer(ts, value) ==
    /\ Edited("Set", ts, value, TRUE)
    /\ root' = Placed(root, ts, value)
    /\ UNCHANGED hand

MoveValueByPointer(ts) ==
    /\ hand # Null
    /\ Edited("Set", ts, hand, TRUE)
    /\ root' = Placed(root, ts, hand)
    /\ hand' = Null

SwapValueByPointer(ts) ==
    /\ Edited("Swap", ts, hand, TRUE)
    /\ root' = Placed(root, ts, hand)
    /\ hand' = Created(root, ts)

EraseValueByPointer(ts) ==
    LET found == ts # <<>> /\ Get(root, ts) # <<>>
    IN  /\ Edited("Erase", ts, Null, found)
        /\ root' = IF found THEN Erased(root, ts) ELSE root
        /\ UNCHANGED hand

Edit(ts) ==
    \/ CreateValueByPointer(ts)
    \/ \E v \in Givens : GetValueByPointerWithDefault(ts, v) \/ SetValueByPointer(ts, v)
    \/ MoveValueByPointer(ts)
    \/ SwapValueByPointer(ts)
    \/ EraseValueByPointer(ts)

Next == \/ \E piece \in task.pieces : Type(piece)
        \/ \E name \in task.names : AppendToken(WithName(pointer, name))
        \/ \E n \in task.indices : AppendToken(WithIndex(pointer, n))
        \/ \E text \in Pointers : Edit(Parse(text).tokens)

---------------------------------------------------------------------------
(* Properties. *)

\* A pointer's text is read back as the same pointer, from the string and
\* from the URI fragment that Stringify writes, and the string it writes is
\* the one that was parsed: the escapes of / and ~ and the percent encoding
\* undo each other, byte by byte, in any combination.  (A name of digits that
\* was appended as a name is read back as an index.)  An index is the number
\* the name says, if that fits.
PointersReadBack ==
    LET ts == pointer.tokens
        utf8(name) == \A i \in DOMAIN name : name[i] > 127 =>
                        \E j \in 1 .. i : Validated(name, j) > i - j
        value(name) == FoldLeft(LAMBDA n, c : n * 10 + c - 48, 0, name)
        same(p) == IF \A i \in DOMAIN ts : ts[i] = Token(ts[i].name) THEN SamePointer(p, pointer)
                   ELSE IsValid(p) /\ \A i \in DOMAIN ts : p.tokens[i].name = ts[i].name
    IN  IsValid(pointer) =>
            /\ same(Parse(Stringify(ts, FALSE)))
            /\ ByteAt(source, 1) # Hash => Stringify(ts, FALSE) = source
            /\ (\A i \in DOMAIN ts : utf8(ts[i].name)) => same(Parse(Stringify(ts, TRUE)))
            /\ \A i \in DOMAIN ts : ts[i].index # InvalidIndex /\ value(ts[i].name) < InvalidIndex =>
                    ts[i].index = value(ts[i].name)

\* Whether Create turns an array on the way to ts into an object, or goes to
\* the end of one.
Reshapes(v, ts) ==
    \E n \in 1 .. Len(ts) : LET w == Get(v, SubSeq(ts, 1, n - 1))
                            IN  w # <<>> /\ w[1].k = "Array" /\ ts[n].index = InvalidIndex

\* An edit through a pointer does what it says at the pointer, Create and
\* GetWithDefault make a value exactly where Get finds none, and nothing
\* changes at a pointer that neither leads to the place nor through it, as
\* long as no array on the way is turned into an object (or erased from: the
\* elements behind move up).
PointerEditsInPlace ==
    [][LET ts == edit'.at
           before == Get(root, ts)
           after  == Get(root', ts)
       IN  count' # count =>
            /\ edit'.op \in {"Set", "Swap"} /\ ~Reshapes(root, ts) => after = <<edit'.value>>
            /\ edit'.op \in {"Create", "Default"} =>
                 IF before # <<>> THEN root' = root
                 ELSE Reshapes(root, ts) \/ after = <<edit'.value>>
            /\ edit'.op = "Swap" => hand' = IF before = <<>> THEN Null ELSE before[1]
            /\ edit'.op = "Erase" =>
                 IF before = <<>> \/ ts = <<>> THEN root' = root
                 ELSE after = IF Get(root, Front(ts))[1].k = "Object" THEN <<>>
                              ELSE Get(root, Append(Front(ts), [Last(ts) EXCEPT !.index = @ + 1]))
            /\ \A text \in Pointers :
                 LET q == Parse(text).tokens
                 IN  /\ Get(root, q) # <<>> /\ ~IsPrefix(q, ts) /\ ~IsPrefix(ts, q)
                     /\ ~(edit'.op # "Erase" /\ Reshapes(root, ts))
                     /\ ~(edit'.op = "Erase" /\ before # <<>> /\ Get(root, Front(ts))[1].k = "Array"
                          /\ IsPrefix(Front(ts), q))
                     => Get(root', q) = Get(root, q)
      ]_vars
=============================================================================
