---------------------------- MODULE JsonDocument ---------------------------
(***************************************************************************)
(* GenericDocument and GenericValue of                                     *)
(* src/protocol/json/rapidjson/document.h: the handler that builds a       *)
(* document from events, its accessors, and Accept, which gives the events *)
(* back.  Objects, arrays and long strings are blocks of the pool, and     *)
(* their values keep the address and the capacity of the block.            *)
(***************************************************************************)
EXTENDS JsonNumbers, JsonMemory

CONSTANTS ValueBytes,       \* sizeof(GenericValue)
          ShortMax,         \* ShortString::MaxSize
          StackValues       \* kDefaultStackCapacity, in values

Plain(k) == [k |-> k]
Number(v, p, flags) == [k |-> "Number", v |-> v, p |-> p, flags |-> flags]
ObjectOf(m, cap, at) == [k |-> "Object", m |-> m, cap |-> cap, at |-> at]
ArrayOf(e, cap, at) == [k |-> "Array", e |-> e, cap |-> cap, at |-> at]
MemberBytes == 2 * ValueBytes

\* The flags of the four integer constructors: the types a value can be
\* read as.  At the boundary of int it is a wider type, whatever its event.
FlagsOf(event) ==
    LET v == event.v
        int  == {f \in {"Int"}  : v \in -(2 ^ (IntBits - 1)) .. 2 ^ (IntBits - 1) - 1}
        uint == {f \in {"Uint"} : v \in 0 .. 2 ^ IntBits - 1}
        long == {f \in {"Int64"} : v < 2 ^ (LongBits - 1)}
        ulong == {f \in {"Uint64"} : v >= 0}
    IN  CASE event.k = "Int"   -> {"Int", "Int64"} \cup (IF v >= 0 THEN {"Uint", "Uint64"} ELSE {})
          [] event.k = "Uint"  -> {"Uint", "Uint64", "Int64"} \cup int
          [] event.k = "Int64" -> {"Int64"} \cup int \cup uint \cup ulong
          [] OTHER             -> {"Uint64"} \cup long \cup uint \cup int

\* SetStringRaw(s, allocator): a short string is kept in the value itself.
StringOf(pool, s) ==
    LET in(block) == [pool |-> block.pool, value |-> [k |-> "String", s |-> s, at |-> block.at]]
    IN  in(IF Len(s) <= ShortMax THEN [pool |-> pool, at |-> Nowhere] ELSE Malloc(pool, Len(s) + 1))

Pairs(values) ==
    [i \in 1 .. Len(values) \div 2 |-> [name |-> values[2 * i - 1], value |-> values[2 * i]]]

\* A document d == [root, pool, stack, err] in the middle of its events.
NewDocument == [root |-> Plain("Null"), pool |-> <<>>, stack |-> NewStack(StackValues),
                err |-> "None"]

PushValue(d, v) == [d EXCEPT !.stack = Push(@, <<v>>)]

\* EndObject and EndArray: the values pushed since the start are moved from
\* the stack into a block, the value below them becomes its owner.
Gather(d, count, bytes) ==
    LET with(block) == [values |-> Top(d.stack, count), at |-> block.at, pool |-> block.pool,
                        below  |-> Pop(Pop(d.stack, count), 1)]
    IN  with(Malloc(d.pool, bytes))

Owned(d, g, owner) == [d EXCEPT !.pool = g.pool, !.stack = PushUnsafe(g.below, <<owner>>)]

Handle(d, event) ==
    CASE event.k \in {"Null", "True", "False"} -> PushValue(d, Plain(event.k))
      [] event.k \in {"Int", "Uint", "Int64", "Uint64"} ->
            PushValue(d, Number(event.v, 0, FlagsOf(event)))
      [] event.k = "Double" -> PushValue(d, Number(event.v, event.p, {"Double"}))
      [] event.k \in {"String", "Key"} ->
            LET push(s) == PushValue([d EXCEPT !.pool = s.pool], s.value)
            IN  push(StringOf(d.pool, event.s))
      [] event.k = "StartObject" -> PushValue(d, ObjectOf(<<>>, 0, Nowhere))
      [] event.k = "StartArray" -> PushValue(d, ArrayOf(<<>>, 0, Nowhere))
      [] event.k = "EndObject" ->
            LET owned(g) == Owned(d, g, ObjectOf(Pairs(g.values), event.n, g.at))
            IN  owned(Gather(d, 2 * event.n, event.n * MemberBytes))
      [] event.k = "EndArray" ->
            LET owned(g) == Owned(d, g, ArrayOf(g.values, event.n, g.at))
            IN  owned(Gather(d, event.n, event.n * ValueBytes))

\* The end of ParseStream: the one value left becomes the document, unless
\* the reader failed, and the stack is cleared and given back.
Finish(d, err) ==
    LET one == Len(d.stack.data) = 1
        done == IF err = "None" /\ one
                THEN [d EXCEPT !.root = d.stack.data[1], !.stack = Pop(@, 1)]
                ELSE [d EXCEPT !.stack.failed = @ \/ err = "None"]
    IN  [done EXCEPT !.err = err, !.stack = ShrinkToFit(Cleared(@))]

---------------------------------------------------------------------------
(* Accessors.  Where an assertion of the code would stop the program they  *)
(* return what is no value, no string or no int.                           *)

NoValue == [k |-> "NoValue"]
NoString == <<-1>>
NoInt == 2 ^ LongBits

FindMember(v, name) ==
    LET found == {i \in 1 .. Len(v.m) : v.m[i].name.s = name}
    IN  IF found = {} THEN 0 ELSE CHOOSE i \in found : \A j \in found : i <= j

Member(v, name) ==
    CASE v.k # "Object"           -> NoValue
      [] FindMember(v, name) = 0  -> NoValue
      [] OTHER                    -> v.m[FindMember(v, name)].value

StringIn(v) == IF v.k = "String" THEN v.s ELSE NoString
GetInt(v) == IF v.k = "Number" /\ "Int" \in v.flags THEN v.v ELSE NoInt

\* The handler's event for a number: the narrowest type it can be read as.
NumberEvent(v) ==
    CASE "Double" \in v.flags -> [k |-> "Double", v |-> v.v, p |-> v.p]
      [] "Int" \in v.flags    -> [k |-> "Int", v |-> v.v]
      [] "Uint" \in v.flags   -> [k |-> "Uint", v |-> v.v]
      [] "Int64" \in v.flags  -> [k |-> "Int64", v |-> v.v]
      [] OTHER                -> [k |-> "Uint64", v |-> v.v]

RECURSIVE Accept(_)
Accept(v) ==
    LET all(s) == FoldLeft(LAMBDA t, u : t \o u, <<>>, s)
    IN  CASE v.k = "Object" ->
                <<[k |-> "StartObject"]>>
                \o all([i \in DOMAIN v.m |-> <<[k |-> "Key", s |-> v.m[i].name.s]>>
                                             \o Accept(v.m[i].value)])
                \o <<[k |-> "EndObject", n |-> Len(v.m)]>>
          [] v.k = "Array" ->
                <<[k |-> "StartArray"]>> \o all([i \in DOMAIN v.e |-> Accept(v.e[i])])
                \o <<[k |-> "EndArray", n |-> Len(v.e)]>>
          [] v.k = "String" -> <<[k |-> "String", s |-> v.s]>>
          [] v.k = "Number" -> <<NumberEvent(v)>>
          [] OTHER -> <<v>>

\* The copy constructor: a scalar is copied, a string with its bytes, an
\* object or an array by way of a document that handles its events.
CopyOf(v, pool) ==
    LET built(d) == [pool |-> d.pool, value |-> d.stack.data[1]]
    IN  CASE v.k \in {"Object", "Array"} ->
                built(FoldLeft(Handle, [NewDocument EXCEPT !.pool = pool], Accept(v)))
          [] v.k = "String" -> StringOf(pool, v.s)
          [] OTHER -> [pool |-> pool, value |-> v]

\* Equality: members of an object in any order, the first of each name;
\* integers by their 64 bits, doubles by their value.
SameNumber(v, u) ==
    LET low == IF v.p < u.p THEN v.p ELSE u.p
    IN  IF "Double" \in v.flags \cup u.flags
        THEN v.v * 10 ^ (v.p - low) = u.v * 10 ^ (u.p - low)
        ELSE (v.v - u.v) % (2 ^ LongBits) = 0

\* Mutation: an object is equal to one that has more members.
RECURSIVE EqualSubset(_, _)
EqualSubset(v, u) ==
    CASE v.k = "Object" /\ u.k = "Object" ->
            \A i \in DOMAIN v.m :
                LET j == FindMember(u, v.m[i].name.s)
                IN  j # 0 /\ EqualSubset(v.m[i].value, u.m[j].value)
      [] v.k = "Array" /\ u.k = "Array" ->
            Len(v.e) = Len(u.e) /\ \A i \in DOMAIN v.e : EqualSubset(v.e[i], u.e[i])
      [] v.k = "String" /\ u.k = "String" -> v.s = u.s
      [] v.k = "Number" /\ u.k = "Number" -> SameNumber(v, u)
      [] OTHER -> v = u

RECURSIVE Equal(_, _)
Equal(v, u) ==
    CASE v.k = "Object" /\ u.k = "Object" ->
            /\ Len(v.m) = Len(u.m)
            /\ \A i \in DOMAIN v.m :
                  LET j == FindMember(u, v.m[i].name.s)
                  IN  j # 0 /\ Equal(v.m[i].value, u.m[j].value)
      [] v.k = "Array" /\ u.k = "Array" ->
            Len(v.e) = Len(u.e) /\ \A i \in DOMAIN v.e : Equal(v.e[i], u.e[i])
      [] v.k = "String" /\ u.k = "String" -> v.s = u.s
      [] v.k = "Number" /\ u.k = "Number" -> SameNumber(v, u)
      [] OTHER -> v = u
=============================================================================
