----------------------------- MODULE JsonValues ----------------------------
(***************************************************************************)
(* The functions of GenericValue (document.h) that change a document: an   *)
(* object and an array that share one pool, and a third value to copy      *)
(* into, to move from and to swap with.                                    *)
(***************************************************************************)
EXTENDS JsonDocument, Bags, BagsExt

CONSTANTS DefaultCapacity,  \* kDefaultObjectCapacity, kDefaultArrayCapacity
          Names,            \* the names of members
          Scalars,          \* numbers and strings that may be given
          UserBuffers,      \* capacities of the first chunk, 0 for none
          MaxEdits          \* bound of the model: calls per document

VARIABLES object, array, spare,  \* the three values
          pool,                  \* the allocator of all of them
          call,                  \* the last call: function, name, positions
          edits                  \* calls so far

vars == <<object, array, spare, pool, call, edits>>

Null == Plain("Null")

Call(function, name, first, last) ==
    [function |-> function, name |-> name, first |-> first, last |-> last]

\* The constructor with a buffer makes it the first chunk.
Init ==
    /\ object = ObjectOf(<<>>, 0, Nowhere) /\ array = ArrayOf(<<>>, 0, Nowhere)
    /\ spare = Null
    /\ pool \in {IF n = 0 THEN <<>> ELSE AddChunk(<<>>, n) : n \in UserBuffers}
    /\ call = Call("none", <<>>, 0, 0) /\ edits = 0

Edit(function, name, first, last) ==
    /\ edits < MaxEdits /\ edits' = edits + 1
    /\ call' = Call(function, name, first, last)

\* The values a caller may give: a new one, whose string goes to the pool, or
\* the spare one, which RawAssign() moves out of its place.
Given ==
    {[left |-> spare] @@ CopyOf(s, pool) : s \in Scalars}
    \cup (IF spare = Null THEN {} ELSE {[value |-> spare, pool |-> pool, left |-> Null]})

Grown(cap) == IF cap = 0 THEN DefaultCapacity ELSE cap + (cap + 1) \div 2

\* A container of n whose capacity is at least the one asked for.
WithCapacity(v, p, cap, bytes) ==
    IF cap <= v.cap THEN [cap |-> v.cap, at |-> v.at, pool |-> p]
    ELSE [cap |-> cap] @@ Realloc(p, v.at, v.cap * bytes, cap * bytes)

\* Without the elements from first to last; what follows is moved down.
Moved(s, first, last) == SubSeq(s, 1, first - 1) \o SubSeq(s, last + 1, Len(s))

---------------------------------------------------------------------------
(* Objects. *)

AddMember(name) ==
    /\ Edit("AddMember", name, 0, 0)
    /\ \E g \in Given :
          LET cap == IF Len(object.m) < object.cap THEN object.cap ELSE Grown(object.cap)
              new == [name |-> StringOf(pool, name).value, value |-> g.value]
          IN  \E room \in {WithCapacity(object, g.pool, cap, MemberBytes)} :
                 /\ object' = ObjectOf(Append(object.m, new), room.cap, room.at)
                 /\ pool' = room.pool
                 /\ spare' = g.left
    /\ UNCHANGED array

\* Mutation: the last member goes, whichever was named.
RemoveMemberLast(name) ==
    /\ Edit("RemoveMember", name, 0, 0) /\ FindMember(object, name) # 0
    /\ object' = [object EXCEPT !.m = Front(@)]
    /\ UNCHANGED <<array, spare, pool>>

\* The last member is moved into the place of the first one of that name.
RemoveMember(name) ==
    LET m == object.m
        i == FindMember(object, name)
    IN  /\ Edit("RemoveMember", name, 0, 0) /\ i # 0
        /\ object' = [object EXCEPT !.m = Front([m EXCEPT ![i] = Last(m)])]
        /\ UNCHANGED <<array, spare, pool>>

EraseMember(name) ==
    LET i == FindMember(object, name)
    IN  /\ Edit("RemoveMember", name, 0, 0) /\ i # 0
        /\ object' = [object EXCEPT !.m = Moved(@, i, i)]
        /\ UNCHANGED <<array, spare, pool>>

EraseMembers(first, last) ==
    /\ Edit("EraseMembers", <<>>, first, last) /\ first <= last
    /\ object' = [object EXCEPT !.m = Moved(@, first, last)]
    /\ UNCHANGED <<array, spare, pool>>

RemoveAllMembers ==
    /\ Edit("EraseMembers", <<>>, 1, Len(object.m))
    /\ object' = [object EXCEPT !.m = <<>>]
    /\ UNCHANGED <<array, spare, pool>>

---------------------------------------------------------------------------
(* Arrays. *)

ReserveElements(cap) ==
    /\ Edit("Reserve", <<>>, 0, 0)
    /\ \E room \in {WithCapacity(array, pool, cap, ValueBytes)} :
          /\ array' = [array EXCEPT !.cap = room.cap, !.at = room.at]
          /\ pool' = room.pool
    /\ UNCHANGED <<object, spare>>

PushBack ==
    /\ Edit("PushBack", <<>>, 0, 0)
    /\ \E g \in Given :
          LET cap == IF Len(array.e) < array.cap THEN array.cap ELSE Grown(array.cap)
          IN  \E room \in {WithCapacity(array, g.pool, cap, ValueBytes)} :
                 /\ array' = ArrayOf(Append(array.e, g.value), room.cap, room.at)
                 /\ pool' = room.pool
                 /\ spare' = g.left
    /\ UNCHANGED object

PopBack ==
    /\ Edit("Erase", <<>>, Len(array.e), Len(array.e)) /\ array.e # <<>>
    /\ array' = [array EXCEPT !.e = Front(@)]
    /\ UNCHANGED <<object, spare, pool>>

Erase(first, last) ==
    /\ Edit("Erase", <<>>, first, last) /\ first <= last
    /\ array' = [array EXCEPT !.e = Moved(@, first, last)]
    /\ UNCHANGED <<object, spare, pool>>

Clear ==
    /\ Edit("Erase", <<>>, 1, Len(array.e))
    /\ array' = [array EXCEPT !.e = <<>>]
    /\ UNCHANGED <<object, spare, pool>>

---------------------------------------------------------------------------
(* Copying and swapping. *)

CopyFrom(v) ==
    /\ Edit("CopyFrom", <<>>, 0, 0)
    /\ \E copy \in {CopyOf(v, pool)} : spare' = copy.value /\ pool' = copy.pool
    /\ UNCHANGED <<object, array>>

SwapObject ==
    /\ Edit("Swap", <<>>, 0, 0) /\ spare.k = "Object"
    /\ object' = spare /\ spare' = object
    /\ UNCHANGED <<array, pool>>

SwapArray ==
    /\ Edit("Swap", <<>>, 0, 0) /\ spare.k = "Array"
    /\ array' = spare /\ spare' = array
    /\ UNCHANGED <<object, pool>>

Next ==
    \/ \E name \in Names : AddMember(name) \/ RemoveMember(name) \/ EraseMember(name)
    \/ \E first, last \in 1 .. Len(object.m) : EraseMembers(first, last)
    \/ RemoveAllMembers
    \/ \E cap \in 1 .. DefaultCapacity + 1 : ReserveElements(cap)
    \/ PushBack \/ PopBack \/ Clear
    \/ \E first, last \in 1 .. Len(array.e) : Erase(first, last)
    \/ \E v \in {object, array} : CopyFrom(v)
    \/ SwapObject \/ SwapArray

---------------------------------------------------------------------------
(* Properties. *)

\* What a value holds, without its capacities and its addresses.
RECURSIVE ContentOf(_)
BagOf(v) ==
    LET content(m) == [name |-> m.name.s, value |-> ContentOf(m.value)]
    IN  FoldLeft(LAMBDA b, m : BagAdd(b, content(m)), EmptyBag, v.m)
ElementsOf(v) == [i \in DOMAIN v.e |-> ContentOf(v.e[i])]
ContentOf(v) ==
    CASE v.k = "Object" -> [k |-> "Object", bag |-> BagOf(v)]
      [] v.k = "Array"  -> [k |-> "Array", seq |-> ElementsOf(v)]
      [] v.k = "String" -> [k |-> "String", s |-> v.s]
      [] OTHER          -> v

M == INSTANCE Members WITH
        object   <- BagOf(object),
        array    <- ElementsOf(array),
        spare    <- IF spare = Null THEN <<>> ELSE <<ContentOf(spare)>>,
        Contents <- {ContentOf(s) : s \in Scalars}

\* However the members are moved about in their blocks, an edit does to the
\* object and to the array what it says: no member is lost, doubled or
\* changed by a removal, a growth, a copy or a swap.  RemoveMember() may
\* reorder the members, erasing does not reorder the elements.
EditsKeepMembers == M!Init /\ [][M!Next]_(M!vars)

\* The blocks of a value and of everything below it.
RECURSIVE Blocks(_)
Blocks(v) ==
    LET own(bytes) == IF bytes = 0 THEN <<>> ELSE <<[at |-> v.at, bytes |-> Aligned(bytes)]>>
        below(s, Op(_)) == FoldLeft(LAMBDA t, u : t \o Op(u), <<>>, s)
    IN  CASE v.k = "Object" ->
                own(v.cap * MemberBytes)
                \o below(v.m, LAMBDA m : Blocks(m.name) \o Blocks(m.value))
          [] v.k = "Array" -> own(v.cap * ValueBytes) \o below(v.e, Blocks)
          [] v.k = "String" /\ Len(v.s) > ShortMax -> own(Len(v.s) + 1)
          [] OTHER -> <<>>

\* Every block lies in a chunk, below the chunk's fill level, and no two
\* blocks in use overlap: a block that grows in place grows over nothing,
\* although the pool is shared by containers that grow in turn and by the
\* strings and copies made in between.
BlocksDisjoint ==
    LET b == Blocks(object) \o Blocks(array) \o Blocks(spare)
        end(i) == b[i].at.off + b[i].bytes
    IN  /\ \A i \in DOMAIN b : /\ b[i].at.chunk \in DOMAIN pool
                               /\ end(i) <= pool[b[i].at.chunk].size
        /\ \A c \in DOMAIN pool : pool[c].size <= pool[c].cap
        /\ \A i, j \in DOMAIN b : i = j \/ b[i].at.chunk # b[j].at.chunk
                                 \/ end(i) <= b[j].at.off \/ end(j) <= b[i].at.off
        /\ Len(object.m) <= object.cap /\ Len(array.e) <= array.cap

RECURSIVE NamesOnce(_)
NamesOnce(v) ==
    CASE v.k = "Object" -> /\ \A i, j \in DOMAIN v.m : v.m[i].name.s = v.m[j].name.s => i = j
                           /\ \A i \in DOMAIN v.m : NamesOnce(v.m[i].value)
      [] v.k = "Array" -> \A i \in DOMAIN v.e : NamesOnce(v.e[i])
      [] OTHER -> TRUE

\* operator== holds between values of the same content, whatever the order
\* the members have come into, and between no others.  With a name used
\* twice it compares every member with the first of that name, and can deny
\* a value equal to its own copy.
EqualMeansContent ==
    \A v \in {object, array} :
        NamesOnce(v) /\ NamesOnce(spare) =>
            /\ Equal(v, spare) <=> ContentOf(v) = ContentOf(spare)
            /\ Equal(spare, v) <=> Equal(v, spare)
=============================================================================
