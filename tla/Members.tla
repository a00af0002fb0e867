------------------------------ MODULE Members ------------------------------
(***************************************************************************)
(* What the editing functions of a value promise, without capacities,      *)
(* blocks or positions: an object is a bag of members, an array a          *)
(* sequence, and a third value is a copy of one of them or nothing.        *)
(***************************************************************************)
EXTENDS Integers, Sequences, Bags, BagsExt

CONSTANT Contents      \* the values members and elements may be given

VARIABLES object,      \* a bag of [name, value]
          array,       \* a sequence of values
          spare,       \* <<>>, or the one value it holds
          call         \* the last call [function, name, first, last]

vars == <<object, array, spare, call>>

AnObject(bag) == [k |-> "Object", bag |-> bag]
AnArray(seq) == [k |-> "Array", seq |-> seq]

Init == object = EmptyBag /\ array = <<>> /\ spare = <<>> /\ call.function = "none"

Called(function) == call'.function = function

\* A value is given by the caller, or moved from the spare one.
Given(v) == \/ v \in Contents /\ UNCHANGED spare
            \/ spare = <<v>> /\ spare' = <<>>

Candidates == Contents \cup {spare[i] : i \in DOMAIN spare}

AddMember ==
    /\ Called("AddMember")
    /\ \E v \in Candidates : /\ Given(v)
                             /\ object' = BagAdd(object, [name |-> call'.name, value |-> v])
    /\ UNCHANGED array

\* One member of that name goes, the others stay.
RemoveMember ==
    /\ Called("RemoveMember")
    /\ \E m \in DOMAIN object : m.name = call'.name /\ object' = BagRemove(object, m)
    /\ UNCHANGED <<array, spare>>

\* As many members as the range has places go.
EraseMembers ==
    /\ Called("EraseMembers")
    /\ object' \in SubBag(object)
    /\ BagCardinality(object') = BagCardinality(object) - (call'.last - call'.first + 1)
    /\ UNCHANGED <<array, spare>>

PushBack ==
    /\ Called("PushBack")
    /\ \E v \in Candidates : Given(v) /\ array' = Append(array, v)
    /\ UNCHANGED object

\* The elements from first to last are taken out, the others keep their order.
Erase ==
    /\ Called("Erase")
    /\ array' = SubSeq(array, 1, call'.first - 1) \o SubSeq(array, call'.last + 1, Len(array))
    /\ UNCHANGED <<object, spare>>

Reserve == Called("Reserve") /\ UNCHANGED <<object, array, spare>>

CopyFrom ==
    /\ Called("CopyFrom")
    /\ spare' \in {<<AnObject(object)>>, <<AnArray(array)>>}
    /\ UNCHANGED <<object, array>>

Swap ==
    /\ Called("Swap")
    /\ \/ /\ spare = <<AnObject(object')>> /\ spare' = <<AnObject(object)>>
          /\ UNCHANGED array
       \/ /\ spare = <<AnArray(array')>> /\ spare' = <<AnArray(array)>>
          /\ UNCHANGED object

Next == AddMember \/ RemoveMember \/ EraseMembers \/ PushBack \/ Erase \/ Reserve
        \/ CopyFrom \/ Swap

Spec == Init /\ [][Next]_vars
=============================================================================
