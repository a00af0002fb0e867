---------------------------- MODULE JsonMemory -----------------------------
(***************************************************************************)
(* The two memories under rapidjson's documents and writers: the growing   *)
(* stack of internal/stack.h, which also backs the string buffer of        *)
(* stringbuffer.h, and the pool of chunks of allocators.h that values live *)
(* in and that frees nothing before the document goes.                     *)
(***************************************************************************)
EXTENDS Integers, Sequences, SequencesExt

CONSTANTS Alignment,        \* RAPIDJSON_ALIGN: blocks are multiples of it
          ChunkCapacity     \* kDefaultChunkCapacity

ASSUME MemoryAssumption == Alignment \in Nat \ {0} /\ ChunkCapacity \in Nat \ {0}

(* A stack k == [data, cap, init, failed]: what is on it, the capacity     *)
(* allocated (0 before the first push), the initial one, and whether an    *)
(* assertion of the code has failed on it.                                 *)

NewStack(init) == [data |-> <<>>, cap |-> 0, init |-> init, failed |-> FALSE]

Expand(k, count) ==
    LET grown == IF k.cap = 0 THEN k.init ELSE k.cap + (k.cap + 1) \div 2
        size  == Len(k.data) + count
    IN  [k EXCEPT !.cap = IF grown < size THEN size ELSE grown]

Reserve(k, count) == IF Len(k.data) + count > k.cap THEN Expand(k, count) ELSE k

PushUnsafe(k, s) ==
    [k EXCEPT !.data = @ \o s, !.failed = @ \/ Len(k.data) + Len(s) > k.cap]

Push(k, s) == PushUnsafe(Reserve(k, Len(s)), s)

Pop(k, count) ==
    IF Len(k.data) < count THEN [k EXCEPT !.failed = TRUE]
    ELSE [k EXCEPT !.data = SubSeq(@, 1, Len(@) - count)]

Top(k, count) == SubSeq(k.data, Len(k.data) - count + 1, Len(k.data))

Cleared(k) == [k EXCEPT !.data = <<>>]

ShrinkToFit(k) == [k EXCEPT !.cap = Len(k.data)]

---------------------------------------------------------------------------
(* A pool is a sequence of chunks [cap, size], the last one the head; an   *)
(* address is a chunk and an offset in it.                                 *)

Nowhere == [chunk |-> 0, off |-> 0]

Aligned(size) == ((size + Alignment - 1) \div Alignment) * Alignment

AddChunk(pool, cap) == Append(pool, [cap |-> cap, size |-> 0])

Malloc(pool, size) ==
    LET n     == Aligned(size)
        fits  == pool # <<>> /\ Last(pool).size + n <= Last(pool).cap
        added == IF fits THEN pool
                 ELSE AddChunk(pool, IF ChunkCapacity > n THEN ChunkCapacity ELSE n)
    IN  IF size = 0 THEN [pool |-> pool, at |-> Nowhere]
        ELSE [pool |-> [added EXCEPT ![Len(added)].size = @ + n],
              at   |-> [chunk |-> Len(added), off |-> Last(added).size]]

\* Mutation: any block of the head chunk may grow in place.
GrowsAnywhere(pool, at, old, new) ==
    /\ at.chunk = Len(pool)
    /\ Last(pool).size + new - old <= Last(pool).cap

\* A block only grows in place when it is the last one of the head chunk.
GrowsInPlace(pool, at, old, new) ==
    /\ at = [chunk |-> Len(pool), off |-> Last(pool).size - old]
    /\ Last(pool).size + new - old <= Last(pool).cap

Realloc(pool, at, oldSize, newSize) ==
    LET old == Aligned(oldSize)
        new == Aligned(newSize)
    IN  IF at = Nowhere THEN Malloc(pool, newSize)
        ELSE IF newSize = 0 THEN [pool |-> pool, at |-> Nowhere]
        ELSE IF old >= new THEN [pool |-> pool, at |-> at]
        ELSE IF GrowsInPlace(pool, at, old, new)
             THEN [pool |-> [pool EXCEPT ![Len(pool)].size = @ + new - old], at |-> at]
        ELSE Malloc(pool, new)
=============================================================================
