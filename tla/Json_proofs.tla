----------------------------- MODULE Json_proofs ----------------------------
(***************************************************************************)
(* Theorems about JsonMemory, Utf8, Itoa, JsonWriter and JsonLexer, for    *)
(* any alignment, capacities, indentation, sizes and strings:              *)
(*  - what the pool gives out does not overlap;                            *)
(*  - UTF8::Validate() takes the well-formed sequences and no other, and   *)
(*    Decode() and Encode() undo each other;                               *)
(*  - a number fits the room that the writer gives it, and a string the    *)
(*    room that WriteString() reserves: the buffer is never overrun;       *)
(*  - a string that was written is read back as it was.                    *)
(***************************************************************************)
EXTENDS JsonWriter, SequenceTheorems, Induction_proofs

-----------------------------------------------------------------------------
(* The pool. *)

VARIABLES pool,     \* the chunks, as in JsonMemory
          held      \* the blocks its callers have: [at, size], the size asked for

poolVars == <<pool, held>>

(* An aligned size is a number, and room enough.                           *)
LEMMA AlignedRoom ==
  ASSUME NEW size \in Nat
  PROVE  Aligned(size) \in Nat /\ Aligned(size) >= size
<1> DEFINE x == size + Alignment - 1
           q == x \div Alignment
           rest == x % Alignment
           product == Alignment * q
<1>1. Alignment \in Nat \ {0} /\ x \in Nat
  BY MemoryAssumption
<1> HIDE DEF x
<1>2. q \in Int
  BY <1>1
<1>3. rest \in 0 .. Alignment - 1
  BY <1>1
<1>4. x = product + rest
  BY <1>1
<1> HIDE DEF q, rest
<1>5. product \in Int /\ q * Alignment = product
  BY <1>1, <1>2
<1> HIDE DEF product
<1>6. product \in Nat /\ product >= size
  BY <1>1, <1>3, <1>4, <1>5 DEF x
<1> QED BY <1>5, <1>6 DEF Aligned, q, x

-----------------------------------------------------------------------------
(* The pool under any callers: whoever shares it calls Malloc() with any   *)
(* size, Realloc() with a block it has, in any order, and gives blocks up, *)
(* which the pool is never told.  Documents, values and copies are such    *)
(* callers (JsonDocument, JsonValues).                                     *)

Block(at, size) == [at |-> at, size |-> size]

\* No chunk yet, or the caller's buffer as the first.
PoolInit ==
    /\ held = {}
    /\ pool = <<>> \/ \E n \in Nat : pool = AddChunk(<<>>, n)

Allocate(size) ==
    LET r == Malloc(pool, size)
    IN  /\ pool' = r.pool
        /\ held' = IF size = 0 THEN held ELSE held \cup {Block(r.at, size)}

Resize(b, size) ==
    LET r == Realloc(pool, b.at, b.size, size)
    IN  /\ pool' = r.pool
        /\ held' = IF size = 0 THEN held \ {b} ELSE (held \ {b}) \cup {Block(r.at, size)}

GiveUp(b) == held' = held \ {b} /\ pool' = pool

PoolNext ==
    \/ \E size \in Nat : Allocate(size)
    \/ \E b \in held, size \in Nat : Resize(b, size)
    \/ \E b \in held : GiveUp(b)

PoolSpec == PoolInit /\ [][PoolNext]_poolVars

Chunk == [cap : Nat, size : Nat]
Address == [chunk : Nat, off : Nat]

Filled(p) == p \in Seq(Chunk) /\ \A c \in DOMAIN p : p[c].size <= p[c].cap

\* So many bytes at an address lie below what their chunk is filled to.
Within(p, at, bytes) ==
    /\ at.chunk \in DOMAIN p
    /\ at.off + bytes <= p[at.chunk].size

Apart(at, bytes, to, others) ==
    \/ at.chunk # to.chunk
    \/ at.off + bytes <= to.off
    \/ to.off + others <= at.off

\* What JsonValues!BlocksDisjoint says of the blocks of a document: each lies
\* in a chunk, below the fill level, which is within the capacity, and no two
\* in use overlap.
Disjoint(p, blocks) ==
    /\ Filled(p)
    /\ blocks \in SUBSET [at : Address, size : Nat \ {0}]
    /\ \A b \in blocks : Within(p, b.at, Aligned(b.size))
    /\ \A b, c \in blocks : b # c => Apart(b.at, Aligned(b.size), c.at, Aligned(c.size))

HeldDisjoint == Disjoint(pool, held)

-----------------------------------------------------------------------------
\* Chunks only get fuller, and none goes.
Keeps(p, next) ==
    /\ Len(p) <= Len(next)
    /\ \A c \in DOMAIN p : p[c].size <= next[c].size

(* A block that lies within a chunk still does when the chunks fill up.    *)
LEMMA KeptWithin ==
  ASSUME NEW p, NEW next, Filled(p), Filled(next), Keeps(p, next),
         NEW at \in Address, NEW bytes \in Nat, Within(p, at, bytes)
  PROVE  Within(next, at, bytes)
<1>1. /\ at.chunk \in DOMAIN p /\ at.chunk \in DOMAIN next
      /\ p[at.chunk] \in Chunk /\ next[at.chunk] \in Chunk
  <2>1. Len(p) \in Nat /\ Len(next) \in Nat /\ DOMAIN p = 1..Len(p)
        /\ DOMAIN next = 1..Len(next)
    BY DEF Filled
  <2>2. at.chunk \in DOMAIN p /\ at.chunk \in DOMAIN next
    BY <2>1 DEF Within, Keeps
  <2> QED BY <2>2 DEF Filled
<1>2. at.off + bytes <= p[at.chunk].size /\ p[at.chunk].size <= next[at.chunk].size
  BY <1>1 DEF Within, Keeps
<1>3. at.off \in Nat /\ p[at.chunk].size \in Nat /\ next[at.chunk].size \in Nat
  BY <1>1 DEF Address, Chunk
<1> QED BY <1>1, <1>2, <1>3 DEF Within

(* Malloc() of a size that is not 0: a block within the pool, beyond all   *)
(* that lie in it, in the head chunk or in one that is added.              *)
LEMMA MallocBlock ==
  ASSUME NEW p, Filled(p), NEW size \in Nat \ {0}
  PROVE  LET r == Malloc(p, size)
         IN  /\ Filled(r.pool) /\ Keeps(p, r.pool)
             /\ r.at \in Address /\ Within(r.pool, r.at, Aligned(size))
             /\ r.at.chunk \in DOMAIN p => r.at.off = p[r.at.chunk].size
<1> DEFINE n == Aligned(size)
           fits == p # <<>> /\ Last(p).size + n <= Last(p).cap
           cap == IF ChunkCapacity > n THEN ChunkCapacity ELSE n
           added == IF fits THEN p ELSE AddChunk(p, cap)
           last == Len(added)
           next == [added EXCEPT ![last].size = @ + n]
           at == [chunk |-> last, off |-> Last(added).size]
<1>1. n \in Nat
  BY AlignedRoom
<1>2. cap \in Nat /\ cap >= n
  BY <1>1, MemoryAssumption
<1>3. Malloc(p, size) = [pool |-> next, at |-> at]
  BY DEF Malloc
<1> HIDE DEF n, cap
<1>4. /\ added \in Seq(Chunk) /\ last \in 1 .. Len(added) /\ Last(added) = added[last]
      /\ added[last].size + n <= added[last].cap
      /\ Len(p) <= Len(added) /\ \A c \in DOMAIN p : added[c] = p[c]
      /\ \A c \in DOMAIN added : added[c].size <= added[c].cap
  <2>1. CASE fits
    <3>1. Len(p) \in Nat /\ Len(p) >= 1 /\ Last(p) = p[Len(p)]
      BY <2>1 DEF Filled, Last
    <3> QED BY <2>1, <3>1 DEF Filled
  <2>2. CASE ~fits
    <3> DEFINE new == [cap |-> cap, size |-> 0]
    <3>1. new \in Chunk /\ p \in Seq(Chunk) /\ added = Append(p, new)
      BY <1>2, <2>2 DEF Chunk, Filled, AddChunk
    <3> HIDE DEF new
    <3>2. /\ added \in Seq(Chunk) /\ Len(added) = Len(p) + 1 /\ Len(p) \in Nat
          /\ added[Len(p) + 1] = new
          /\ \A c \in 1 .. Len(p) : added[c] = p[c]
      BY <3>1, AppendProperties
    <3>3. last = Len(p) + 1 /\ added[last] = new /\ Last(added) = new
      BY <3>2, Zenon DEF Last
    <3>4. new.size = 0 /\ new.cap = cap /\ new.size + n <= new.cap
      BY <1>1, <1>2 DEF new
    <3>5. \A c \in DOMAIN added : added[c].size <= added[c].cap
      <4>1. ASSUME NEW c \in DOMAIN added PROVE added[c].size <= added[c].cap
        <5>1. c \in 1 .. Len(p) \/ c = last
          BY <3>2, <3>3
        <5>2. c \in 1 .. Len(p) => c \in DOMAIN p
          BY <3>1
        <5> QED BY <1>2, <3>2, <3>3, <3>4, <5>1, <5>2 DEF Filled
      <4> QED BY <4>1
    <3> QED BY <3>1, <3>2, <3>3, <3>4, <3>5
  <2> QED BY <2>1, <2>2
<1> HIDE DEF fits, added, last
<1>5. added[last] \in Chunk /\ added[last].size \in Nat /\ added[last].cap \in Nat
  <2>1. added[last] \in Chunk
    BY <1>4, ElementOfSeq
  <2> QED BY <2>1 DEF Chunk
<1>6. [added[last] EXCEPT !.size = @ + n] \in Chunk
  BY <1>1, <1>5 DEF Chunk
<1>7. /\ next \in Seq(Chunk) /\ Len(next) = Len(added)
      /\ next[last].size = added[last].size + n /\ next[last].cap = added[last].cap
      /\ \A c \in DOMAIN added : c # last => next[c] = added[c]
  <2>1. next = [added EXCEPT ![last] = [added[last] EXCEPT !.size = @ + n]]
    BY Zenon
  <2> QED BY <1>4, <1>5, <1>6, <2>1 DEF Chunk
<1> HIDE DEF next
<1>8. Filled(next)
  <2>1. ASSUME NEW c \in DOMAIN next PROVE next[c].size <= next[c].cap
    <3>1. c \in DOMAIN added
      BY <1>4, <1>7
    <3>2. CASE c = last
      BY <1>4, <1>7, <3>2
    <3>3. CASE c # last
      BY <1>4, <1>7, <3>1, <3>3
    <3> QED BY <3>2, <3>3
  <2> QED BY <1>7, <2>1 DEF Filled
<1>9. Keeps(p, next)
  <2>1. ASSUME NEW c \in DOMAIN p PROVE p[c].size <= next[c].size
    <3>1. c \in DOMAIN added /\ added[c] = p[c] /\ p[c] \in Chunk
      <4>1. DOMAIN p = 1 .. Len(p) /\ DOMAIN added = 1 .. Len(added)
            /\ Len(p) \in Nat /\ Len(added) \in Nat
        BY <1>4 DEF Filled
      <4> QED BY <1>4, <4>1 DEF Filled
    <3>2. p[c].size \in Nat
      BY <3>1 DEF Chunk
    <3>3. CASE c = last
      BY <1>1, <1>7, <3>1, <3>2, <3>3
    <3>4. CASE c # last
      BY <1>7, <3>1, <3>2, <3>4
    <3> QED BY <3>3, <3>4
  <2> QED BY <1>4, <1>7, <2>1 DEF Keeps
<1>10. at \in Address /\ Within(next, at, n)
  <2>1. at.chunk = last /\ at.off = added[last].size
    BY <1>4
  <2>2. last \in Nat /\ last \in DOMAIN next
    BY <1>4, <1>7
  <2>3. at \in Address
    BY <1>5, <2>1, <2>2 DEF Address
  <2>4. at.off + n <= next[at.chunk].size
    BY <1>1, <1>5, <1>7, <2>1
  <2> QED BY <2>1, <2>2, <2>3, <2>4, Zenon DEF Within
<1>11. at.chunk \in DOMAIN p => at.off = p[at.chunk].size
  BY <1>4
<1> QED BY <1>3, <1>8, <1>9, <1>10, <1>11 DEF n

(* A block of positive size beyond the fill level is apart from all blocks *)
(* within the chunks as they were.                                         *)
LEMMA BeyondIsApart ==
  ASSUME NEW p, Filled(p), NEW at \in Address, NEW bytes \in Nat,
         NEW to \in Address, NEW others \in Nat, Within(p, to, others),
         at.chunk \in DOMAIN p => at.off = p[at.chunk].size
  PROVE  Apart(at, bytes, to, others) /\ Apart(to, others, at, bytes)
<1>1. CASE at.chunk # to.chunk
  BY <1>1 DEF Apart
<1>2. CASE at.chunk = to.chunk
  <2>1. to.off + others <= at.off
    BY <1>2, Zenon DEF Within
  <2> QED BY <2>1, Zenon DEF Apart
<1> QED BY <1>1, <1>2

(* Realloc() of a block that its caller has: it stays where it is, with no *)
(* more bytes or, at the end of its chunk, with those that follow; or it   *)
(* is beyond all that lie in the pool.                                     *)
LEMMA ReallocBlock ==
  ASSUME NEW p, Filled(p), NEW from \in Address, NEW oldSize \in Nat,
         NEW newSize \in Nat \ {0}, Within(p, from, Aligned(oldSize))
  PROVE  LET r == Realloc(p, from, oldSize, newSize)
             old == Aligned(oldSize)
             new == Aligned(newSize)
         IN  /\ Filled(r.pool) /\ Keeps(p, r.pool)
             /\ r.at \in Address /\ Within(r.pool, r.at, new)
             /\ \/ r.at = from /\ new <= old
                \/ r.at = from /\ from.off + old = p[from.chunk].size
                \/ r.at.chunk \in DOMAIN p => r.at.off = p[r.at.chunk].size
<1> DEFINE r == Realloc(p, from, oldSize, newSize)
           old == Aligned(oldSize)
           new == Aligned(newSize)
           last == Len(p)
<1>1. old \in Nat /\ new \in Nat \ {0}
  <2>1. old \in Nat
    BY AlignedRoom
  <2>2. new \in Nat /\ new >= newSize
    BY AlignedRoom
  <2> QED BY <2>1, <2>2
<1>2. p \in Seq(Chunk) /\ last \in Nat /\ DOMAIN p = 1 .. last
  BY DEF Filled
<1>3. from.chunk \in DOMAIN p /\ from.chunk \in Nat \ {0} /\ from.off \in Nat
  BY <1>2 DEF Within, Address
<1>4. from # Nowhere
  BY <1>3 DEF Nowhere
<1>5. Keeps(p, p)
  <2>1. ASSUME NEW c \in DOMAIN p PROVE p[c].size <= p[c].size
    <3>1. p[c] \in Chunk
      BY <1>2, <2>1, ElementOfSeq
    <3> QED BY <3>1 DEF Chunk
  <2> QED BY <1>2, <2>1 DEF Keeps
<1>6. CASE old >= new
  <2>1. r.pool = p /\ r.at = from
    <3>1. newSize # 0
      OBVIOUS
    <3>2. r = [pool |-> p, at |-> from]
      BY <1>4, <1>6, <3>1, Zenon DEF Realloc
    <3> HIDE DEF r
    <3> QED BY <3>2
  <2>2. Within(p, from, new)
    <3>1. p[from.chunk] \in Chunk
      BY <1>2, <1>3, ElementOfSeq
    <3>2. p[from.chunk].size \in Nat
      BY <3>1 DEF Chunk
    <3>3. from.off + old <= p[from.chunk].size
      BY DEF Within
    <3>4. from.off + new <= p[from.chunk].size
      BY <1>1, <1>3, <1>6, <3>2, <3>3
    <3> QED BY <1>3, <3>4 DEF Within
  <2>3. new <= old
    BY <1>1, <1>6
  <2> QED BY <1>5, <2>1, <2>2, <2>3
<1>7. CASE ~(old >= new) /\ GrowsInPlace(p, from, old, new)
  <2> DEFINE more == [p[last] EXCEPT !.size = @ + new - old]
  <2>1. r.pool = [p EXCEPT ![last].size = @ + new - old] /\ r.at = from
    <3>1. newSize # 0
      OBVIOUS
    <3> DEFINE next == [p EXCEPT ![last].size = @ + new - old]
    <3>2. r = [pool |-> next, at |-> from]
      BY <1>4, <1>7, <3>1, Zenon DEF Realloc
    <3> HIDE DEF r, next
    <3>3. r.pool = next /\ r.at = from
      BY <3>2
    <3> QED BY <3>3 DEF next
  <2>2. Last(p) = p[last]
    BY DEF Last
  <2>3. from.chunk = last /\ from.off = p[last].size - old /\ p[last].size + new - old <= p[last].cap
    BY <1>7, <2>2 DEF GrowsInPlace
  <2>4. last \in DOMAIN p /\ p[last] \in Chunk
    BY <1>2, <1>3, <2>3, ElementOfSeq
  <2>5. p[last].size \in Nat /\ p[last].cap \in Nat
    BY <2>4 DEF Chunk
  <2>6. old < new
    BY <1>1, <1>7
  <2>7. p[last].size + new - old \in Nat /\ p[last].size <= p[last].size + new - old
    BY <1>1, <2>5, <2>6
  <2>8. more = [cap |-> p[last].cap, size |-> p[last].size + new - old]
    BY <2>4 DEF Chunk
  <2> DEFINE next == r.pool
  <2>9. next = [p EXCEPT ![last] = more]
    BY <2>1, Zenon
  <2>10. more \in Chunk
    BY <2>5, <2>7, <2>8 DEF Chunk
  <2> HIDE DEF more, next
  <2>11. /\ next \in Seq(Chunk) /\ Len(next) = last /\ DOMAIN next = DOMAIN p
         /\ next[last] = more /\ \A c \in DOMAIN p : c # last => next[c] = p[c]
    BY <1>2, <2>4, <2>9, <2>10
  <2>12. Filled(next)
    <3>1. ASSUME NEW c \in DOMAIN next PROVE next[c].size <= next[c].cap
      <4>1. CASE c = last
        BY <2>3, <2>8, <2>11, <4>1
      <4>2. CASE c # last
        BY <2>11, <4>2 DEF Filled
      <4> QED BY <4>1, <4>2
    <3> QED BY <2>11, <3>1 DEF Filled
  <2>13. Keeps(p, next)
    <3>1. ASSUME NEW c \in DOMAIN p PROVE p[c].size <= next[c].size
      <4>1. CASE c = last
        BY <2>7, <2>8, <2>11, <4>1
      <4>2. CASE c # last
        BY <1>5, <2>11, <4>2 DEF Keeps
      <4> QED BY <4>1, <4>2
    <3> QED BY <1>2, <2>11, <3>1 DEF Keeps
  <2>14. from.off + new <= next[last].size /\ from.off + old = p[last].size
    BY <1>1, <2>3, <2>5, <2>8, <2>11
  <2>15. Within(next, from, new)
    BY <2>3, <2>4, <2>11, <2>14 DEF Within
  <2> QED BY <2>1, <2>3, <2>12, <2>13, <2>14, <2>15 DEF next
<1>8. CASE ~(old >= new) /\ ~GrowsInPlace(p, from, old, new)
  <2>1. r = Malloc(p, new)
    BY <1>1, <1>4, <1>8 DEF Realloc
  <2>2. /\ Filled(r.pool) /\ Keeps(p, r.pool)
        /\ r.at \in Address /\ Within(r.pool, r.at, Aligned(new))
        /\ r.at.chunk \in DOMAIN p => r.at.off = p[r.at.chunk].size
    BY <1>1, <2>1, MallocBlock
  <2>3. Aligned(new) \in Nat /\ Aligned(new) >= new
    BY <1>1, AlignedRoom
  <2>4. Within(r.pool, r.at, new)
    <3> DEFINE q == r.pool
               at == r.at
               full == Aligned(new)
    <3>1. q \in Seq(Chunk) /\ at.chunk \in DOMAIN q /\ at.off \in Nat /\ at.off + full <= q[at.chunk].size
      BY <2>2 DEF Filled, Within, Address
    <3> HIDE DEF q, at, full, new
    <3>2. q[at.chunk] \in Chunk
      BY <3>1, ElementOfSeq
    <3>3. q[at.chunk].size \in Nat
      BY <3>2 DEF Chunk
    <3>4. full \in Nat /\ full >= new
      BY <2>3 DEF full
    <3>5. at.off + new <= q[at.chunk].size
      BY <1>1, <3>1, <3>3, <3>4
    <3> QED BY <3>1, <3>5 DEF Within, q, at
  <2> QED BY <2>2, <2>4
<1> QED BY <1>6, <1>7, <1>8

-----------------------------------------------------------------------------
(* The step both allocations share: a block that is apart from the others  *)
(* joins them.                                                             *)
LEMMA JoinsHeld ==
  ASSUME NEW p, NEW H, Disjoint(p, H), NEW next, Filled(next), Keeps(p, next),
         NEW at \in Address, NEW size \in Nat \ {0}, Within(next, at, Aligned(size)),
         \A c \in H : /\ Apart(at, Aligned(size), c.at, Aligned(c.size))
                      /\ Apart(c.at, Aligned(c.size), at, Aligned(size))
  PROVE  Disjoint(next, H \cup {Block(at, size)})
<1> DEFINE new == Block(at, size)
           K == H \cup {new}
<1>1. new \in [at : Address, size : Nat \ {0}] /\ new.at = at /\ new.size = size
  BY DEF Block
<1>2. ASSUME NEW b \in H PROVE Within(next, b.at, Aligned(b.size))
  <2>1. b.at \in Address /\ b.size \in Nat /\ Within(p, b.at, Aligned(b.size))
    BY DEF Disjoint
  <2>2. Aligned(b.size) \in Nat
    BY <2>1, AlignedRoom
  <2> QED BY <2>1, <2>2, KeptWithin DEF Disjoint
<1>3. K \in SUBSET [at : Address, size : Nat \ {0}]
  BY <1>1 DEF Disjoint
<1> HIDE DEF new
<1>4. \A b \in K : Within(next, b.at, Aligned(b.size))
  BY <1>1, <1>2
<1>5. \A b, c \in K : b # c => Apart(b.at, Aligned(b.size), c.at, Aligned(c.size))
  BY <1>1, Zenon DEF Disjoint
<1> QED BY <1>3, <1>4, <1>5 DEF Disjoint, new

(* Whatever its callers ask for and in whatever order, no two blocks the   *)
(* pool has given them overlap, and each lies within its chunk: one that   *)
(* grows in place grows over nothing.  The heart of what the documents     *)
(* that share a pool rely on (JsonValues!BlocksDisjoint).                  *)
THEOREM HeldStayDisjoint == PoolSpec => []HeldDisjoint
<1>1. PoolInit => HeldDisjoint
  <2> SUFFICES ASSUME PoolInit PROVE HeldDisjoint
    OBVIOUS
  <2>1. Filled(pool)
    <3>1. CASE pool = <<>>
      BY <3>1 DEF Filled
    <3>2. ASSUME NEW n \in Nat, pool = AddChunk(<<>>, n) PROVE Filled(pool)
      <4> DEFINE chunk == [cap |-> n, size |-> 0]
      <4>1. chunk \in Chunk /\ chunk.size <= chunk.cap
        BY DEF Chunk
      <4>2. pool = <<chunk>>
        BY <3>2 DEF AddChunk
      <4> HIDE DEF chunk
      <4> QED BY <4>1, <4>2 DEF Filled
    <3> QED BY <3>1, <3>2 DEF PoolInit
  <2> QED BY <2>1 DEF PoolInit, HeldDisjoint, Disjoint
<1>2. HeldDisjoint /\ [PoolNext]_poolVars => HeldDisjoint'
  <2> SUFFICES ASSUME HeldDisjoint, [PoolNext]_poolVars PROVE HeldDisjoint'
    OBVIOUS
  <2>1. ASSUME NEW size \in Nat, Allocate(size) PROVE HeldDisjoint'
    <3> DEFINE r == Malloc(pool, size)
    <3>1. CASE size = 0
      <4>1. pool' = pool /\ held' = held
        BY <2>1, <3>1 DEF Allocate, Malloc
      <4> QED BY <4>1 DEF HeldDisjoint, Disjoint
    <3>2. CASE size # 0
      <4>1. /\ Filled(r.pool) /\ Keeps(pool, r.pool)
            /\ r.at \in Address /\ Within(r.pool, r.at, Aligned(size))
            /\ r.at.chunk \in DOMAIN pool => r.at.off = pool[r.at.chunk].size
        BY <3>2, MallocBlock DEF HeldDisjoint, Disjoint
      <4>2. pool' = r.pool /\ held' = held \cup {Block(r.at, size)}
        BY <2>1, <3>2 DEF Allocate
      <4> HIDE DEF r
      <4>3. ASSUME NEW c \in held
            PROVE  /\ Apart(r.at, Aligned(size), c.at, Aligned(c.size))
                   /\ Apart(c.at, Aligned(c.size), r.at, Aligned(size))
        <5>1. c.at \in Address /\ c.size \in Nat
          BY DEF HeldDisjoint, Disjoint
        <5>2. Aligned(c.size) \in Nat /\ Aligned(size) \in Nat
          BY <5>1, AlignedRoom
        <5> QED BY <4>1, <5>1, <5>2, BeyondIsApart DEF HeldDisjoint, Disjoint
      <4>4. size \in Nat \ {0}
        BY <3>2
      <4>5. Disjoint(r.pool, held \cup {Block(r.at, size)})
        BY <4>1, <4>3, <4>4, JoinsHeld DEF HeldDisjoint
      <4> QED BY <4>2, <4>5, Zenon DEF HeldDisjoint
    <3> QED BY <3>1, <3>2
  <2>2. ASSUME NEW b \in held, NEW size \in Nat, Resize(b, size) PROVE HeldDisjoint'
    <3> DEFINE r == Realloc(pool, b.at, b.size, size)
               H == held \ {b}
    <3>1. b.at \in Address /\ b.size \in Nat \ {0} /\ Within(pool, b.at, Aligned(b.size))
      BY DEF HeldDisjoint, Disjoint
    <3>2. CASE size = 0
      <4>1. b.at # Nowhere
        BY <3>1 DEF HeldDisjoint, Disjoint, Filled, Within, Nowhere
      <4>2. r = [pool |-> pool, at |-> Nowhere]
        BY <3>2, <4>1 DEF Realloc
      <4>3. pool' = pool /\ held' = H
        BY <2>2, <3>2, <4>2 DEF Resize
      <4> QED BY <4>3 DEF HeldDisjoint, Disjoint
    <3>3. CASE size # 0
      <4> DEFINE old == Aligned(b.size)
                 new == Aligned(size)
      <4>1. /\ Filled(r.pool) /\ Keeps(pool, r.pool)
            /\ r.at \in Address /\ Within(r.pool, r.at, new)
            /\ \/ r.at = b.at /\ new <= old
               \/ r.at = b.at /\ b.at.off + old = pool[b.at.chunk].size
               \/ r.at.chunk \in DOMAIN pool => r.at.off = pool[r.at.chunk].size
        BY <3>1, <3>3, ReallocBlock DEF HeldDisjoint, Disjoint
      <4>2. pool' = r.pool /\ held' = H \cup {Block(r.at, size)}
        BY <2>2, <3>3 DEF Resize
      <4>3. old \in Nat /\ new \in Nat
        BY <3>1, AlignedRoom
      <4> HIDE DEF r, old, new
      <4>4. ASSUME NEW c \in H
            PROVE  /\ Apart(r.at, new, c.at, Aligned(c.size))
                   /\ Apart(c.at, Aligned(c.size), r.at, new)
        <5> DEFINE others == Aligned(c.size)
        <5>1. c.at \in Address /\ c.size \in Nat \ {0} /\ c \in held
          BY DEF HeldDisjoint, Disjoint
        <5>2. others \in Nat /\ others >= c.size
          BY <5>1, AlignedRoom
        <5>3. Within(pool, c.at, others) /\ Apart(b.at, old, c.at, others)
          BY <5>1 DEF HeldDisjoint, Disjoint, old
        <5>4. CASE r.at = b.at /\ new <= old
          <6>1. c.at.off \in Nat /\ b.at.off \in Nat
            BY <3>1, <5>1 DEF Address
          <6>2. b.at.off + old <= c.at.off => b.at.off + new <= c.at.off
            BY <4>3, <5>4, <6>1
          <6> QED BY <5>3, <5>4, <6>2 DEF Apart
        <5>5. CASE r.at = b.at /\ b.at.off + old = pool[b.at.chunk].size
          <6>1. c.at.off \in Nat /\ b.at.off \in Nat
            BY <3>1, <5>1 DEF Address
          <6>2. c.at.chunk = b.at.chunk => c.at.off + others <= b.at.off + old
            BY <5>3, <5>5 DEF Within
          <6>3. c.at.chunk = b.at.chunk => ~(b.at.off + old <= c.at.off)
            BY <4>3, <5>1, <5>2, <6>1, <6>2
          <6> QED BY <5>3, <5>5, <6>3 DEF Apart
        <5>6. CASE r.at.chunk \in DOMAIN pool => r.at.off = pool[r.at.chunk].size
          BY <4>1, <4>3, <5>1, <5>2, <5>3, <5>6, BeyondIsApart DEF HeldDisjoint, Disjoint
        <5> QED BY <4>1, <5>4, <5>5, <5>6
      <4>5. Disjoint(pool, H) /\ size \in Nat \ {0}
        BY <3>3 DEF HeldDisjoint, Disjoint
      <4> HIDE DEF H
      <4>6. Disjoint(r.pool, H \cup {Block(r.at, size)})
        BY <4>1, <4>4, <4>5, JoinsHeld DEF new
      <4> QED BY <4>2, <4>6, Zenon DEF HeldDisjoint
    <3> QED BY <3>2, <3>3
  <2>3. ASSUME NEW b \in held, GiveUp(b) PROVE HeldDisjoint'
    BY <2>3 DEF GiveUp, HeldDisjoint, Disjoint
  <2>4. CASE UNCHANGED poolVars
    BY <2>4 DEF poolVars, HeldDisjoint
  <2> QED BY <2>1, <2>2, <2>3, <2>4 DEF PoolNext
<1> QED BY <1>1, <1>2, PTL DEF PoolSpec

-----------------------------------------------------------------------------
(* UTF-8. *)

\* A char of the texts, taken as unsigned.
Byte == 0..255

(* What may follow each kind of lead byte.                                 *)
LEMMA FollowIs ==
  /\ DOMAIN Follow = {2, 3, 4, 5, 6, 10, 11}
  /\ Follow[2] = <<Trail>> /\ Follow[3] = <<Trail, Trail>> /\ Follow[4] = <<{16, 64}, Trail>>
  /\ Follow[5] = <<{16}, Trail, Trail>> /\ Follow[6] = <<Trail, Trail, Trail>>
  /\ Follow[10] = <<{32}, Trail>> /\ Follow[11] = <<{32, 64}, Trail, Trail>>
BY DEF Follow

(* The type of a byte, by its range.                                       *)
LEMMA TypeOf ==
  ASSUME NEW c \in Byte
  PROVE  /\ (c \in 0..127) => GetRange(c) = 0
         /\ (c \in 128..143) => GetRange(c) = 16
         /\ (c \in 144..159) => GetRange(c) = 64
         /\ (c \in 160..191) => GetRange(c) = 32
         /\ (c \in 194..223) => GetRange(c) = 2
         /\ (c = 224) => GetRange(c) = 10
         /\ (c = 237) => GetRange(c) = 4
         /\ (c \in 225..239 /\ c # 237) => GetRange(c) = 3
         /\ (c = 240) => GetRange(c) = 11
         /\ (c \in 241..243) => GetRange(c) = 6
         /\ (c = 244) => GetRange(c) = 5
         /\ (c \in 192..193) => GetRange(c) = 8
         /\ (c \in 245..255) => GetRange(c) = 8
<1>1. (c \in 0..127) => GetRange(c) = 0
  BY DEF GetRange, Byte
<1>2. (c \in 128..143) => GetRange(c) = 16
  BY DEF GetRange, Byte
<1>3. (c \in 144..159) => GetRange(c) = 64
  BY DEF GetRange, Byte
<1>4. (c \in 160..191) => GetRange(c) = 32
  BY DEF GetRange, Byte
<1>5. (c \in 194..223) => GetRange(c) = 2
  BY DEF GetRange, Byte
<1>6. (c = 224) => GetRange(c) = 10
  BY DEF GetRange, Byte
<1>7. (c = 237) => GetRange(c) = 4
  BY DEF GetRange, Byte
<1>8. (c \in 225..239 /\ c # 237) => GetRange(c) = 3
  BY DEF GetRange, Byte
<1>9. (c = 240) => GetRange(c) = 11
  BY DEF GetRange, Byte
<1>10. (c \in 241..243) => GetRange(c) = 6
  BY DEF GetRange, Byte
<1>11. (c = 244) => GetRange(c) = 5
  BY DEF GetRange, Byte
<1>12. (c \in 192..193) => GetRange(c) = 8
  BY DEF GetRange, Byte
<1>13. (c \in 245..255) => GetRange(c) = 8
  BY DEF GetRange, Byte
<1> QED BY <1>1, <1>2, <1>3, <1>4, <1>5, <1>6, <1>7, <1>8, <1>9, <1>10, <1>11, <1>12, <1>13

(* The type of a byte a sequence may begin with, and of the others.        *)
LEMMA LeadOf ==
  ASSUME NEW c \in Byte
  PROVE  /\ c \in 0..127 => GetRange(c) = 0
         /\ c \in 128..193 => GetRange(c) \notin {0, 2, 3, 4, 5, 6, 10, 11}
         /\ c \in 194..223 => GetRange(c) = 2
         /\ c = 224 => GetRange(c) = 10
         /\ c = 237 => GetRange(c) = 4
         /\ (c \in 225..239 /\ c # 237) => GetRange(c) = 3
         /\ c = 240 => GetRange(c) = 11
         /\ c \in 241..243 => GetRange(c) = 6
         /\ c = 244 => GetRange(c) = 5
         /\ c \in 245..255 => GetRange(c) \notin {0, 2, 3, 4, 5, 6, 10, 11}
<1>1. c \in 128..193 => c \in 128..143 \/ c \in 144..159 \/ c \in 160..191 \/ c \in 192..193
  BY DEF Byte
<1> QED BY <1>1, TypeOf

\* The byte sequences of the Unicode standard (its table 3-7), by their
\* length: the second byte has a narrower range after some leading bytes.
WellFormed(a, b, c, d, n) ==
    \/ n = 1 /\ a \in 0..127
    \/ n = 2 /\ a \in 194..223 /\ b \in 128..191
    \/ /\ n = 3 /\ a \in 224..239 /\ b \in 128..191 /\ c \in 128..191
       /\ (a = 224 => b >= 160) /\ (a = 237 => b <= 159)
    \/ /\ n = 4 /\ a \in 240..244 /\ b \in 128..191 /\ c \in 128..191 /\ d \in 128..191
       /\ (a = 240 => b >= 144) /\ (a = 244 => b <= 143)

WellFormedAt(t, p, n) ==
    WellFormed(ByteAt(t, p), ByteAt(t, p + 1), ByteAt(t, p + 2), ByteAt(t, p + 3), n)

(* What is read past the end of a text is a NUL.                           *)
LEMMA ByteAtType ==
  ASSUME NEW t \in Seq(Byte), NEW p \in Int
  PROVE  ByteAt(t, p) \in Byte /\ (ByteAt(t, p) # 0 => p \in 1..Len(t) /\ ByteAt(t, p) = t[p])
<1>1. CASE p \in 1..Len(t)
  <2>1. t[p] \in Byte
    BY <1>1
  <2> QED BY <1>1, <2>1 DEF ByteAt
<1>2. CASE p \notin 1..Len(t)
  BY <1>2 DEF ByteAt, Byte
<1> QED BY <1>1, <1>2

(* The trailing bytes of the validator's table, range by range.            *)
LEMMA TrailOf ==
  ASSUME NEW c \in Byte
  PROVE  /\ GetRange(c) \in Trail <=> c \in 128..191
         /\ GetRange(c) \in {16, 64} <=> c \in 128..159
         /\ GetRange(c) \in {16} <=> c \in 128..143
         /\ GetRange(c) \in {32} <=> c \in 160..191
         /\ GetRange(c) \in {32, 64} <=> c \in 144..191
<1>1. c \in 0..127 \/ c \in 128..143 \/ c \in 144..159 \/ c \in 160..191 \/ c \in 192..255
  BY DEF Byte
<1>2. c \in 192..255 => GetRange(c) \notin {16, 32, 64}
  <2>1. c \in 192..255 => \/ c \in 192..193 \/ c \in 194..223 \/ c = 224 \/ c = 237
                           \/ (c \in 225..239 /\ c # 237) \/ c = 240 \/ c \in 241..243 \/ c = 244
                           \/ c \in 245..255
    OBVIOUS
  <2> QED BY <2>1, TypeOf
<1> QED BY <1>1, <1>2, TypeOf DEF Trail

(* The validator unrolled: what follows a leading byte of each type.       *)
LEMMA ValidatedByType ==
  ASSUME NEW t \in Seq(Byte), NEW p \in Nat
  PROVE  LET r(i) == GetRange(ByteAt(t, p + i))
             type == GetRange(ByteAt(t, p))
         IN  /\ type = 0 => Validated(t, p) = 1
             /\ type = 2 => Validated(t, p) = IF r(1) \in Trail THEN 2 ELSE 0
             /\ type = 3 => Validated(t, p) = IF r(1) \in Trail /\ r(2) \in Trail THEN 3 ELSE 0
             /\ type = 4 => Validated(t, p) = IF r(1) \in {16, 64} /\ r(2) \in Trail THEN 3 ELSE 0
             /\ type = 10 => Validated(t, p) = IF r(1) \in {32} /\ r(2) \in Trail THEN 3 ELSE 0
             /\ type = 5 => Validated(t, p) =
                   IF r(1) \in {16} /\ r(2) \in Trail /\ r(3) \in Trail THEN 4 ELSE 0
             /\ type = 6 => Validated(t, p) =
                   IF r(1) \in Trail /\ r(2) \in Trail /\ r(3) \in Trail THEN 4 ELSE 0
             /\ type = 11 => Validated(t, p) =
                   IF r(1) \in {32, 64} /\ r(2) \in Trail /\ r(3) \in Trail THEN 4 ELSE 0
             /\ type \notin {0, 2, 3, 4, 5, 6, 10, 11} => Validated(t, p) = 0
<1> DEFINE r(i) == GetRange(ByteAt(t, p + i))
           type == GetRange(ByteAt(t, p))
<1>1. type = 0 => Validated(t, p) = 1
  BY DEF Validated
<1>2. type \notin {0, 2, 3, 4, 5, 6, 10, 11} => Validated(t, p) = 0
  BY FollowIs DEF Validated
<1>3. ASSUME type \in {2, 3, 4, 5, 6, 10, 11}
      PROVE  Validated(t, p) = IF \A i \in DOMAIN Follow[type] : r(i) \in Follow[type][i]
                               THEN 1 + Len(Follow[type]) ELSE 0
  BY <1>3, FollowIs DEF Validated
<1> HIDE DEF r, type
<1>4. ASSUME NEW S, type = 2, Follow[type] = <<S>>
      PROVE  Validated(t, p) = IF r(1) \in S THEN 2 ELSE 0
  <2>1. DOMAIN <<S>> = {1} /\ <<S>>[1] = S /\ Len(<<S>>) = 1
    OBVIOUS
  <2>2. (\A i \in DOMAIN <<S>> : r(i) \in <<S>>[i]) <=> r(1) \in S
    BY <2>1
  <2> QED BY <1>3, <1>4, <2>1, <2>2
<1>5. ASSUME NEW S, NEW T, type \in {3, 4, 10}, Follow[type] = <<S, T>>
      PROVE  Validated(t, p) = IF r(1) \in S /\ r(2) \in T THEN 3 ELSE 0
  <2>1. DOMAIN <<S, T>> = {1, 2} /\ <<S, T>>[1] = S /\ <<S, T>>[2] = T /\ Len(<<S, T>>) = 2
    OBVIOUS
  <2>2. (\A i \in DOMAIN <<S, T>> : r(i) \in <<S, T>>[i]) <=> r(1) \in S /\ r(2) \in T
    BY <2>1
  <2> QED BY <1>3, <1>5, <2>1, <2>2
<1>6. ASSUME NEW S, NEW T, NEW U, type \in {5, 6, 11}, Follow[type] = <<S, T, U>>
      PROVE  Validated(t, p) = IF r(1) \in S /\ r(2) \in T /\ r(3) \in U THEN 4 ELSE 0
  <2>1. /\ DOMAIN <<S, T, U>> = {1, 2, 3} /\ Len(<<S, T, U>>) = 3
        /\ <<S, T, U>>[1] = S /\ <<S, T, U>>[2] = T /\ <<S, T, U>>[3] = U
    OBVIOUS
  <2>2. (\A i \in DOMAIN <<S, T, U>> : r(i) \in <<S, T, U>>[i])
          <=> r(1) \in S /\ r(2) \in T /\ r(3) \in U
    BY <2>1
  <2> QED BY <1>3, <1>6, <2>1, <2>2
<1>7. type = 2 => Validated(t, p) = IF r(1) \in Trail THEN 2 ELSE 0
  BY <1>4, FollowIs
<1>8. /\ type = 3 => Validated(t, p) = IF r(1) \in Trail /\ r(2) \in Trail THEN 3 ELSE 0
      /\ type = 4 => Validated(t, p) = IF r(1) \in {16, 64} /\ r(2) \in Trail THEN 3 ELSE 0
      /\ type = 10 => Validated(t, p) = IF r(1) \in {32} /\ r(2) \in Trail THEN 3 ELSE 0
  BY <1>5, FollowIs
<1>9. /\ type = 5 => Validated(t, p) =
            IF r(1) \in {16} /\ r(2) \in Trail /\ r(3) \in Trail THEN 4 ELSE 0
      /\ type = 6 => Validated(t, p) =
            IF r(1) \in Trail /\ r(2) \in Trail /\ r(3) \in Trail THEN 4 ELSE 0
      /\ type = 11 => Validated(t, p) =
            IF r(1) \in {32, 64} /\ r(2) \in Trail /\ r(3) \in Trail THEN 4 ELSE 0
  BY <1>6, FollowIs
<1> QED BY <1>1, <1>2, <1>7, <1>8, <1>9, Zenon DEF r, type

(* Validate() accepts the well-formed sequences and nothing else.          *)
THEOREM ValidatedIsWellFormed ==
  ASSUME NEW t \in Seq(Byte), NEW p \in Nat
  PROVE  /\ Validated(t, p) \in 0..4
         /\ \A n \in 1..4 : Validated(t, p) = n <=> WellFormedAt(t, p, n)
<1> DEFINE a == ByteAt(t, p)
           b == ByteAt(t, p + 1)
           c == ByteAt(t, p + 2)
           d == ByteAt(t, p + 3)
           v == Validated(t, p)
           type == GetRange(a)
<1>1. a \in Byte /\ b \in Byte /\ c \in Byte /\ d \in Byte
  <2>1. p \in Int /\ p + 1 \in Int /\ p + 2 \in Int /\ p + 3 \in Int
    OBVIOUS
  <2> QED BY <2>1, ByteAtType
<1>2. /\ GetRange(b) \in Trail <=> b \in 128..191
      /\ GetRange(b) \in {16, 64} <=> b \in 128..159
      /\ GetRange(b) \in {16} <=> b \in 128..143
      /\ GetRange(b) \in {32} <=> b \in 160..191
      /\ GetRange(b) \in {32, 64} <=> b \in 144..191
      /\ GetRange(c) \in Trail <=> c \in 128..191
      /\ GetRange(d) \in Trail <=> d \in 128..191
  BY <1>1, TrailOf
<1>3. /\ a \in 0..127 => type = 0
      /\ a \in 128..193 => type \notin {0, 2, 3, 4, 5, 6, 10, 11}
      /\ a \in 194..223 => type = 2
      /\ a = 224 => type = 10
      /\ a = 237 => type = 4
      /\ (a \in 225..239 /\ a # 237) => type = 3
      /\ a = 240 => type = 11
      /\ a \in 241..243 => type = 6
      /\ a = 244 => type = 5
      /\ a \in 245..255 => type \notin {0, 2, 3, 4, 5, 6, 10, 11}
  BY <1>1, LeadOf
<1>4. /\ type = 0 => v = 1
      /\ type = 2 => v = IF GetRange(b) \in Trail THEN 2 ELSE 0
      /\ type = 3 => v = IF GetRange(b) \in Trail /\ GetRange(c) \in Trail THEN 3 ELSE 0
      /\ type = 4 => v = IF GetRange(b) \in {16, 64} /\ GetRange(c) \in Trail THEN 3 ELSE 0
      /\ type = 10 => v = IF GetRange(b) \in {32} /\ GetRange(c) \in Trail THEN 3 ELSE 0
      /\ type = 5 => v = IF GetRange(b) \in {16} /\ GetRange(c) \in Trail /\ GetRange(d) \in Trail
                        THEN 4 ELSE 0
      /\ type = 6 => v = IF GetRange(b) \in Trail /\ GetRange(c) \in Trail /\ GetRange(d) \in Trail
                        THEN 4 ELSE 0
      /\ type = 11 => v = IF GetRange(b) \in {32, 64} /\ GetRange(c) \in Trail /\ GetRange(d) \in Trail
                         THEN 4 ELSE 0
      /\ type \notin {0, 2, 3, 4, 5, 6, 10, 11} => v = 0
  BY ValidatedByType
<1> HIDE DEF a, b, c, d, v, type
<1>5. v \in 0..4 /\ \A n \in 1..4 : v = n <=> WellFormed(a, b, c, d, n)
  <2>1. CASE a \in 0..127
    <3>1. v = 1
      BY <1>1, <1>2, <1>3, <1>4, <2>1 DEF Byte
    <3> QED BY <1>1, <2>1, <3>1 DEF WellFormed, Byte
  <2>2. CASE a \in 128..193 \/ a \in 245..255
    <3>1. v = 0
      BY <1>1, <1>2, <1>3, <1>4, <2>2 DEF Byte
    <3> QED BY <1>1, <2>2, <3>1 DEF WellFormed, Byte
  <2>3. CASE a \in 194..223
    <3>1. v = IF b \in 128..191 THEN 2 ELSE 0
      BY <1>1, <1>2, <1>3, <1>4, <2>3 DEF Byte
    <3> QED BY <1>1, <2>3, <3>1 DEF WellFormed, Byte
  <2>4. CASE a = 224
    <3>1. v = IF b \in 160..191 /\ c \in 128..191 THEN 3 ELSE 0
      BY <1>1, <1>2, <1>3, <1>4, <2>4 DEF Byte
    <3> QED BY <1>1, <2>4, <3>1 DEF WellFormed, Byte
  <2>5. CASE a = 237
    <3>1. v = IF b \in 128..159 /\ c \in 128..191 THEN 3 ELSE 0
      BY <1>1, <1>2, <1>3, <1>4, <2>5 DEF Byte
    <3> QED BY <1>1, <2>5, <3>1 DEF WellFormed, Byte
  <2>6. CASE a \in 225..239 /\ a # 237
    <3>1. v = IF b \in 128..191 /\ c \in 128..191 THEN 3 ELSE 0
      BY <1>1, <1>2, <1>3, <1>4, <2>6 DEF Byte
    <3> QED BY <1>1, <2>6, <3>1 DEF WellFormed, Byte
  <2>7. CASE a = 240
    <3>1. v = IF b \in 144..191 /\ c \in 128..191 /\ d \in 128..191 THEN 4 ELSE 0
      BY <1>1, <1>2, <1>3, <1>4, <2>7 DEF Byte
    <3> QED BY <1>1, <2>7, <3>1 DEF WellFormed, Byte
  <2>8. CASE a \in 241..243
    <3>1. v = IF b \in 128..191 /\ c \in 128..191 /\ d \in 128..191 THEN 4 ELSE 0
      BY <1>1, <1>2, <1>3, <1>4, <2>8 DEF Byte
    <3> QED BY <1>1, <2>8, <3>1 DEF WellFormed, Byte
  <2>9. CASE a = 244
    <3>1. v = IF b \in 128..143 /\ c \in 128..191 /\ d \in 128..191 THEN 4 ELSE 0
      BY <1>1, <1>2, <1>3, <1>4, <2>9 DEF Byte
    <3> QED BY <1>1, <2>9, <3>1 DEF WellFormed, Byte
  <2> QED BY <1>1, <2>1, <2>2, <2>3, <2>4, <2>5, <2>6, <2>7, <2>8, <2>9 DEF Byte
<1> QED BY <1>5 DEF a, b, c, d, v, WellFormedAt

(* A valid sequence lies within the text.                                  *)
LEMMA ValidatedInside ==
  ASSUME NEW t \in Seq(Byte), NEW p \in 1..Len(t), Validated(t, p) # 0
  PROVE  /\ Validated(t, p) \in 1..4 /\ p + Validated(t, p) - 1 <= Len(t)
         /\ \A i \in 0..Validated(t, p) - 1 : ByteAt(t, p + i) = t[p + i]
<1> DEFINE v == Validated(t, p)
<1>1. Len(t) \in Nat /\ p \in Nat
  OBVIOUS
<1>2. v \in 1..4 /\ WellFormedAt(t, p, v)
  BY <1>1, ValidatedIsWellFormed
<1>3. /\ v >= 2 => ByteAt(t, p + 1) # 0
      /\ v >= 3 => ByteAt(t, p + 2) # 0
      /\ v >= 4 => ByteAt(t, p + 3) # 0
  <2> DEFINE a == ByteAt(t, p)
             b == ByteAt(t, p + 1)
             c == ByteAt(t, p + 2)
             d == ByteAt(t, p + 3)
  <2>1. a \in Byte /\ b \in Byte /\ c \in Byte /\ d \in Byte
    <3>1. p \in Int /\ p + 1 \in Int /\ p + 2 \in Int /\ p + 3 \in Int
      OBVIOUS
    <3> QED BY <3>1, ByteAtType
  <2>2. WellFormed(a, b, c, d, v)
    BY <1>2 DEF WellFormedAt
  <2> HIDE DEF a, b, c, d, v
  <2>3. /\ v >= 2 => b # 0
        /\ v >= 3 => c # 0
        /\ v >= 4 => d # 0
    BY <1>2, <2>1, <2>2 DEF WellFormed, Byte
  <2> QED BY <2>3 DEF b, c, d
<1>4. /\ v >= 2 => p + 1 \in 1..Len(t)
      /\ v >= 3 => p + 2 \in 1..Len(t)
      /\ v >= 4 => p + 3 \in 1..Len(t)
  <2>1. p + 1 \in Int /\ p + 2 \in Int /\ p + 3 \in Int
    OBVIOUS
  <2> QED BY <1>3, <2>1, ByteAtType
<1>5. p + v - 1 <= Len(t)
  <2>1. v = 1 \/ v = 2 \/ v = 3 \/ v = 4
    BY <1>2
  <2> HIDE DEF v
  <2> QED BY <1>1, <1>4, <2>1
<1>6. ASSUME NEW i \in 0..v - 1 PROVE ByteAt(t, p + i) = t[p + i]
  BY <1>1, <1>2, <1>5 DEF ByteAt
<1> QED BY <1>2, <1>5, <1>6

(* What Decode() makes of a valid sequence, by its bytes.                  *)
LEMMA DecodeIs ==
  ASSUME NEW t \in Seq(Byte), NEW p \in Nat
  PROVE  LET a == ByteAt(t, p)
             b == ByteAt(t, p + 1) - 128
             c == ByteAt(t, p + 2) - 128
             d == ByteAt(t, p + 3) - 128
         IN  /\ Validated(t, p) = 1 => Decode(t, p) = a
             /\ Validated(t, p) = 2 => Decode(t, p) = (a - 192) * 64 + b
             /\ Validated(t, p) = 3 => Decode(t, p) = (a - 224) * 4096 + b * 64 + c
             /\ Validated(t, p) = 4 => Decode(t, p) = (a - 240) * 262144 + b * 4096 + c * 64 + d
<1> DEFINE a == ByteAt(t, p)
           b == ByteAt(t, p + 1)
           c == ByteAt(t, p + 2)
           d == ByteAt(t, p + 3)
           n == Validated(t, p)
           lead == Lead(GetRange(a), a)
<1>1. a \in Byte /\ b \in Byte /\ c \in Byte /\ d \in Byte
  <2>1. p \in Int /\ p + 1 \in Int /\ p + 2 \in Int /\ p + 3 \in Int
    OBVIOUS
  <2> QED BY <2>1, ByteAtType
<1>2. /\ n = 1 => Decode(t, p) = a
      /\ n = 2 => Decode(t, p) = lead * 64 + (b % 64)
      /\ n = 3 => Decode(t, p) = (lead * 64 + (b % 64)) * 64 + (c % 64)
      /\ n = 4 => Decode(t, p) = ((lead * 64 + (b % 64)) * 64 + (c % 64)) * 64 + (d % 64)
  BY DEF Decode
<1>3. \A i \in 1..4 : n = i <=> WellFormed(a, b, c, d, i)
  BY ValidatedIsWellFormed DEF WellFormedAt
<1>4. /\ a \in 194..223 => GetRange(a) = 2
      /\ a = 224 => GetRange(a) = 10
      /\ a = 237 => GetRange(a) = 4
      /\ (a \in 225..239 /\ a # 237) => GetRange(a) = 3
      /\ a = 240 => GetRange(a) = 11
      /\ a \in 241..243 => GetRange(a) = 6
      /\ a = 244 => GetRange(a) = 5
  BY <1>1, TypeOf
<1>5. /\ GetRange(a) = 2 => lead = a % 64
      /\ GetRange(a) = 3 => lead = a % 32
      /\ GetRange(a) = 4 => lead = a % 16
      /\ GetRange(a) = 5 => lead = a % 8
      /\ GetRange(a) = 6 => lead = a % 4
      /\ GetRange(a) = 10 => lead = 0
      /\ GetRange(a) = 11 => lead = 0
  BY DEF Lead
<1> HIDE DEF a, b, c, d, n, lead
<1>t. /\ b \in 128..191 => b % 64 = b - 128
      /\ c \in 128..191 => c % 64 = c - 128
      /\ d \in 128..191 => d % 64 = d - 128
  BY <1>1 DEF Byte
<1>6. n = 2 => lead = a - 192 /\ b % 64 = b - 128
  <2>1. n = 2 => a \in 194..223 /\ b \in 128..191
    BY <1>3 DEF WellFormed
  <2>2. a \in 194..223 => a % 64 = a - 192
    BY <1>1 DEF Byte
  <2> QED BY <1>1, <1>t, <1>4, <1>5, <2>1, <2>2 DEF Byte
<1>7. n = 3 => lead = a - 224 /\ b % 64 = b - 128 /\ c % 64 = c - 128
  <2>1. n = 3 => a \in 224..239 /\ b \in 128..191 /\ c \in 128..191
    BY <1>3 DEF WellFormed
  <2>2. (a \in 225..239 => a % 32 = a - 224) /\ (a = 237 => a % 16 = a - 224)
    BY <1>1 DEF Byte
  <2>3. a \in 224..239 => lead = a - 224
    <3>1. a \in 224..239 => a = 224 \/ a = 237 \/ (a \in 225..239 /\ a # 237)
      BY <1>1 DEF Byte
    <3>2. CASE a = 224
      BY <1>4, <1>5, <3>2
    <3>3. CASE a = 237
      BY <1>1, <1>4, <1>5, <2>2, <3>3 DEF Byte
    <3>4. CASE a \in 225..239 /\ a # 237
      BY <1>1, <1>4, <1>5, <2>2, <3>4 DEF Byte
    <3> QED BY <3>1, <3>2, <3>3, <3>4
  <2> QED BY <1>1, <1>t, <2>1, <2>3 DEF Byte
<1>8. n = 4 => lead = a - 240 /\ b % 64 = b - 128 /\ c % 64 = c - 128 /\ d % 64 = d - 128
  <2>1. n = 4 => a \in 240..244 /\ b \in 128..191 /\ c \in 128..191 /\ d \in 128..191
    BY <1>3 DEF WellFormed
  <2>2. (a \in 241..243 => a % 4 = a - 240) /\ (a = 244 => a % 8 = a - 240)
    BY <1>1 DEF Byte
  <2>3. a \in 240..244 => lead = a - 240
    <3>1. a \in 240..244 => a = 240 \/ a \in 241..243 \/ a = 244
      BY <1>1 DEF Byte
    <3>2. CASE a = 240
      BY <1>4, <1>5, <3>2
    <3>3. CASE a \in 241..243
      BY <1>1, <1>4, <1>5, <2>2, <3>3 DEF Byte
    <3>4. CASE a = 244
      BY <1>1, <1>4, <1>5, <2>2, <3>4 DEF Byte
    <3> QED BY <3>1, <3>2, <3>3, <3>4
  <2> QED BY <1>1, <1>t, <2>1, <2>3 DEF Byte
<1>9. n = 2 => Decode(t, p) = (a - 192) * 64 + (b - 128)
  BY <1>2, <1>6
<1>10. n = 3 => Decode(t, p) = (a - 224) * 4096 + (b - 128) * 64 + (c - 128)
  <2>1. ((a - 224) * 64 + (b - 128)) * 64 + (c - 128)
          = (a - 224) * 4096 + (b - 128) * 64 + (c - 128)
    BY <1>1 DEF Byte
  <2> QED BY <1>2, <1>7, <2>1
<1>11. n = 4 => Decode(t, p) = (a - 240) * 262144 + (b - 128) * 4096 + (c - 128) * 64 + (d - 128)
  <2> DEFINE x == a - 240
             y == b - 128
             z == c - 128
             w == d - 128
             three == (x * 64 + y) * 64 + z
  <2>1. x \in Int /\ y \in Int /\ z \in Int /\ w \in Int
    BY <1>1 DEF Byte
  <2>2. n = 4 => Decode(t, p) = three * 64 + w
    BY <1>2, <1>8
  <2> HIDE DEF x, y, z, w
  <2>3. three = x * 4096 + y * 64 + z
    BY <2>1
  <2> HIDE DEF three
  <2>4. three * 64 + w = x * 262144 + y * 4096 + z * 64 + w
    BY <2>1, <2>3
  <2> QED BY <2>2, <2>4 DEF x, y, z, w
<1> QED BY <1>2, <1>9, <1>10, <1>11 DEF a, b, c, d, n

(* Quotient and remainder of a sum of digits.                              *)
LEMMA DivMod64 ==
  ASSUME NEW k \in Nat, NEW q \in Nat, NEW r \in Nat, r < 64, k = q * 64 + r
  PROVE  k \div 64 = q /\ k % 64 = r
OBVIOUS

(* The quotients and remainders of three groups of six bits.               *)
LEMMA DivMod4096 ==
  ASSUME NEW k \in Nat, NEW q \in Nat, NEW r \in Nat, r < 4096, k = q * 4096 + r
  PROVE  k \div 4096 = q
OBVIOUS

(* The same of four groups.                                                *)
LEMMA DivMod262144 ==
  ASSUME NEW k \in Nat, NEW q \in Nat, NEW r \in Nat, r < 262144, k = q * 262144 + r
  PROVE  k \div 262144 = q
OBVIOUS

(* Encode() by the length of what it writes.                               *)
LEMMA EncodeIs ==
  ASSUME NEW k \in Nat
  PROVE  /\ k <= 127 => Encode(k) = <<k>>
         /\ k > 127 /\ k <= 2047 => Encode(k) = <<192 + k \div 64, 128 + (k % 64)>>
         /\ k > 2047 /\ k <= 65535 =>
              Encode(k) = <<224 + k \div 4096, 128 + ((k \div 64) % 64), 128 + (k % 64)>>
         /\ k > 65535 =>
              Encode(k) = <<240 + k \div 262144, 128 + ((k \div 4096) % 64),
                            128 + ((k \div 64) % 64), 128 + (k % 64)>>
<1>1. k \div 1 = k
  OBVIOUS
<1>2. k <= 127 => Encode(k) = <<k>>
  BY DEF Encode
<1>3. k > 127 /\ k <= 2047 => Encode(k) = <<192 + k \div 64, 128 + ((k \div 1) % 64)>>
  BY DEF Encode
<1>4. k > 2047 /\ k <= 65535 =>
        Encode(k) = <<224 + k \div 4096, 128 + ((k \div 64) % 64), 128 + ((k \div 1) % 64)>>
  BY DEF Encode
<1>5. k > 65535 =>
        Encode(k) = <<240 + k \div 262144, 128 + ((k \div 4096) % 64),
                      128 + ((k \div 64) % 64), 128 + ((k \div 1) % 64)>>
  BY DEF Encode
<1> QED BY <1>1, <1>2, <1>3, <1>4, <1>5

(* Encode() puts the digits of the code point into the bytes.              *)
\* k is the number of the digits x, y, z and w, the last of base 64 and the
\* first the rest.
Two(k, x, y) == /\ k \in Nat /\ x \in Nat /\ y \in Nat /\ y < 64 /\ k = x * 64 + y
                /\ x >= 2 /\ x < 32
Three(k, x, y, z) ==
    /\ k \in Nat /\ x \in Nat /\ y \in Nat /\ y < 64 /\ z \in Nat /\ z < 64
    /\ k = x * 4096 + y * 64 + z
    /\ x < 16 /\ (x = 0 => y >= 32)
Four(k, x, y, z, w) ==
    /\ k \in Nat /\ x \in Nat /\ y \in Nat /\ y < 64 /\ z \in Nat /\ z < 64 /\ w \in Nat /\ w < 64
    /\ k = x * 262144 + y * 4096 + z * 64 + w
    /\ x < 5 /\ (x = 0 => y >= 16)

(* A code point of 11 bits is encoded in two bytes,                        *)
LEMMA EncodeTwo ==
  ASSUME NEW k \in Nat, NEW x \in Nat, NEW y \in Nat, Two(k, x, y)
  PROVE  Encode(k) = <<192 + x, 128 + y>>
<1>0. y < 64 /\ k = x * 64 + y /\ x >= 2 /\ x < 32
  BY DEF Two
<1>1. k > 127 /\ k <= 2047 /\ k \div 64 = x /\ k % 64 = y
  BY <1>0, DivMod64
<1>2. Encode(k) = <<192 + k \div 64, 128 + (k % 64)>>
  BY <1>1, EncodeIs
<1> QED BY <1>1, <1>2

(* one of 16 bits in three,                                                *)
LEMMA EncodeThree ==
  ASSUME NEW k \in Nat, NEW x \in Nat, NEW y \in Nat, NEW z \in Nat, Three(k, x, y, z)
  PROVE  Encode(k) = <<224 + x, 128 + y, 128 + z>>
<1>0. y < 64 /\ z < 64 /\ k = x * 4096 + y * 64 + z /\ x < 16 /\ (x = 0 => y >= 32)
  BY DEF Three
<1>1. k > 2047 /\ k <= 65535
  BY <1>0
<1>2. PICK m \in Nat : m = x * 64 + y
  OBVIOUS
<1>3. PICK l \in Nat : l = y * 64 + z
  OBVIOUS
<1>4. k = m * 64 + z /\ k = x * 4096 + l /\ l < 4096
  BY <1>0, <1>2, <1>3
<1>5. k \div 64 = m /\ k % 64 = z /\ k \div 4096 = x /\ m % 64 = y
  BY <1>0, <1>2, <1>4, DivMod64, DivMod4096
<1>6. Encode(k) = <<224 + k \div 4096, 128 + ((k \div 64) % 64), 128 + (k % 64)>>
  BY <1>1, EncodeIs
<1> QED BY <1>5, <1>6

(* and one of 21 bits in four.                                             *)
LEMMA EncodeFour ==
  ASSUME NEW k \in Nat, NEW x \in Nat, NEW y \in Nat, NEW z \in Nat, NEW w \in Nat,
         Four(k, x, y, z, w)
  PROVE  Encode(k) = <<240 + x, 128 + y, 128 + z, 128 + w>>
<1>0. /\ y < 64 /\ z < 64 /\ w < 64 /\ k = x * 262144 + y * 4096 + z * 64 + w
      /\ x < 5 /\ (x = 0 => y >= 16)
  BY DEF Four
<1>1. k > 65535
  BY <1>0
<1>2. PICK l \in Nat : l = x * 64 + y
  OBVIOUS
<1>3. PICK m \in Nat : m = l * 64 + z
  OBVIOUS
<1>4. PICK end \in Nat : end = z * 64 + w
  OBVIOUS
<1>5. PICK low \in Nat : low = y * 4096 + end
  BY <1>4
<1>6. k = x * 262144 + low /\ low < 262144 /\ end < 4096
  BY <1>0, <1>4, <1>5
<1>7. l * 4096 = x * 262144 + y * 4096
  BY <1>2
<1>8. k = l * 4096 + end
  BY <1>0, <1>5, <1>6, <1>7
<1>9. m * 64 = l * 4096 + z * 64
  BY <1>0, <1>3
<1>10. k = m * 64 + w
  BY <1>0, <1>4, <1>8, <1>9
<1>11. l % 64 = y
  BY <1>0, <1>2, DivMod64
<1>12. m % 64 = z
  BY <1>0, <1>3, DivMod64
<1>13. k \div 64 = m /\ k % 64 = w
  BY <1>0, <1>10, DivMod64
<1>14. k \div 4096 = l
  BY <1>6, <1>8, DivMod4096
<1>15. k \div 262144 = x
  BY <1>6, DivMod262144
<1>16. Encode(k) = <<240 + k \div 262144, 128 + ((k \div 4096) % 64), 128 + ((k \div 64) % 64),
                     128 + (k % 64)>>
  BY <1>1, EncodeIs
<1> QED BY <1>11, <1>12, <1>13, <1>14, <1>15, <1>16

ScalarValues == {c \in Nat : c <= 1114111 /\ ~(55296 <= c /\ c <= 57343)}

(* The bytes of a valid sequence.                                          *)
LEMMA SequenceIs ==
  ASSUME NEW t \in Seq(Byte), NEW p \in 1..Len(t), Validated(t, p) # 0
  PROVE  LET n == Validated(t, p)
         IN  /\ n = 1 => SubSeq(t, p, p + n - 1) = <<ByteAt(t, p)>>
             /\ n = 2 => SubSeq(t, p, p + n - 1) = <<ByteAt(t, p), ByteAt(t, p + 1)>>
             /\ n = 3 => SubSeq(t, p, p + n - 1) =
                            <<ByteAt(t, p), ByteAt(t, p + 1), ByteAt(t, p + 2)>>
             /\ n = 4 => SubSeq(t, p, p + n - 1) =
                            <<ByteAt(t, p), ByteAt(t, p + 1), ByteAt(t, p + 2), ByteAt(t, p + 3)>>
<1> DEFINE n == Validated(t, p)
           s == SubSeq(t, p, p + n - 1)
<1>1. n \in 1..4 /\ p + n - 1 \in 1..Len(t) /\ p \in Nat /\ Len(t) \in Nat
  BY ValidatedInside
<1>2. \A i \in 0..n - 1 : ByteAt(t, p + i) = t[p + i]
  BY ValidatedInside
<1> HIDE DEF n
<1>3. s \in Seq(Byte) /\ Len(s) = n /\ \A i \in 1..n : s[i] = t[p + i - 1]
  BY <1>1, SubSeqProperties
<1>4. /\ s[1] = ByteAt(t, p)
      /\ n >= 2 => s[2] = ByteAt(t, p + 1)
      /\ n >= 3 => s[3] = ByteAt(t, p + 2)
      /\ n >= 4 => s[4] = ByteAt(t, p + 3)
  BY <1>1, <1>2, <1>3
<1> HIDE DEF s
<1>5. /\ n = 1 => s = <<s[1]>>
      /\ n = 2 => s = <<s[1], s[2]>>
      /\ n = 3 => s = <<s[1], s[2], s[3]>>
      /\ n = 4 => s = <<s[1], s[2], s[3], s[4]>>
  BY <1>3
<1>6. /\ n = 1 => s = <<ByteAt(t, p)>>
      /\ n = 2 => s = <<ByteAt(t, p), ByteAt(t, p + 1)>>
      /\ n = 3 => s = <<ByteAt(t, p), ByteAt(t, p + 1), ByteAt(t, p + 2)>>
      /\ n = 4 => s = <<ByteAt(t, p), ByteAt(t, p + 1), ByteAt(t, p + 2), ByteAt(t, p + 3)>>
  BY <1>1, <1>4, <1>5
<1> QED BY <1>6 DEF n, s

(* Encode() undoes Decode(): the bytes of a valid sequence come back, and  *)
(* what Decode() gives of one is a code point and no surrogate.            *)
THEOREM DecodedComesBack ==
  ASSUME NEW t \in Seq(Byte), NEW p \in 1..Len(t), Validated(t, p) # 0
  PROVE  /\ Decode(t, p) \in ScalarValues
         /\ Encode(Decode(t, p)) = SubSeq(t, p, p + Validated(t, p) - 1)
<1> DEFINE a == ByteAt(t, p)
           b == ByteAt(t, p + 1)
           c == ByteAt(t, p + 2)
           d == ByteAt(t, p + 3)
           n == Validated(t, p)
           x == Decode(t, p)
           s == SubSeq(t, p, p + n - 1)
<1>1. a \in Byte /\ b \in Byte /\ c \in Byte /\ d \in Byte
  <2>1. p \in Int /\ p + 1 \in Int /\ p + 2 \in Int /\ p + 3 \in Int
    OBVIOUS
  <2> QED BY <2>1, ByteAtType
<1>2. p \in Nat
  OBVIOUS
<1>3. n \in 1..4 /\ WellFormed(a, b, c, d, n)
  BY <1>2, ValidatedInside, ValidatedIsWellFormed DEF WellFormedAt
<1>4. /\ n = 1 => x = a
      /\ n = 2 => x = (a - 192) * 64 + (b - 128)
      /\ n = 3 => x = (a - 224) * 4096 + (b - 128) * 64 + (c - 128)
      /\ n = 4 => x = (a - 240) * 262144 + (b - 128) * 4096 + (c - 128) * 64 + (d - 128)
  BY <1>2, DecodeIs
<1>5. /\ n = 1 => s = <<a>>
      /\ n = 2 => s = <<a, b>>
      /\ n = 3 => s = <<a, b, c>>
      /\ n = 4 => s = <<a, b, c, d>>
  BY SequenceIs
<1> HIDE DEF a, b, c, d, n, x, s
<1>6. CASE n = 1
  <2>1. a \in Nat /\ a <= 127
    BY <1>1, <1>3, <1>6 DEF WellFormed, Byte
  <2>2. x = a
    BY <1>4, <1>6
  <2>3. x \in ScalarValues
    BY <2>1, <2>2 DEF ScalarValues
  <2>4. Encode(a) = <<a>>
    BY <2>1, EncodeIs
  <2> QED BY <1>5, <1>6, <2>2, <2>3, <2>4 DEF x, s, n
<1>7. CASE n = 2
  <2> DEFINE q == a - 192
             y == b - 128
  <2>1. a \in 194..223 /\ b \in 128..191
    BY <1>3, <1>7 DEF WellFormed
  <2>2. q \in Nat /\ q >= 2 /\ q < 32 /\ y \in Nat /\ y < 64 /\ a = 192 + q /\ b = 128 + y
    BY <1>1, <2>1 DEF Byte
  <2>3. x = q * 64 + y
    BY <1>4, <1>7
  <2> HIDE DEF q, y
  <2>n. x \in Nat
    BY <2>2, <2>3
  <2>4. x \in ScalarValues
    BY <2>2, <2>3 DEF ScalarValues
  <2>5. Encode(x) = <<a, b>>
    <3>1. Two(x, q, y)
      BY <2>2, <2>3, <2>n DEF Two
    <3>2. Encode(x) = <<192 + q, 128 + y>>
      BY <2>2, <2>n, <3>1, EncodeTwo
    <3> QED BY <2>2, <3>2
  <2> QED BY <1>5, <1>7, <2>4, <2>5 DEF x, s, n
<1>8. CASE n = 3
  <2> DEFINE q == a - 224
             y == b - 128
             z == c - 128
  <2>1. /\ a \in 224..239 /\ b \in 128..191 /\ c \in 128..191
        /\ a = 224 => b >= 160
        /\ a = 237 => b <= 159
    BY <1>3, <1>8 DEF WellFormed
  <2>2. /\ q \in Nat /\ q < 16 /\ y \in Nat /\ y < 64 /\ z \in Nat /\ z < 64
        /\ (q = 0 => y >= 32) /\ (q = 13 => y <= 31)
        /\ a = 224 + q /\ b = 128 + y /\ c = 128 + z
    BY <1>1, <2>1 DEF Byte
  <2>3. x = q * 4096 + y * 64 + z
    BY <1>4, <1>8
  <2> HIDE DEF q, y, z
  <2>n. x \in Nat
    BY <2>2, <2>3
  <2>4. x \in ScalarValues
    BY <2>2, <2>3 DEF ScalarValues
  <2>5. Encode(x) = <<a, b, c>>
    <3>1. Three(x, q, y, z)
      BY <2>2, <2>3, <2>n DEF Three
    <3>2. Encode(x) = <<224 + q, 128 + y, 128 + z>>
      BY <2>2, <2>n, <3>1, EncodeThree
    <3> QED BY <2>2, <3>2
  <2> QED BY <1>5, <1>8, <2>4, <2>5 DEF x, s, n
<1>9. CASE n = 4
  <2> DEFINE q == a - 240
             y == b - 128
             z == c - 128
             w == d - 128
  <2>1. /\ a \in 240..244 /\ b \in 128..191 /\ c \in 128..191 /\ d \in 128..191
        /\ a = 240 => b >= 144
        /\ a = 244 => b <= 143
    BY <1>3, <1>9 DEF WellFormed
  <2>2. /\ q \in Nat /\ q < 5 /\ y \in Nat /\ y < 64 /\ z \in Nat /\ z < 64
        /\ w \in Nat /\ w < 64
        /\ (q = 0 => y >= 16) /\ (q = 4 => y <= 15)
        /\ a = 240 + q /\ b = 128 + y /\ c = 128 + z /\ d = 128 + w
    BY <1>1, <2>1 DEF Byte
  <2>3. x = q * 262144 + y * 4096 + z * 64 + w
    BY <1>4, <1>9
  <2> HIDE DEF q, y, z, w
  <2>n. x \in Nat
    BY <2>2, <2>3
  <2>4. x \in ScalarValues
    BY <2>2, <2>3 DEF ScalarValues
  <2>5. Encode(x) = <<a, b, c, d>>
    <3>1. Four(x, q, y, z, w)
      BY <2>2, <2>3, <2>n DEF Four
    <3>2. Encode(x) = <<240 + q, 128 + y, 128 + z, 128 + w>>
      BY <2>2, <2>n, <3>1, EncodeFour
    <3> QED BY <2>2, <3>2
  <2> QED BY <1>5, <1>9, <2>4, <2>5 DEF x, s, n
<1> QED BY <1>3, <1>6, <1>7, <1>8, <1>9

-----------------------------------------------------------------------------
(* Escapes of code units and code points. *)

HexOf(d) == IF d < 10 THEN 48 + d ELSE 55 + d

\* The code units of 16 bits, and the four digits of one.
Unit == {n \in Nat : n < 65536}
D1(n) == n \div 4096
D2(n) == (n \div 256) % 16
D3(n) == (n \div 16) % 16
D4(n) == n % 16

(* The digits HexDigits() prints of a code unit, and what they denote.     *)
LEMMA HexDigitsIs ==
  ASSUME NEW n \in Unit
  PROVE  /\ HexDigits(n) = <<HexOf(D1(n)), HexOf(D2(n)), HexOf(D3(n)), HexOf(D4(n))>>
         /\ D1(n) \in 0..15 /\ D2(n) \in 0..15 /\ D3(n) \in 0..15 /\ D4(n) \in 0..15
         /\ n = D1(n) * 4096 + D2(n) * 256 + D3(n) * 16 + D4(n)
<1> DEFINE x == n \div 16
           y == n \div 256
           a == n \div 4096
           b == y % 16
           c == x % 16
           d == n % 16
<1>0. n \in Nat /\ n < 65536
  BY SMT DEF Unit
<1>1. n = 16 * x + d /\ d \in 0..15 /\ x \in Nat
  BY <1>0, SMT
<1>2. y = x \div 16 /\ a = y \div 16 /\ y \in Nat
  BY <1>0, SMT
<1>3. HexDigits(n) = <<HexOf(a % 16), HexOf(b), HexOf(c), HexOf(d)>>
  BY SMT DEF HexDigits, HexOf
<1>4. a \in 0..15 /\ a % 16 = a
  BY <1>0, SMT
<1> HIDE DEF d
<1>5. x = 16 * y + c /\ c \in 0..15
  <2> HIDE DEF x, y, a, b
  <2> QED BY <1>1, <1>2, SMT
<1> HIDE DEF x, c
<1>6. y = 16 * a + b /\ b \in 0..15
  <2> HIDE DEF a, y
  <2>1. \A k \in Nat : k = 16 * (k \div 16) + (k % 16) /\ k % 16 \in 0..15
    BY SMT
  <2> QED BY <1>2, <2>1, SMT
<1> HIDE DEF a, b, y
<1>7. n = a * 4096 + b * 256 + c * 16 + d
  BY <1>1, <1>4, <1>5, <1>6, SMT
<1>8. HexDigits(n) = <<HexOf(a), HexOf(b), HexOf(c), HexOf(d)>>
  BY <1>3, <1>4, SMT
<1>9. D1(n) = a /\ D2(n) = b /\ D3(n) = c /\ D4(n) = d
  BY SMT DEF D1, D2, D3, D4, a, b, c, d, x, y
<1> QED BY <1>1, <1>4, <1>5, <1>6, <1>7, <1>8, <1>9, SMT

(* A hexadecimal digit is read as what it was printed of.                  *)
LEMMA HexOfIs ==
  ASSUME NEW d \in 0..15
  PROVE  HexOf(d) \in Byte /\ HexDigit(HexOf(d)) = d
<1>1. CASE d < 10
  <2>1. HexOf(d) = 48 + d /\ 48 + d \in 48..57
    BY <1>1 DEF HexOf
  <2>2. HexDigit(48 + d) = d
    BY <2>1 DEF HexDigit
  <2> QED BY <2>1, <2>2 DEF Byte
<1>2. CASE ~(d < 10)
  <2>1. HexOf(d) = 55 + d /\ 55 + d \in 65..70
    BY <1>2 DEF HexOf
  <2>2. HexDigit(55 + d) = d
    BY <2>1 DEF HexDigit
  <2> QED BY <2>1, <2>2 DEF Byte
<1> QED BY <1>1, <1>2

(* The digits of a code unit are four bytes.                               *)
LEMMA HexDigitsType ==
  ASSUME NEW n \in Unit
  PROVE  HexDigits(n) \in Seq(Byte) /\ Len(HexDigits(n)) = 4
<1> DEFINE h1 == HexOf(D1(n))
           h2 == HexOf(D2(n))
           h3 == HexOf(D3(n))
           h4 == HexOf(D4(n))
<1>1. HexDigits(n) = <<h1, h2, h3, h4>>
  BY HexDigitsIs
<1>2. h1 \in Byte /\ h2 \in Byte /\ h3 \in Byte /\ h4 \in Byte
  BY HexDigitsIs, HexOfIs
<1> HIDE DEF h1, h2, h3, h4
<1>3. <<h1, h2, h3, h4>> \in Seq(Byte) /\ Len(<<h1, h2, h3, h4>>) = 4
  BY <1>2
<1> QED BY <1>1, <1>3

(* Two texts of bytes, one after the other.                                *)
LEMMA Joined ==
  ASSUME NEW s \in Seq(Byte), NEW t \in Seq(Byte)
  PROVE  /\ s \o t \in Seq(Byte) /\ Len(s \o t) = Len(s) + Len(t)
         /\ Len(s) \in Nat /\ Len(t) \in Nat
<1>1. s \o t \in Seq(Byte) /\ Len(s \o t) = Len(s) + Len(t)
  BY ConcatProperties
<1> QED BY <1>1

\* The escape of a code unit.
UnitEscape(n) == <<Backslash, LowerU>> \o HexDigits(n)

(* The six bytes of the escape of a code unit.                             *)
LEMMA UnitEscapeIs ==
  ASSUME NEW n \in Unit
  PROVE  /\ UnitEscape(n) \in Seq(Byte) /\ Len(UnitEscape(n)) = 6
         /\ UnitEscape(n)[1] = Backslash /\ UnitEscape(n)[2] = LowerU
         /\ UnitEscape(n)[3] = HexOf(D1(n)) /\ UnitEscape(n)[4] = HexOf(D2(n))
         /\ UnitEscape(n)[5] = HexOf(D3(n)) /\ UnitEscape(n)[6] = HexOf(D4(n))
<1> DEFINE u == <<Backslash, LowerU>>
           h == HexDigits(n)
<1>1. h \in Seq(Byte) /\ Len(h) = 4
  BY HexDigitsType
<1>2. u \in Seq(Byte) /\ Len(u) = 2
  BY DEF Backslash, LowerU, Byte
<1>3. UnitEscape(n) = u \o h
  BY DEF UnitEscape
<1>4. h[1] = HexOf(D1(n)) /\ h[2] = HexOf(D2(n)) /\ h[3] = HexOf(D3(n)) /\ h[4] = HexOf(D4(n))
  <2>1. h = <<HexOf(D1(n)), HexOf(D2(n)), HexOf(D3(n)), HexOf(D4(n))>>
    BY HexDigitsIs
  <2> HIDE DEF h
  <2> QED BY <2>1
<1>5. u[1] = Backslash /\ u[2] = LowerU
  OBVIOUS
<1> HIDE DEF u, h
<1>6. u \o h \in Seq(Byte) /\ Len(u \o h) = 6
  <2>1. u \o h \in Seq(Byte) /\ Len(u \o h) = Len(u) + Len(h)
    BY <1>1, <1>2, Joined
  <2> QED BY <1>1, <1>2, <2>1
<1>7. \A i \in 1..6 : (u \o h)[i] = IF i <= 2 THEN u[i] ELSE h[i - 2]
  <2>1. \A i \in 1..Len(u) + Len(h) : (u \o h)[i] = IF i <= Len(u) THEN u[i] ELSE h[i - Len(u)]
    BY <1>1, <1>2, ConcatProperties
  <2>2. Len(u) + Len(h) = 6 /\ Len(u) = 2
    BY <1>1, <1>2
  <2> QED BY <2>1, <2>2
<1>8. /\ (u \o h)[1] = u[1] /\ (u \o h)[2] = u[2] /\ (u \o h)[3] = h[1]
      /\ (u \o h)[4] = h[2] /\ (u \o h)[5] = h[3] /\ (u \o h)[6] = h[4]
  <2> DEFINE e == u \o h
  <2> HIDE DEF e
  <2>1. \A i \in 1..6 : e[i] = IF i <= 2 THEN u[i] ELSE h[i - 2]
    BY <1>7 DEF e
  <2>2. e[1] = u[1] /\ e[2] = u[2]
    BY <2>1
  <2>3. e[3] = h[3 - 2] /\ e[4] = h[4 - 2]
    BY <2>1
  <2>4. e[5] = h[5 - 2] /\ e[6] = h[6 - 2]
    BY <2>1
  <2> QED BY <2>2, <2>3, <2>4 DEF e
<1> QED BY <1>3, <1>4, <1>5, <1>6, <1>8

Beyond == {c \in ScalarValues : c > 65535}

\* The units of the surrogate pair of a code point.
High(c) == (c - 65536) \div 1024 + 55296
Low(c)  == ((c - 65536) % 1024) + 56320

(* The surrogates of a code point beyond 16 bits, and what they stand for. *)
LEMMA PairIs ==
  ASSUME NEW c \in Beyond
  PROVE  /\ High(c) \in Unit /\ High(c) >= 55296 /\ High(c) <= 56319
         /\ Low(c) \in Unit /\ Low(c) >= 56320 /\ Low(c) <= 57343
         /\ c = (High(c) - 55296) * 1024 + (Low(c) - 56320) + 65536
         /\ EscapeCodepoint(c) = UnitEscape(High(c)) \o UnitEscape(Low(c))
<1>1. c \in Nat /\ c <= 1114111 /\ c > 65535
  BY SMT DEF Beyond, ScalarValues
<1> DEFINE s == c - 65536
           q == s \div 1024
           m == s % 1024
<1>2. s \in Nat /\ s < 1048576
  BY <1>1, SMT
<1> HIDE DEF s
<1>3. q \in Nat /\ q < 1024 /\ m \in Nat /\ m < 1024 /\ s = q * 1024 + m
  BY <1>2, SMT
<1>4. High(c) = q + 55296 /\ Low(c) = m + 56320
  BY SMT DEF High, Low, s
<1>5. EscapeCodepoint(c) = ((<<Backslash, LowerU>> \o HexDigits(q + 55296)) \o <<Backslash, LowerU>>)
                              \o HexDigits(m + 56320)
  BY <1>1, SMT DEF EscapeCodepoint, s
<1> HIDE DEF q, m
<1>6. c = (q + 55296 - 55296) * 1024 + (m + 56320 - 56320) + 65536
  BY <1>1, <1>3, SMT DEF s
<1>7. q + 55296 \in Unit /\ m + 56320 \in Unit
  BY <1>3, SMT DEF Unit
<1>8. ((<<Backslash, LowerU>> \o HexDigits(q + 55296)) \o <<Backslash, LowerU>>) \o HexDigits(m + 56320)
        = (<<Backslash, LowerU>> \o HexDigits(q + 55296))
             \o (<<Backslash, LowerU>> \o HexDigits(m + 56320))
  <2> DEFINE u == <<Backslash, LowerU>>
             h == HexDigits(q + 55296)
             l == HexDigits(m + 56320)
  <2>1. h \in Seq(Byte) /\ l \in Seq(Byte)
    BY <1>7, HexDigitsType
  <2>2. u \in Seq(Byte)
    BY DEF Backslash, LowerU, Byte
  <2> HIDE DEF u, h, l
  <2>3. (u \o h) \o (u \o l) = ((u \o h) \o u) \o l
    <3>1. u \o h \in Seq(Byte)
      BY <2>1, <2>2, ConcatProperties
    <3> QED BY <2>1, <2>2, <3>1, ConcatAssociative
  <2> QED BY <2>3 DEF u, h, l
<1>9. High(c) - 55296 = q /\ Low(c) - 56320 = m
  BY <1>3, <1>4, SMT
<1>10. EscapeCodepoint(c) = UnitEscape(High(c)) \o UnitEscape(Low(c))
  BY <1>4, <1>5, <1>8, SMT DEF UnitEscape
<1> QED BY <1>3, <1>4, <1>6, <1>7, <1>9, <1>10, SMT

(* TranscodeUnsafe() into ASCII writes six bytes or twelve.                *)
LEMMA EscapeCodepointType ==
  ASSUME NEW c \in ScalarValues
  PROVE  /\ EscapeCodepoint(c) \in Seq(Byte)
         /\ Len(EscapeCodepoint(c)) = IF c \in Beyond THEN 12 ELSE 6
         /\ c \notin Beyond => c \in Unit /\ EscapeCodepoint(c) = UnitEscape(c)
<1>1. CASE c \in Beyond
  <2>1. EscapeCodepoint(c) = UnitEscape(High(c)) \o UnitEscape(Low(c))
    BY <1>1, PairIs
  <2>2. High(c) \in Unit /\ Low(c) \in Unit
    BY <1>1, PairIs
  <2>3. /\ UnitEscape(High(c)) \in Seq(Byte) /\ Len(UnitEscape(High(c))) = 6
        /\ UnitEscape(Low(c)) \in Seq(Byte) /\ Len(UnitEscape(Low(c))) = 6
    BY <2>2, UnitEscapeIs
  <2> DEFINE a == UnitEscape(High(c))
             b == UnitEscape(Low(c))
  <2>4. a \in Seq(Byte) /\ Len(a) = 6 /\ b \in Seq(Byte) /\ Len(b) = 6
    BY <2>3
  <2> HIDE DEF a, b
  <2>5. a \o b \in Seq(Byte) /\ Len(a \o b) = Len(a) + Len(b)
    BY <2>4, Joined
  <2>6. a \o b \in Seq(Byte) /\ Len(a \o b) = 12
    BY <2>4, <2>5
  <2> QED BY <1>1, <2>1, <2>6 DEF a, b
<1>2. CASE c \notin Beyond
  <2>1. EscapeCodepoint(c) = UnitEscape(c) /\ c \in Unit
    BY <1>2, SMT DEF EscapeCodepoint, UnitEscape, Beyond, ScalarValues, Unit
  <2> QED BY <1>2, <2>1, UnitEscapeIs
<1> QED BY <1>1, <1>2

-----------------------------------------------------------------------------
(* The loop of WriteString(). *)

\* What a turn of the writer's loop makes of the k bytes of s at p: the byte
\* itself, an escape of two or of six bytes, the escape of a code point.
Piece(s, unicode, p, k, t) ==
    \/ k = 1 /\ t = <<s[p]>> /\ s[p] >= 32 /\ s[p] # Quote /\ s[p] # Backslash
    \/ k = 1 /\ t = <<Backslash, Escaped[s[p]]>> /\ s[p] \in DOMAIN Escaped
    \/ k = 1 /\ t = UnitEscape(s[p]) /\ s[p] < 32
    \/ k = Validated(s, p) /\ k # 0 /\ t = EscapeCodepoint(Decode(s, p)) /\ ~unicode

CharStates(s) == [at : 1 .. Len(s) + 1, out : Seq(Byte), ok : BOOLEAN]

(* The characters with an escape of two bytes.                             *)
LEMMA EscapedIs ==
  /\ DOMAIN Escaped = {8, 9, 10, 12, 13, Quote, Backslash}
  /\ \A b \in DOMAIN Escaped : Escaped[b] \in Byte
<1>1. DOMAIN Escaped = {8, 9, 10, 12, 13, Quote, Backslash}
  BY DEF Escaped
<1>2. ASSUME NEW b \in DOMAIN Escaped PROVE Escaped[b] \in Byte
  <2>1. b \in {8, 9, 10, 12, 13, 34, 92}
    BY <1>1 DEF Quote, Backslash
  <2>2. Escaped[b] = CASE b = 8 -> 98    [] b = 9 -> 116   [] b = 10 -> 110
                       [] b = 12 -> 102  [] b = 13 -> 114  [] OTHER -> b
    BY <1>1 DEF Escaped
  <2> QED BY <2>1, <2>2 DEF Byte
<1> QED BY <1>1, <1>2

(* A byte is a code unit.                                                  *)
LEMMA ByteIsUnit ==
  ASSUME NEW b \in Byte
  PROVE  b \in Unit
<1>1. b \in Nat /\ b <= 255
  BY DEF Byte
<1> QED BY <1>1, SMT DEF Unit

(* A piece takes up to four bytes of the source and puts up to twelve, one *)
(* and six where the target is UTF-8.                                      *)
LEMMA PieceIs ==
  ASSUME NEW s \in Seq(Byte), NEW unicode \in BOOLEAN, NEW p \in 1..Len(s), NEW k, NEW t,
         Piece(s, unicode, p, k, t)
  PROVE  /\ k \in 1..4 /\ p + k <= Len(s) + 1
         /\ t \in Seq(Byte) /\ Len(t) \in 1..12
         /\ unicode => k = 1 /\ Len(t) <= 6
<1>1. s[p] \in Byte /\ Len(s) \in Nat
  OBVIOUS
<1>2. CASE k = 1 /\ t = <<s[p]>>
  <2>1. t \in Seq(Byte) /\ Len(t) = 1
    BY <1>1, <1>2
  <2> QED BY <1>1, <1>2, <2>1
<1>3. CASE k = 1 /\ t = <<Backslash, Escaped[s[p]]>> /\ s[p] \in DOMAIN Escaped
  <2>1. Escaped[s[p]] \in Byte
    BY <1>3, EscapedIs
  <2>3. Backslash \in Byte
    BY DEF Backslash, Byte
  <2>2. t \in Seq(Byte) /\ Len(t) = 2
    BY <1>3, <2>1, <2>3
  <2> QED BY <1>1, <1>3, <2>2
<1>4. CASE k = 1 /\ t = UnitEscape(s[p]) /\ s[p] < 32
  <2>1. s[p] \in Unit
    BY <1>1, ByteIsUnit
  <2>2. t \in Seq(Byte) /\ Len(t) = 6
    BY <1>4, <2>1, UnitEscapeIs
  <2> QED BY <1>1, <1>4, <2>2
<1>5. CASE k = Validated(s, p) /\ k # 0 /\ t = EscapeCodepoint(Decode(s, p)) /\ ~unicode
  <2>1. k \in 1..4 /\ p + k - 1 <= Len(s)
    BY <1>5, ValidatedInside
  <2>2. Decode(s, p) \in ScalarValues
    BY <1>5, DecodedComesBack
  <2>3. t \in Seq(Byte) /\ (Len(t) = 12 \/ Len(t) = 6)
    BY <1>5, <2>2, EscapeCodepointType
  <2> QED BY <1>1, <1>5, <2>1, <2>3
<1> QED BY <1>2, <1>3, <1>4, <1>5 DEF Piece

\* A turn that gives up, and one that takes a chunk.
Refuses(s, unicode, c, d) ==
    /\ ~unicode /\ s[c.at] >= 128 /\ Validated(s, c.at) = 0
    /\ d = [c EXCEPT !.ok = FALSE]
Takes(s, unicode, c, d) ==
    \E k \in 1..4, t \in Seq(Byte) :
        Piece(s, unicode, c.at, k, t) /\ d = [c EXCEPT !.at = @ + k, !.out = @ \o t]

(* A turn of the loop refuses what is no UTF-8 or takes a piece.           *)
LEMMA CharTurnIs ==
  ASSUME NEW s \in Seq(Byte), NEW unicode \in BOOLEAN, NEW c \in CharStates(s)
  PROVE  LET d == CharTurn(s, unicode, c)
         IN  IF c.at <= Len(s) /\ c.ok THEN Refuses(s, unicode, c, d) \/ Takes(s, unicode, c, d)
             ELSE d = c
<1> DEFINE p == c.at
           b == s[p]
           n == Validated(s, p)
           put(k, t) == [c EXCEPT !.at = @ + k, !.out = @ \o t]
<1>1. Len(s) \in Nat /\ p \in 1..Len(s) + 1 /\ c.ok \in BOOLEAN
  BY DEF CharStates
<1>2. ~(p <= Len(s) /\ c.ok) => CharTurn(s, unicode, c) = c
  BY <1>1 DEF CharTurn
<1>3. ASSUME p <= Len(s), c.ok
      PROVE  \/ /\ ~unicode /\ b >= 128 /\ n = 0
                /\ CharTurn(s, unicode, c) = [c EXCEPT !.ok = FALSE]
             \/ \E k \in 1..4, t \in Seq(Byte) :
                  Piece(s, unicode, p, k, t) /\ CharTurn(s, unicode, c) = put(k, t)
  <2>1. p \in 1..Len(s) /\ b \in Byte /\ ByteAt(s, p) = b
    BY <1>1, <1>3 DEF ByteAt
  <2>2. CharTurn(s, unicode, c) =
          IF ~unicode /\ b >= 128
          THEN IF n = 0 THEN [c EXCEPT !.ok = FALSE] ELSE put(n, EscapeCodepoint(Decode(s, p)))
          ELSE IF b \in DOMAIN Escaped THEN put(1, <<Backslash, Escaped[b]>>)
          ELSE IF b < 32 THEN put(1, UnitEscape(b))
          ELSE put(1, <<b>>)
    BY <1>1, <1>3, <2>1 DEF CharTurn, UnitEscape
  <2> HIDE DEF put, b, n
  <2>3. ASSUME NEW k, NEW t, Piece(s, unicode, p, k, t), CharTurn(s, unicode, c) = put(k, t)
        PROVE  \E k1 \in 1..4, t1 \in Seq(Byte) :
                 Piece(s, unicode, p, k1, t1) /\ CharTurn(s, unicode, c) = put(k1, t1)
    <3>1. k \in 1..4 /\ t \in Seq(Byte)
      BY <2>1, <2>3, PieceIs
    <3> HIDE DEF p
    <3> QED BY <2>3, <3>1
  <2>4. CASE ~unicode /\ b >= 128 /\ n = 0
    BY <2>2, <2>4
  <2>5. CASE ~unicode /\ b >= 128 /\ n # 0
    <3>1. Piece(s, unicode, p, n, EscapeCodepoint(Decode(s, p)))
      BY <2>5 DEF Piece, n
    <3>2. CharTurn(s, unicode, c) = put(n, EscapeCodepoint(Decode(s, p)))
      BY <2>2, <2>5
    <3> QED BY <2>3, <3>1, <3>2
  <2>6. CASE ~(~unicode /\ b >= 128) /\ b \in DOMAIN Escaped
    <3>1. Piece(s, unicode, p, 1, <<Backslash, Escaped[b]>>)
      BY <2>6 DEF Piece, b
    <3>2. CharTurn(s, unicode, c) = put(1, <<Backslash, Escaped[b]>>)
      BY <2>2, <2>6
    <3> QED BY <2>3, <3>1, <3>2
  <2>7. CASE ~(~unicode /\ b >= 128) /\ b \notin DOMAIN Escaped /\ b < 32
    <3>1. Piece(s, unicode, p, 1, UnitEscape(b))
      BY <2>7 DEF Piece, b
    <3>2. CharTurn(s, unicode, c) = put(1, UnitEscape(b))
      BY <2>2, <2>7
    <3> QED BY <2>3, <3>1, <3>2
  <2>8. CASE ~(~unicode /\ b >= 128) /\ b \notin DOMAIN Escaped /\ ~(b < 32)
    <3>1. b # Quote /\ b # Backslash
      BY <2>8, EscapedIs
    <3>2. b >= 32
      BY <2>1, <2>8 DEF Byte
    <3>3. Piece(s, unicode, p, 1, <<b>>)
      BY <3>1, <3>2 DEF Piece, b
    <3>4. CharTurn(s, unicode, c) = put(1, <<b>>)
      BY <2>2, <2>8
    <3> QED BY <2>3, <3>3, <3>4
  <2> QED BY <2>4, <2>5, <2>6, <2>7, <2>8
<1>4. p <= Len(s) /\ c.ok =>
        \/ Refuses(s, unicode, c, CharTurn(s, unicode, c))
        \/ Takes(s, unicode, c, CharTurn(s, unicode, c))
  BY <1>3 DEF Refuses, Takes
<1> QED BY <1>2, <1>4

(* A turn of the loop of WriteString, as a relation of the states around   *)
(* it: no more than Most(unicode) bytes are written for one of the source. *)
Most(unicode) == IF unicode THEN 6 ELSE 12

(* A turn keeps the type, only appends, puts no more than its share for    *)
(* what it takes, and takes something.                                     *)
LEMMA CharTurnType ==
  ASSUME NEW s \in Seq(Byte), NEW unicode \in BOOLEAN, NEW c \in CharStates(s)
  PROVE  LET d == CharTurn(s, unicode, c)
         IN  /\ d \in CharStates(s)
             /\ Len(c.out) <= Len(d.out) /\ \A i \in 1..Len(c.out) : d.out[i] = c.out[i]
             /\ Len(d.out) - Len(c.out) <= Most(unicode) * (d.at - c.at)
             /\ c.at <= Len(s) /\ d.ok => d.at > c.at
             /\ ~c.ok => ~d.ok
             /\ unicode /\ c.ok => d.ok
             /\ c.at = Len(s) + 1 => d = c
<1> DEFINE d == CharTurn(s, unicode, c)
<1>1. /\ c = [at |-> c.at, out |-> c.out, ok |-> c.ok]
      /\ c.at \in 1..Len(s) + 1 /\ c.out \in Seq(Byte) /\ c.ok \in BOOLEAN
      /\ Len(s) \in Nat /\ Len(c.out) \in Nat
  BY DEF CharStates
<1>2. Most(unicode) \in Nat
  BY DEF Most
<1>6. IF c.at <= Len(s) /\ c.ok THEN Refuses(s, unicode, c, d) \/ Takes(s, unicode, c, d)
      ELSE d = c
  BY CharTurnIs
<1>7. c.at <= Len(s) /\ c.ok =>
        \/ ~unicode /\ d = [c EXCEPT !.ok = FALSE]
        \/ \E k \in 1..4, t \in Seq(Byte) :
             Piece(s, unicode, c.at, k, t) /\ d = [c EXCEPT !.at = @ + k, !.out = @ \o t]
  <2> HIDE DEF d
  <2> QED BY <1>6, Zenon DEF Refuses, Takes
<1>3. CASE d = c
  <2> HIDE DEF d
  <2>1. c.at <= Len(s) => ~d.ok
    <3>1. \/ ~(c.at <= Len(s) /\ c.ok)
          \/ d = [c EXCEPT !.ok = FALSE]
          \/ \E k \in 1..4, t \in Seq(Byte) : d = [c EXCEPT !.at = @ + k, !.out = @ \o t]
      BY <1>7, Zenon
    <3>2. ASSUME NEW k \in 1..4, NEW t \in Seq(Byte), d = [c EXCEPT !.at = @ + k, !.out = @ \o t]
          PROVE  FALSE
      <4>2. d = [at |-> c.at + k, out |-> c.out \o t, ok |-> c.ok]
        BY <1>1, <3>2
      <4>1. d.at = c.at + k
        BY <4>2
      <4> QED BY <1>1, <1>3, <4>1
    <3>3. d = [c EXCEPT !.ok = FALSE] => ~d.ok
      BY <1>1
    <3> QED BY <1>3, <3>1, <3>2, <3>3
  <2> QED BY <1>1, <1>2, <1>3, <2>1 DEF d
<1>4. CASE c.at <= Len(s) /\ c.ok /\ ~unicode /\ d = [c EXCEPT !.ok = FALSE]
  <2> HIDE DEF d
  <2>1. d = [at |-> c.at, out |-> c.out, ok |-> FALSE]
    BY <1>1, <1>4
  <2>2. d.at = c.at /\ d.out = c.out /\ d.ok = FALSE /\ d \in CharStates(s)
    BY <1>1, <2>1 DEF CharStates
  <2> QED BY <1>1, <1>2, <1>4, <2>2 DEF d
<1>5. ASSUME c.at <= Len(s), c.ok, NEW k \in 1..4, NEW t \in Seq(Byte),
             Piece(s, unicode, c.at, k, t), d = [c EXCEPT !.at = @ + k, !.out = @ \o t]
      PROVE  /\ d \in CharStates(s)
             /\ Len(c.out) <= Len(d.out) /\ \A i \in 1..Len(c.out) : d.out[i] = c.out[i]
             /\ Len(d.out) - Len(c.out) <= Most(unicode) * (d.at - c.at)
             /\ d.ok /\ d.at > c.at
  <2> HIDE DEF d
  <2>1. c.at \in 1..Len(s)
    BY <1>1, <1>5
  <2>2. c.at + k <= Len(s) + 1 /\ Len(t) \in 1..12
    BY <1>5, <2>1, PieceIs
  <2>l. Len(t) \in Nat /\ 1 <= Len(t) /\ Len(t) <= 12
    <3> DEFINE l == Len(t)
    <3>1. l \in 1..12
      BY <2>2
    <3> HIDE DEF l
    <3>2. l \in Nat /\ 1 <= l /\ l <= 12
      BY <3>1
    <3> QED BY <3>2 DEF l
  <2>u. unicode => k = 1 /\ Len(t) <= 6
    BY <1>5, <2>1, PieceIs
  <2>3. d = [at |-> c.at + k, out |-> c.out \o t, ok |-> c.ok]
    BY <1>1, <1>5
  <2>4. d.at = c.at + k /\ d.out = c.out \o t /\ d.ok = TRUE
    BY <1>1, <1>5, <2>3
  <2>5. c.out \o t \in Seq(Byte) /\ Len(c.out \o t) = Len(c.out) + Len(t)
    BY <1>1, Joined
  <2>6. \A i \in 1..Len(c.out) : (c.out \o t)[i] = c.out[i]
    BY <1>1, ConcatProperties
  <2>7. Len(t) <= Most(unicode) * k
    <3>1. CASE unicode
      <4>1. Most(unicode) = 6
        BY <3>1 DEF Most
      <4>2. k = 1 /\ Len(t) <= 6
        BY <2>u, <3>1
      <4> QED BY <4>1, <4>2
    <3>2. CASE ~unicode
      <4>1. Most(unicode) = 12
        BY <3>2 DEF Most
      <4> QED BY <2>l, <4>1
    <3> QED BY <3>1, <3>2
  <2>9. d.at - c.at = k /\ Len(d.out) - Len(c.out) = Len(t) /\ Len(c.out) <= Len(d.out) /\ d.at > c.at
    BY <1>1, <2>1, <2>2, <2>4, <2>5
  <2>8. d \in CharStates(s)
    BY <1>1, <2>1, <2>2, <2>3, <2>5 DEF CharStates
  <2> QED BY <2>4, <2>6, <2>7, <2>8, <2>9
<1> HIDE DEF d
<1>8. CASE \E k \in 1..4, t \in Seq(Byte) :
             c.at <= Len(s) /\ c.ok
             /\ Piece(s, unicode, c.at, k, t) /\ d = [c EXCEPT !.at = @ + k, !.out = @ \o t]
  <2>1. c.at <= Len(s) /\ c.ok
    BY <1>8
  <2>2. /\ d \in CharStates(s)
        /\ Len(c.out) <= Len(d.out) /\ \A i \in 1..Len(c.out) : d.out[i] = c.out[i]
        /\ Len(d.out) - Len(c.out) <= Most(unicode) * (d.at - c.at)
        /\ d.ok /\ d.at > c.at
    BY <1>5, <1>8
  <2> QED BY <1>1, <2>1, <2>2 DEF d
<1> QED BY <1>3, <1>4, <1>6, <1>7, <1>8 DEF d

\* The turns of the loop over s.
CharTurns(turn, s, unicode) ==
    /\ turn \in [0..Len(s) -> CharStates(s)]
    /\ turn[0] = [at |-> 1, out |-> <<>>, ok |-> TRUE]
    /\ \A k \in 1..Len(s) : turn[k] = CharTurn(s, unicode, turn[k - 1])

(* The loop of WriteString, unrolled.                                      *)
LEMMA WriteCharsTurns ==
  ASSUME NEW s \in Seq(Byte), NEW unicode \in BOOLEAN
  PROVE  \E turn : CharTurns(turn, s, unicode) /\ WriteChars(s, unicode) = turn[Len(s)]
<1> DEFINE n == Len(s)
           A == CharStates(s)
           start == [at |-> 1, out |-> <<>>, ok |-> TRUE]
           F == [x \in A \X Nat |-> CharTurn(s, unicode, x[1])]
           Turns(f) == [k \in 0..n |-> IF k = 0 THEN start ELSE CharTurn(s, unicode, f[k - 1])]
           turn == CHOOSE f : f = Turns(f)
<1>1. n \in Nat
  OBVIOUS
<1>2. start \in A
  BY DEF CharStates
<1>3. F \in [A \X Nat -> A]
  <2>1. \A c \in A : CharTurn(s, unicode, c) \in A
    BY CharTurnType
  <2> HIDE DEF A
  <2> QED BY <2>1
<1>4. PICK f \in [0..n -> A] : Recurs(f, start, F, n)
  <2> HIDE DEF F, A, n, start
  <2> QED BY <1>1, <1>2, <1>3, RecursionExists
<1>5. ASSUME NEW k \in 1..n PROVE f[k] = CharTurn(s, unicode, f[k - 1])
  <2>1. k - 1 \in 0..n /\ k \in Nat
    BY <1>1
  <2>2. f[k] = F[<<f[k - 1], k>>] /\ f[k - 1] \in A
    BY <1>4, <2>1 DEF Recurs
  <2> HIDE DEF A
  <2>3. F[<<f[k - 1], k>>] = CharTurn(s, unicode, f[k - 1])
    BY <2>1, <2>2
  <2> QED BY <2>2, <2>3
<1>6. f = Turns(f)
  <2>1. ASSUME NEW k \in 0..n
        PROVE  f[k] = IF k = 0 THEN start ELSE CharTurn(s, unicode, f[k - 1])
    <3>1. CASE k = 0
      BY <1>4, <3>1 DEF Recurs
    <3>2. CASE k # 0
      <4>1. k \in 1..n
        BY <1>1, <3>2
      <4> QED BY <1>5, <3>2, <4>1
    <3> QED BY <3>1, <3>2
  <2> HIDE DEF A, n, start
  <2> QED BY <1>4, <2>1
<1>7. turn = Turns(turn)
  <2> HIDE DEF Turns
  <2> QED BY <1>6, Zenon
<1>8. WriteChars(s, unicode) = turn[n]
  BY Zenon DEF WriteChars
<1> HIDE DEF turn
<1>9. DOMAIN turn = 0..n /\ turn[0] = start /\ \A k \in 1..n : turn[k] = CharTurn(s, unicode, turn[k - 1])
  <2> HIDE DEF start
  <2> QED BY <1>1, <1>7
<1>typed. \A c \in A : CharTurn(s, unicode, c) \in A
  BY CharTurnType
<1>10. ASSUME NEW k \in 0..n PROVE turn[k] \in A
  <2> DEFINE S == {j \in Nat : j <= n => turn[j] \in A}
  <2>1. 0 \in S
    BY <1>2, <1>9
  <2>2. ASSUME NEW j \in Nat, j < n, j \in S PROVE j + 1 \in S
    <3>1. j + 1 \in 1..n /\ (j + 1) - 1 = j /\ turn[j] \in A
      BY <1>1, <2>2
    <3>2. turn[j + 1] = CharTurn(s, unicode, turn[j])
      BY <1>9, <3>1
    <3>3. turn[j + 1] \in A
      BY <1>typed, <3>1, <3>2
    <3> QED BY <3>1, <3>3
  <2> HIDE DEF S
  <2>3. k \in S
    BY <1>1, <2>1, <2>2, BoundedInduction
  <2> QED BY <1>1, <2>3 DEF S
<1>11. turn \in [0..n -> A]
  <2>1. turn = [k \in 0..n |-> turn[k]]
    <3> HIDE DEF n, start
    <3>1. \A k \in 0..n : turn[k] = Turns(turn)[k]
      BY <1>7
    <3>2. Turns(turn) = [k \in 0..n |-> Turns(turn)[k]]
      OBVIOUS
    <3> HIDE DEF Turns
    <3> QED BY <1>7, <3>2
  <2> HIDE DEF A, n
  <2> QED BY <1>10, <2>1
<1> QED BY <1>8, <1>9, <1>11 DEF CharTurns

(* What has been written by turn k.                                        *)
LEMMA TurnsBound ==
  ASSUME NEW s \in Seq(Byte), NEW unicode \in BOOLEAN, NEW turn, CharTurns(turn, s, unicode),
         NEW k \in 0..Len(s)
  PROVE  /\ Len(turn[k].out) <= Most(unicode) * (turn[k].at - 1)
         /\ turn[k].ok => turn[k].at > k \/ turn[k].at = Len(s) + 1
         /\ unicode => turn[k].ok
<1> DEFINE n == Len(s)
           Good(c, j) == /\ Len(c.out) <= Most(unicode) * (c.at - 1)
                         /\ c.ok => c.at > j \/ c.at = n + 1
                         /\ unicode => c.ok
           S == {j \in Nat : j <= n => Good(turn[j], j)}
<1>1. n \in Nat /\ Most(unicode) \in Nat
  BY DEF Most
<1>2. 0 \in S
  <2>1. turn[0].out = <<>> /\ turn[0].at = 1 /\ turn[0].ok = TRUE
    BY DEF CharTurns
  <2> QED BY <1>1, <2>1
<1>3. ASSUME NEW j \in Nat, j < n, j \in S PROVE j + 1 \in S
  <2> DEFINE c == turn[j]
             d == turn[j + 1]
  <2>1. j \in 0..n /\ j + 1 \in 1..n /\ (j + 1) - 1 = j
    BY <1>1, <1>3
  <2>2. c \in CharStates(s) /\ d = CharTurn(s, unicode, c) /\ d \in CharStates(s)
    <3>1. j + 1 \in 0..n
      BY <1>1, <2>1
    <3>2. turn[j + 1] = CharTurn(s, unicode, turn[(j + 1) - 1])
      BY <2>1 DEF CharTurns
    <3> QED BY <2>1, <3>1, <3>2 DEF CharTurns
  <2>3. Good(c, j)
    BY <1>1, <1>3
  <2>4. /\ Len(d.out) - Len(c.out) <= Most(unicode) * (d.at - c.at)
        /\ c.at <= n /\ d.ok => d.at > c.at
        /\ ~c.ok => ~d.ok
        /\ unicode /\ c.ok => d.ok
        /\ c.at = n + 1 => d = c
    <3>1. d = CharTurn(s, unicode, c) /\ c \in CharStates(s)
      BY <2>2
    <3> HIDE DEF c, d
    <3> QED BY <3>1, CharTurnType
  <2>5. c.at \in 1..n + 1 /\ d.at \in 1..n + 1 /\ Len(c.out) \in Nat /\ Len(d.out) \in Nat
        /\ c.ok \in BOOLEAN /\ d.ok \in BOOLEAN
    BY <2>2 DEF CharStates
  <2> HIDE DEF c, d, n
  <2>6. Len(d.out) <= Most(unicode) * (d.at - 1)
    <3> DEFINE m == Most(unicode)
               lc == Len(c.out)
               ld == Len(d.out)
    <3>1. m = 6 \/ m = 12
      BY DEF Most
    <3>2. lc <= m * (c.at - 1) /\ ld - lc <= m * (d.at - c.at) /\ lc \in Nat /\ ld \in Nat
      BY <2>3, <2>4, <2>5
    <3> HIDE DEF m, lc, ld
    <3>3. CASE m = 6
      <4>1. lc <= 6 * (c.at - 1) /\ ld - lc <= 6 * (d.at - c.at)
        BY <3>2, <3>3
      <4>2. ld <= 6 * (d.at - 1)
        BY <2>5, <3>2, <4>1
      <4> QED BY <3>3, <4>2 DEF m, ld
    <3>4. CASE m = 12
      <4>1. lc <= 12 * (c.at - 1) /\ ld - lc <= 12 * (d.at - c.at)
        BY <3>2, <3>4
      <4>2. ld <= 12 * (d.at - 1)
        BY <2>5, <3>2, <4>1
      <4> QED BY <3>4, <4>2 DEF m, ld
    <3> QED BY <3>1, <3>3, <3>4
  <2>7. d.ok => d.at > j + 1 \/ d.at = n + 1
    BY <1>1, <2>3, <2>4, <2>5
  <2>8. unicode => d.ok
    BY <2>3, <2>4
  <2>9. Good(d, j + 1)
    BY <2>6, <2>7, <2>8
  <2> QED BY <2>9 DEF d
<1> HIDE DEF S
<1>4. k \in S
  BY <1>1, <1>2, <1>3, BoundedInduction
<1> QED BY <1>1, <1>4 DEF S

(* WriteString's loop: it comes to the end of the string unless a byte     *)
(* sequence is not valid, which only an encoding other than UTF-8 minds,   *)
(* and has written no more than the escapes reserved for.                  *)
LEMMA WriteCharsIs ==
  ASSUME NEW s \in Seq(Byte), NEW unicode \in BOOLEAN
  PROVE  LET c == WriteChars(s, unicode)
         IN  /\ c \in CharStates(s) /\ Len(c.out) <= Most(unicode) * Len(s)
             /\ c.ok => c.at = Len(s) + 1
             /\ unicode => c.ok
<1> DEFINE n == Len(s)
<1>1. n \in Nat /\ n \in 0..n /\ Most(unicode) \in Nat
  BY DEF Most
<1>2. PICK turn : CharTurns(turn, s, unicode) /\ WriteChars(s, unicode) = turn[n]
  BY WriteCharsTurns
<1>3. turn[n] \in CharStates(s)
  BY <1>1, <1>2 DEF CharTurns
<1>4. /\ Len(turn[n].out) <= Most(unicode) * (turn[n].at - 1)
      /\ turn[n].ok => turn[n].at > n \/ turn[n].at = n + 1
      /\ unicode => turn[n].ok
  BY <1>1, <1>2, TurnsBound
<1>5. turn[n].at \in 1..n + 1 /\ Len(turn[n].out) \in Nat
  BY <1>3 DEF CharStates
<1>6. Len(turn[n].out) <= Most(unicode) * n
  BY <1>1, <1>4, <1>5 DEF Most
<1>7. turn[n].ok => turn[n].at = n + 1
  BY <1>1, <1>4, <1>5
<1> QED BY <1>2, <1>3, <1>4, <1>6, <1>7

-----------------------------------------------------------------------------
(* Decimal digits. *)

Digit == 48..57

\* A text of digits.
Number(s) == s \in Seq(Digit) /\ Len(s) \in Nat

(* Digits after digits are digits.                                         *)
LEMMA NumberJoined ==
  ASSUME NEW s, NEW t, Number(s), Number(t)
  PROVE  Number(s \o t) /\ Len(s \o t) = Len(s) + Len(t) /\ Len(s) \in Nat /\ Len(t) \in Nat
<1>1. s \in Seq(Digit) /\ t \in Seq(Digit) /\ Len(s) \in Nat /\ Len(t) \in Nat
  BY DEF Number
<1>2. s \o t \in Seq(Digit) /\ Len(s \o t) = Len(s) + Len(t)
  BY <1>1, ConcatProperties
<1> QED BY <1>1, <1>2 DEF Number

(* The table of pairs of digits holds digits.                              *)
LEMMA DigitsLutIs ==
  ASSUME NEW i \in Nat, i < 200
  PROVE  DigitsLut(i) \in Digit
<1> DEFINE j == i \div 2
<1>1. j \in Nat /\ j < 100
  OBVIOUS
<1>2. DigitsLut(i) = 48 + (IF i % 2 = 0 THEN j \div 10 ELSE j % 10)
  BY DEF DigitsLut
<1> HIDE DEF j
<1>3. j \div 10 \in 0..9 /\ j % 10 \in 0..9
  BY <1>1
<1>4. CASE i % 2 = 0
  BY <1>2, <1>3, <1>4 DEF Digit
<1>5. CASE i % 2 # 0
  BY <1>2, <1>3, <1>5 DEF Digit
<1> QED BY <1>4, <1>5

(* A group has four digits; from one to four when it is the first, two or *)
(* less below a hundred.                                                   *)
LEMMA GroupIs ==
  ASSUME NEW n \in Nat, n < 10000
  PROVE  /\ Number(Group(n)) /\ Len(Group(n)) = 4
         /\ Number(FirstGroup(n)) /\ Len(FirstGroup(n)) <= 4
         /\ n < 100 => Len(FirstGroup(n)) <= 2
<1> DEFINE d1 == (n \div 100) * 2
           d2 == (n % 100) * 2
           g == Group(n)
           first == IF n >= 1000 THEN 1 ELSE IF n >= 100 THEN 2 ELSE IF n >= 10 THEN 3 ELSE 4
<1>1. d1 \in Nat /\ d1 + 1 < 200 /\ d2 \in Nat /\ d2 + 1 < 200
  OBVIOUS
<1>2. g = <<DigitsLut(d1), DigitsLut(d1 + 1), DigitsLut(d2), DigitsLut(d2 + 1)>>
  BY DEF Group
<1>3. first \in 1..4 /\ (n < 100 => first >= 3)
  OBVIOUS
<1>4. FirstGroup(n) = SubSeq(g, first, 4)
  BY DEF FirstGroup
<1> HIDE DEF d1, d2, g, first
<1>5. /\ DigitsLut(d1) \in Digit /\ DigitsLut(d1 + 1) \in Digit
      /\ DigitsLut(d2) \in Digit /\ DigitsLut(d2 + 1) \in Digit
  <2>1. d1 < 200 /\ d2 < 200 /\ d1 + 1 \in Nat /\ d2 + 1 \in Nat
    BY <1>1
  <2> QED BY <1>1, <2>1, DigitsLutIs
<1>6. g \in Seq(Digit) /\ Len(g) = 4
  BY <1>2, <1>5
<1>7. FirstGroup(n) \in Seq(Digit) /\ Len(FirstGroup(n)) = 5 - first
  <2> DEFINE tail == SubSeq(g, first, 4)
  <2>1. \A i \in first..4 : g[i] \in Digit
    <3>1. \A i \in 1..4 : g[i] \in Digit
      BY <1>6
    <3>2. first..4 \subseteq 1..4
      BY <1>3
    <3> QED BY <3>1, <3>2
  <2>2. first \in Int /\ 4 \in Int /\ first <= 4
    BY <1>3
  <2>3. tail \in Seq(Digit) /\ Len(tail) = IF first <= 4 THEN 4 - first + 1 ELSE 0
    BY <2>1, <2>2, SubSeqProperties
  <2> QED BY <1>3, <1>4, <2>2, <2>3
<1> QED BY <1>3, <1>6, <1>7 DEF Number, g

(* A number below 10^8 has at most eight digits.                           *)
LEMMA EightIs ==
  ASSUME NEW n \in Nat, n < 100000000
  PROVE  Number(Eight(n)) /\ Len(Eight(n)) <= 8 /\ Number(UpToEight(n)) /\ Len(UpToEight(n)) <= 8
<1> DEFINE high == n \div 10000
           low == n % 10000
<1>1. high \in Nat /\ high < 10000 /\ low \in Nat /\ low < 10000
  BY SMT
<1>3. Eight(n) = Group(high) \o Group(low)
  BY SMT DEF Eight
<1>4. ~(n < 10000) => UpToEight(n) = FirstGroup(high) \o Group(low)
  BY SMT DEF UpToEight
<1>5. n < 10000 => UpToEight(n) = FirstGroup(n)
  BY SMT DEF UpToEight
<1> HIDE DEF high, low
<1>2. /\ Number(Group(high)) /\ Len(Group(high)) = 4
      /\ Number(FirstGroup(high)) /\ Len(FirstGroup(high)) <= 4
  BY <1>1, GroupIs, SMT
<1>g. Number(Group(low)) /\ Len(Group(low)) = 4
  BY <1>1, GroupIs, SMT
<1> DEFINE s == Group(high)
           u == Group(low)
           w == FirstGroup(high)
<1>j. /\ Number(s \o u) /\ Len(s \o u) = Len(s) + Len(u)
      /\ Number(w \o u) /\ Len(w \o u) = Len(w) + Len(u) /\ Len(w) \in Nat
  <2> HIDE DEF s, u, w
  <2>1. Number(s) /\ Number(u) /\ Number(w)
    BY <1>2, <1>g, SMT DEF s, u, w
  <2> QED BY <2>1, NumberJoined, SMT
<1>6. Number(Eight(n)) /\ Len(Eight(n)) <= 8
  BY <1>2, <1>3, <1>g, <1>j, SMT
<1>7. CASE n < 10000
  <2>1. Number(FirstGroup(n)) /\ Len(FirstGroup(n)) <= 4
    BY <1>7, GroupIs, SMT
  <2> QED BY <1>5, <1>6, <1>7, <2>1, SMT DEF Number
<1>8. CASE ~(n < 10000)
  <2>1. Number(UpToEight(n)) /\ Len(UpToEight(n)) <= 8
    <3>1. UpToEight(n) = w \o u
      BY <1>4, <1>8, SMT
    <3>2. Len(w) <= 4 /\ Len(u) = 4
      BY <1>2, <1>g, SMT
    <3> HIDE DEF w, u
    <3> QED BY <1>j, <3>1, <3>2, SMT
  <2> QED BY <1>6, <2>1, SMT
<1> QED BY <1>7, <1>8, SMT

\* The values of the code's integer types.
TwoTo32 == 65536 * 65536
TwoTo63 == 2147483648 * TwoTo32
Uint32 == {v \in Nat : v < TwoTo32}
Int32  == {v \in Int : -2147483648 <= v /\ v < 2147483648}
Uint64 == {v \in Nat : v < TwoTo63 + TwoTo63}
Int64  == {v \in Int : -TwoTo63 <= v /\ v < TwoTo63}

\* A number's text of bytes, no longer than m.
Fits(s, m) == s \in Seq(Byte) /\ Len(s) \in Nat /\ Len(s) <= m

(* A number and its sign.                                                  *)
LEMMA NumberFits ==
  ASSUME NEW s, NEW m \in Nat, Number(s), Len(s) <= m
  PROVE  Fits(s, m) /\ Fits(<<45>> \o s, m + 1)
<1>1. s \in Seq(Digit) /\ Len(s) \in Nat /\ Len(s) <= m
  BY DEF Number
<1>2. s \in Seq(Byte)
  <2>1. Digit \subseteq Byte
    BY DEF Digit, Byte
  <2> QED BY <1>1, <2>1
<1>3. <<45>> \in Seq(Byte) /\ Len(<<45>>) = 1
  BY DEF Byte
<1>4. <<45>> \o s \in Seq(Byte) /\ Len(<<45>> \o s) = 1 + Len(s)
  BY <1>2, <1>3, ConcatProperties
<1> QED BY <1>1, <1>2, <1>4 DEF Fits

(* A number of 32 bits has at most ten digits,                             *)
LEMMA Digits32Bits ==
  ASSUME NEW v \in Nat, v < TwoTo32
  PROVE  Number(u32toa(v)) /\ Len(u32toa(v)) <= 10
<1> DEFINE high == v \div 100000000
           low == v % 100000000
<1>1. high \in Nat /\ high < 100 /\ high < 10000 /\ low \in Nat /\ low < 100000000
  BY SMT DEF TwoTo32
<1>2. CASE v < 100000000
  <2>1. u32toa(v) = UpToEight(v)
    BY <1>2, SMT DEF u32toa
  <2>2. Number(UpToEight(v)) /\ Len(UpToEight(v)) <= 8
    BY <1>2, EightIs, SMT
  <2> QED BY <2>1, <2>2, SMT DEF Number
<1>3. CASE ~(v < 100000000)
  <2>1. u32toa(v) = FirstGroup(high) \o Eight(low)
    BY <1>3, SMT DEF u32toa
  <2> HIDE DEF high, low
  <2>2. Number(FirstGroup(high)) /\ Len(FirstGroup(high)) <= 2
    BY <1>1, GroupIs, SMT
  <2>3. Number(Eight(low)) /\ Len(Eight(low)) <= 8
    BY <1>1, EightIs, SMT
  <2> QED BY <2>1, <2>2, <2>3, NumberJoined, SMT
<1> QED BY <1>2, <1>3, SMT

(* and one of 64 bits at most twenty.                                      *)
LEMMA Digits64Bits ==
  ASSUME NEW v \in Nat, v < TwoTo63 + TwoTo63
  PROVE  Number(u64toa(v)) /\ Len(u64toa(v)) <= 20
<1> DEFINE v0 == v \div 100000000
           v1 == v % 100000000
           top == v0 \div 100000000
           mid == v0 % 100000000
<1>1. v0 \in Nat /\ v1 \in Nat /\ v1 < 100000000 /\ v = 100000000 * v0 + v1
  BY SMT
<1>2. /\ v0 = 0 => u64toa(v) = UpToEight(v)
      /\ v0 # 0 /\ v0 < 100000000 => u64toa(v) = UpToEight(v0) \o Eight(v1)
      /\ v0 # 0 /\ ~(v0 < 100000000) => u64toa(v) = (FirstGroup(top) \o Eight(mid)) \o Eight(v1)
  BY SMT DEF u64toa
<1> HIDE DEF v0, v1
<1>3. top \in Nat /\ mid \in Nat /\ mid < 100000000 /\ v0 = 100000000 * top + mid
  BY <1>1, SMT
<1> HIDE DEF top, mid
<1>4. top < 10000
  BY <1>1, <1>3, SMT DEF TwoTo63, TwoTo32
<1>5. Number(Eight(v1)) /\ Len(Eight(v1)) <= 8
  BY <1>1, EightIs, SMT
<1>6. CASE v0 = 0
  <2>1. v < 100000000
    BY <1>1, <1>6, SMT
  <2>2. Number(UpToEight(v)) /\ Len(UpToEight(v)) <= 8
    BY <2>1, EightIs, SMT
  <2> QED BY <1>2, <1>6, <2>2, SMT DEF Number
<1>7. CASE v0 # 0 /\ v0 < 100000000
  <2>1. Number(UpToEight(v0)) /\ Len(UpToEight(v0)) <= 8
    BY <1>1, <1>7, EightIs, SMT
  <2>2. /\ Number(UpToEight(v0) \o Eight(v1))
        /\ Len(UpToEight(v0) \o Eight(v1)) = Len(UpToEight(v0)) + Len(Eight(v1))
        /\ Len(UpToEight(v0)) \in Nat /\ Len(Eight(v1)) \in Nat
    BY <1>5, <2>1, NumberJoined, SMT
  <2>3. u64toa(v) = UpToEight(v0) \o Eight(v1)
    BY <1>2, <1>7, SMT
  <2> QED BY <1>5, <2>1, <2>2, <2>3, SMT
<1>8. CASE v0 # 0 /\ ~(v0 < 100000000)
  <2>1. Number(FirstGroup(top)) /\ Len(FirstGroup(top)) <= 4
    BY <1>3, <1>4, GroupIs, SMT
  <2>2. Number(Eight(mid)) /\ Len(Eight(mid)) <= 8
    BY <1>3, EightIs, SMT
  <2>3. Number(FirstGroup(top) \o Eight(mid)) /\ Len(FirstGroup(top) \o Eight(mid)) <= 12
    BY <2>1, <2>2, NumberJoined, SMT
  <2>4. /\ Number((FirstGroup(top) \o Eight(mid)) \o Eight(v1))
        /\ Len((FirstGroup(top) \o Eight(mid)) \o Eight(v1))
             = Len(FirstGroup(top) \o Eight(mid)) + Len(Eight(v1))
        /\ Len(FirstGroup(top) \o Eight(mid)) \in Nat /\ Len(Eight(v1)) \in Nat
    BY <1>5, <2>3, NumberJoined, SMT
  <2>5. u64toa(v) = (FirstGroup(top) \o Eight(mid)) \o Eight(v1)
    BY <1>2, <1>8, SMT
  <2> QED BY <1>5, <2>3, <2>4, <2>5, SMT
<1> QED BY <1>6, <1>7, <1>8, SMT

(* Every number fits the room the writer pushes for it.                    *)
THEOREM NumbersFit ==
  /\ \A v \in Uint32 : Fits(u32toa(v), 10)
  /\ \A v \in Int32 : Fits(i32toa(v), 11)
  /\ \A v \in Uint64 : Fits(u64toa(v), 20)
  /\ \A v \in Int64 : Fits(i64toa(v), 21)
<1>1. ASSUME NEW v \in Uint32 PROVE Fits(u32toa(v), 10)
  <2>1. Number(u32toa(v)) /\ Len(u32toa(v)) <= 10
    BY Digits32Bits DEF Uint32
  <2> QED BY <2>1, NumberFits
<1>2. ASSUME NEW v \in Int32 PROVE Fits(i32toa(v), 11)
  <2> DEFINE m == IF v < 0 THEN -v ELSE v
  <2>1. m \in Nat /\ m < TwoTo32
    BY SMT DEF Int32, TwoTo32
  <2>2. i32toa(v) = IF v < 0 THEN <<45>> \o u32toa(m) ELSE u32toa(m)
    BY SMT DEF i32toa
  <2> HIDE DEF m
  <2>3. Number(u32toa(m)) /\ Len(u32toa(m)) <= 10
    BY <2>1, Digits32Bits
  <2>4. Fits(u32toa(m), 10) /\ Fits(<<45>> \o u32toa(m), 11)
    BY <2>3, NumberFits
  <2>5. Fits(u32toa(m), 11)
    BY <2>4 DEF Fits
  <2> QED BY <2>2, <2>4, <2>5
<1>3. ASSUME NEW v \in Uint64 PROVE Fits(u64toa(v), 20)
  <2>1. Number(u64toa(v)) /\ Len(u64toa(v)) <= 20
    BY Digits64Bits DEF Uint64
  <2> QED BY <2>1, NumberFits
<1>4. ASSUME NEW v \in Int64 PROVE Fits(i64toa(v), 21)
  <2> DEFINE m == IF v < 0 THEN -v ELSE v
  <2>1. m \in Nat /\ m < TwoTo63 + TwoTo63
    BY SMT DEF Int64, TwoTo63, TwoTo32
  <2>2. i64toa(v) = IF v < 0 THEN <<45>> \o u64toa(m) ELSE u64toa(m)
    BY SMT DEF i64toa
  <2> HIDE DEF m
  <2>3. Number(u64toa(m)) /\ Len(u64toa(m)) <= 20
    BY <2>1, Digits64Bits
  <2>4. Fits(u64toa(m), 20) /\ Fits(<<45>> \o u64toa(m), 21)
    BY <2>3, NumberFits
  <2>5. Fits(u64toa(m), 21)
    BY <2>4 DEF Fits
  <2> QED BY <2>2, <2>4, <2>5
<1> QED BY <1>1, <1>2, <1>3, <1>4

-----------------------------------------------------------------------------
(* The stack under the writer. *)

\* A stack on which no assertion has failed and that holds no more than it may.
Sound(k) ==
    /\ k \in [data : Seq(Int), cap : Nat, init : Nat, failed : BOOLEAN]
    /\ ~k.failed /\ Len(k.data) <= k.cap

(* A new stack is sound.                                                   *)
LEMMA NewStackSound ==
  ASSUME NEW init \in Nat
  PROVE  Sound(NewStack(init)) /\ NewStack(init).data = <<>>
BY DEF Sound, NewStack

(* Reserve() makes the room it is asked for and keeps what is there.       *)
LEMMA ReserveSound ==
  ASSUME NEW k, Sound(k), NEW n \in Nat
  PROVE  /\ Sound(Reserve(k, n)) /\ Reserve(k, n).data = k.data
         /\ Len(k.data) + n <= Reserve(k, n).cap
<1> DEFINE half == (k.cap + 1) \div 2
           grown == IF k.cap = 0 THEN k.init ELSE k.cap + half
           size == Len(k.data) + n
<1>1. /\ k = [data |-> k.data, cap |-> k.cap, init |-> k.init, failed |-> k.failed]
      /\ k.data \in Seq(Int) /\ k.cap \in Nat /\ k.init \in Nat /\ k.failed \in BOOLEAN
      /\ Len(k.data) <= k.cap /\ ~k.failed
  BY DEF Sound
<1>2. Len(k.data) \in Nat
  BY <1>1
<1>3. half \in Nat
  BY <1>1
<1> HIDE DEF half
<1>4. grown \in Nat /\ size \in Nat /\ Len(k.data) <= size
  BY <1>1, <1>2, <1>3
<1>5. Expand(k, n) = [k EXCEPT !.cap = IF grown < size THEN size ELSE grown]
  BY DEF Expand, half
<1> HIDE DEF grown
<1>6. Sound(Expand(k, n)) /\ Expand(k, n).data = k.data /\ size <= Expand(k, n).cap
  <2> DEFINE cap == IF grown < size THEN size ELSE grown
  <2>1. cap \in Nat /\ size <= cap
    BY <1>4
  <2> HIDE DEF size, cap
  <2>2. Expand(k, n) = [data |-> k.data, cap |-> cap, init |-> k.init, failed |-> k.failed]
    BY <1>1, <1>5 DEF cap
  <2>3. Len(k.data) <= cap
    BY <1>2, <1>4, <2>1
  <2> QED BY <1>1, <2>1, <2>2, <2>3 DEF Sound
<1> QED BY <1>1, <1>2, <1>6 DEF Reserve

(* PushUnsafe() within the room there is.                                  *)
LEMMA PushUnsafeSound ==
  ASSUME NEW k, Sound(k), NEW s \in Seq(Int), Len(k.data) + Len(s) <= k.cap
  PROVE  Sound(PushUnsafe(k, s)) /\ PushUnsafe(k, s).data = k.data \o s
<1>1. /\ k = [data |-> k.data, cap |-> k.cap, init |-> k.init, failed |-> k.failed]
      /\ k.data \in Seq(Int) /\ k.cap \in Nat /\ k.init \in Nat /\ k.failed = FALSE
  BY DEF Sound
<1>2. Len(k.data) \in Nat /\ Len(s) \in Nat
  BY <1>1
<1>3. k.data \o s \in Seq(Int) /\ Len(k.data \o s) = Len(k.data) + Len(s)
  BY <1>1
<1>4. ~(Len(k.data) + Len(s) > k.cap)
  BY <1>1, <1>2
<1>5. PushUnsafe(k, s) = [data |-> k.data \o s, cap |-> k.cap, init |-> k.init, failed |-> FALSE]
  <2>1. PushUnsafe(k, s) = [k EXCEPT !.data = k.data \o s, !.failed = FALSE]
    BY <1>1, <1>4 DEF PushUnsafe
  <2> QED BY <1>1, <2>1
<1> HIDE DEF Sound
<1>6. Len(k.data \o s) <= k.cap
  BY <1>3
<1> QED BY <1>1, <1>3, <1>5, <1>6 DEF Sound

(* Push() makes its own room.                                              *)
LEMMA PushSound ==
  ASSUME NEW k, Sound(k), NEW s \in Seq(Int)
  PROVE  Sound(Push(k, s)) /\ Push(k, s).data = k.data \o s
<1>1. Len(s) \in Nat
  OBVIOUS
<1>2. /\ Sound(Reserve(k, Len(s))) /\ Reserve(k, Len(s)).data = k.data
      /\ Len(k.data) + Len(s) <= Reserve(k, Len(s)).cap
  BY <1>1, ReserveSound
<1> QED BY <1>2, PushUnsafeSound DEF Push

(* Pop() of what was pushed.                                               *)
LEMMA PopSound ==
  ASSUME NEW k, Sound(k), NEW n \in Nat, n <= Len(k.data)
  PROVE  Sound(Pop(k, n)) /\ Pop(k, n).data = SubSeq(k.data, 1, Len(k.data) - n)
<1>1. /\ k = [data |-> k.data, cap |-> k.cap, init |-> k.init, failed |-> k.failed]
      /\ k.data \in Seq(Int) /\ k.cap \in Nat /\ k.init \in Nat /\ ~k.failed
      /\ k.failed \in BOOLEAN /\ Len(k.data) <= k.cap
  BY DEF Sound
<1>2. Len(k.data) \in Nat /\ ~(Len(k.data) < n) /\ Len(k.data) - n \in 0..Len(k.data)
  BY <1>1
<1> DEFINE kept == SubSeq(k.data, 1, Len(k.data) - n)
<1>3. kept \in Seq(Int) /\ Len(kept) = Len(k.data) - n
  BY <1>1, <1>2, SubSeqProperties
<1>4. Len(kept) <= k.cap
  BY <1>1, <1>2, <1>3
<1> HIDE DEF kept
<1>5. Pop(k, n) = [k EXCEPT !.data = kept]
  BY <1>2 DEF Pop, kept
<1>6. Pop(k, n) = [data |-> kept, cap |-> k.cap, init |-> k.init, failed |-> k.failed]
  BY <1>1, <1>5
<1> QED BY <1>1, <1>3, <1>4, <1>6 DEF Sound, kept

-----------------------------------------------------------------------------
(* The writer. *)

Stacks == [data : Seq(Int), cap : Nat, init : Nat, failed : BOOLEAN]
Levels == [count : Nat, inArray : BOOLEAN]
Writers == [os : Stacks, levels : Seq(Levels), root : BOOLEAN, ok : BOOLEAN,
            pretty : BOOLEAN, unicode : BOOLEAN]

\* The invariant of a writer.
SoundWriter(w) == w \in Writers /\ Sound(w.os)

(* A sound writer, field by field.                                         *)
LEMMA FieldsOf ==
  ASSUME NEW w, SoundWriter(w)
  PROVE  /\ w = [os |-> w.os, levels |-> w.levels, root |-> w.root, ok |-> w.ok,
                 pretty |-> w.pretty, unicode |-> w.unicode]
         /\ w.levels \in Seq(Levels) /\ w.root \in BOOLEAN /\ w.ok \in BOOLEAN
         /\ w.pretty \in BOOLEAN /\ w.unicode \in BOOLEAN /\ Sound(w.os)
BY DEF SoundWriter, Writers

(* The buffer may be replaced by another that is sound, and the rest of    *)
(* the writer by what is of its type.                                      *)
LEMMA BufferReplaced ==
  ASSUME NEW w, SoundWriter(w), NEW k, Sound(k)
  PROVE  LET v == [w EXCEPT !.os = k]
         IN  SoundWriter(v) /\ v.os = k /\ v.levels = w.levels /\ v.unicode = w.unicode
<1> DEFINE v == [w EXCEPT !.os = k]
<1>1. k \in Stacks
  BY DEF Sound, Stacks
<1>2. v = [os |-> k, levels |-> w.levels, root |-> w.root, ok |-> w.ok,
           pretty |-> w.pretty, unicode |-> w.unicode]
  BY FieldsOf
<1> HIDE DEF v
<1>3. v \in Writers
  BY <1>1, <1>2, FieldsOf DEF Writers
<1>4. v.os = k /\ v.levels = w.levels /\ v.unicode = w.unicode
  BY <1>2
<1> QED BY <1>3, <1>4 DEF SoundWriter, v

(* The same of its levels,                                                 *)
LEMMA LevelsReplaced ==
  ASSUME NEW w, SoundWriter(w), NEW l \in Seq(Levels)
  PROVE  LET v == [w EXCEPT !.levels = l]
         IN  SoundWriter(v) /\ v.os = w.os /\ v.levels = l /\ v.unicode = w.unicode
<1> DEFINE v == [w EXCEPT !.levels = l]
<1>1. w.os \in Stacks
  BY FieldsOf DEF Sound, Stacks
<1>2. v = [os |-> w.os, levels |-> l, root |-> w.root, ok |-> w.ok,
           pretty |-> w.pretty, unicode |-> w.unicode]
  BY FieldsOf
<1> HIDE DEF v
<1>3. v \in Writers
  BY <1>1, <1>2, FieldsOf DEF Writers
<1>4. v.os = w.os /\ v.levels = l /\ v.unicode = w.unicode
  BY <1>2
<1> QED BY <1>3, <1>4, FieldsOf DEF SoundWriter, v

(* and of its mark of a root.                                              *)
LEMMA RootReplaced ==
  ASSUME NEW w, SoundWriter(w), NEW root \in BOOLEAN
  PROVE  LET v == [w EXCEPT !.root = root]
         IN  SoundWriter(v) /\ v.os = w.os /\ v.levels = w.levels /\ v.unicode = w.unicode
<1> DEFINE v == [w EXCEPT !.root = root]
<1>1. w.os \in Stacks
  BY FieldsOf DEF Sound, Stacks
<1>2. v = [os |-> w.os, levels |-> w.levels, root |-> root, ok |-> w.ok,
           pretty |-> w.pretty, unicode |-> w.unicode]
  BY FieldsOf
<1> HIDE DEF v
<1>3. v \in Writers
  BY <1>1, <1>2, FieldsOf DEF Writers
<1>4. v.os = w.os /\ v.levels = w.levels /\ v.unicode = w.unicode
  BY <1>2
<1> QED BY <1>3, <1>4, FieldsOf DEF SoundWriter, v

(* An assertion changes nothing else; none after it can hide its failure.  *)
LEMMA RequireSound ==
  ASSUME NEW w, SoundWriter(w), NEW condition
  PROVE  LET v == Require(w, condition)
         IN  /\ SoundWriter(v) /\ v.os = w.os /\ v.levels = w.levels /\ v.unicode = w.unicode
             /\ v.ok => condition
<1> DEFINE ok == w.ok /\ condition
           v == Require(w, condition)
<1>1. w.os \in Stacks
  BY FieldsOf DEF Sound, Stacks
<1>2. ok \in BOOLEAN
  OBVIOUS
<1>3. v = [w EXCEPT !.ok = ok]
  BY DEF Require
<1>7. ok => condition
  OBVIOUS
<1> HIDE DEF ok, v
<1>4. v = [os |-> w.os, levels |-> w.levels, root |-> w.root, ok |-> ok,
           pretty |-> w.pretty, unicode |-> w.unicode]
  BY <1>3, FieldsOf
<1>5. v \in Writers
  BY <1>1, <1>2, <1>4, FieldsOf DEF Writers
<1>6. v.os = w.os /\ v.levels = w.levels /\ v.unicode = w.unicode /\ v.ok = ok
  BY <1>4
<1>8. v.ok => condition
  BY <1>6, <1>7
<1>9. SoundWriter(v)
  BY <1>5, <1>6, FieldsOf DEF SoundWriter
<1> QED BY <1>6, <1>8, <1>9 DEF v

(* What is pushed into the buffer finds room.                              *)
LEMMA PushedSound ==
  ASSUME NEW w, SoundWriter(w), NEW s \in Seq(Int)
  PROVE  LET v == [w EXCEPT !.os = Push(@, s)]
         IN  SoundWriter(v) /\ v.levels = w.levels /\ v.unicode = w.unicode
<1>1. Sound(Push(w.os, s))
  BY FieldsOf, PushSound
<1> QED BY <1>1, BufferReplaced

(* So does a single byte.                                                  *)
LEMMA PutSound ==
  ASSUME NEW w, SoundWriter(w), NEW c \in Int
  PROVE  SoundWriter(Put(w, c)) /\ Put(w, c).levels = w.levels /\ Put(w, c).unicode = w.unicode
<1>1. <<c>> \in Seq(Int)
  OBVIOUS
<1> QED BY <1>1, PushedSound DEF Put

(* A text put in what was reserved for it.                                 *)
LEMMA ReservedPut ==
  ASSUME NEW w, SoundWriter(w), NEW n \in Nat, NEW s \in Seq(Int), Len(s) <= n
  PROVE  /\ SoundWriter(PutUnsafe(PutReserve(w, n), s))
         /\ PutUnsafe(PutReserve(w, n), s).levels = w.levels
         /\ PutUnsafe(PutReserve(w, n), s).os.data = w.os.data \o s
<1> DEFINE k == Reserve(w.os, n)
           v == PutReserve(w, n)
<1>1. Sound(k) /\ k.data = w.os.data /\ Len(w.os.data) + n <= k.cap
  BY FieldsOf, ReserveSound
<1>2. v = [w EXCEPT !.os = k]
  BY DEF PutReserve
<1> HIDE DEF k, v
<1>3. SoundWriter(v) /\ v.os = k /\ v.levels = w.levels
  BY <1>1, <1>2, BufferReplaced
<1>4. Len(k.data) + Len(s) <= k.cap
  <2>1. Len(w.os.data) \in Nat /\ Len(s) \in Nat /\ k.cap \in Nat
    BY <1>1, FieldsOf DEF Sound
  <2> QED BY <1>1, <2>1
<1>5. Sound(PushUnsafe(k, s)) /\ PushUnsafe(k, s).data = k.data \o s
  BY <1>1, <1>4, PushUnsafeSound
<1>6. PutUnsafe(v, s) = [v EXCEPT !.os = PushUnsafe(k, s)]
  BY <1>3 DEF PutUnsafe
<1>7. /\ SoundWriter(PutUnsafe(v, s)) /\ PutUnsafe(v, s).levels = v.levels
      /\ PutUnsafe(v, s).os = PushUnsafe(k, s)
  BY <1>3, <1>5, <1>6, BufferReplaced
<1>8. PutUnsafe(v, s).os.data = w.os.data \o s
  BY <1>1, <1>5, <1>7
<1> QED BY <1>3, <1>7, <1>8 DEF v

(* A text of bytes is a text of integers.                                  *)
LEMMA BytesAreInts ==
  ASSUME NEW s \in Seq(Byte)
  PROVE  s \in Seq(Int) /\ Len(s) \in Nat
<1>1. Byte \subseteq Int
  BY DEF Byte
<1>2. Len(s) \in Nat /\ s = [i \in 1..Len(s) |-> s[i]] /\ \A i \in 1..Len(s) : s[i] \in Byte
  OBVIOUS
<1>3. \A i \in 1..Len(s) : s[i] \in Int
  BY <1>1, <1>2
<1>4. [i \in 1..Len(s) |-> s[i]] \in Seq(Int)
  BY <1>2, <1>3
<1> QED BY <1>2, <1>4

(* A literal is put in the room reserved for it.                           *)
LEMMA WriteTextSound ==
  ASSUME NEW w, SoundWriter(w), NEW s \in Seq(Int)
  PROVE  SoundWriter(WriteText(w, s))
<1>1. Len(s) \in Nat /\ Len(s) <= Len(s)
  OBVIOUS
<1> QED BY <1>1, ReservedPut DEF WriteText

(* The room pushed for a number and what of it is popped again.            *)
LEMMA WriteNumberSound ==
  ASSUME NEW w, SoundWriter(w), NEW room \in Nat, NEW s, Fits(s, room)
  PROVE  SoundWriter(WriteNumber(w, room, s))
<1> DEFINE rest == room - Len(s)
           padding == [i \in 1..rest |-> Nul]
           v == Require(w, Len(s) <= room)
           pushed == Push(v.os, s \o padding)
<1>1. s \in Seq(Int) /\ Len(s) \in Nat /\ Len(s) <= room
  BY BytesAreInts DEF Fits
<1>2. rest \in Nat
  BY <1>1
<1> HIDE DEF rest
<1>3. padding \in Seq(Int) /\ Len(padding) = rest
  BY <1>2 DEF Nul
<1> HIDE DEF padding
<1>4. s \o padding \in Seq(Int) /\ Len(s \o padding) = Len(s) + rest
  BY <1>1, <1>3, ConcatProperties
<1>5. SoundWriter(v)
  BY RequireSound
<1> HIDE DEF v
<1>6. Sound(pushed) /\ pushed.data = v.os.data \o (s \o padding)
  BY <1>4, <1>5, FieldsOf, PushSound
<1>7. rest <= Len(pushed.data)
  <2>1. v.os.data \in Seq(Int)
    BY <1>5, FieldsOf DEF Sound
  <2>2. Len(v.os.data \o (s \o padding)) = Len(v.os.data) + Len(s \o padding)
    BY <1>4, <2>1, ConcatProperties
  <2>3. Len(v.os.data) \in Nat
    BY <2>1
  <2>4. Len(pushed.data) = Len(v.os.data) + (Len(s) + rest)
    BY <1>4, <1>6, <2>2
  <2> HIDE DEF pushed
  <2> DEFINE before == Len(v.os.data)
             own == Len(s)
             all == Len(pushed.data)
  <2>5. before \in Nat /\ own \in Nat /\ rest \in Nat /\ all = before + (own + rest)
    BY <1>1, <1>2, <2>3, <2>4
  <2> HIDE DEF before, own, all
  <2>6. rest <= all
    BY <2>5
  <2> QED BY <2>6 DEF all
<1> HIDE DEF pushed
<1>8. Sound(Pop(pushed, rest))
  BY <1>2, <1>6, <1>7, PopSound
<1>9. WriteNumber(w, room, s) = [v EXCEPT !.os = Pop(pushed, rest)]
  BY DEF WriteNumber, v, pushed, padding, rest
<1> QED BY <1>5, <1>8, <1>9, BufferReplaced

(* The string of a writer, its quotes and every escape of it, lies in what *)
(* was reserved for it.                                                    *)
LEMMA WriteStringSound ==
  ASSUME NEW w, SoundWriter(w), NEW s \in Seq(Byte)
  PROVE  LET chars == WriteChars(s, w.unicode)
             v == WriteString(w, s)
         IN  /\ SoundWriter(v)
             /\ v.ok => chars.ok
             /\ v.os.data = w.os.data \o (<<Quote>> \o chars.out \o
                                          (IF chars.ok THEN <<Quote>> ELSE <<>>))
<1> DEFINE chars == WriteChars(s, w.unicode)
           end == IF chars.ok THEN <<Quote>> ELSE <<>>
           t == <<Quote>> \o chars.out \o end
           n == IF w.unicode THEN 2 + Len(s) * 6 ELSE 2 + Len(s) * 12
<1>1. w.unicode \in BOOLEAN /\ Len(s) \in Nat
  BY FieldsOf
<1>2. chars.out \in Seq(Byte) /\ Len(chars.out) <= Most(w.unicode) * Len(s)
  BY <1>1, WriteCharsIs DEF CharStates
<1>3. n \in Nat /\ n = 2 + Most(w.unicode) * Len(s)
  <2>1. CASE w.unicode
    <3>1. Most(w.unicode) = 6
      BY <2>1 DEF Most
    <3>2. n = 2 + Len(s) * 6
      BY <2>1
    <3> HIDE DEF n
    <3> QED BY <1>1, <3>1, <3>2
  <2>2. CASE ~w.unicode
    <3>1. Most(w.unicode) = 12
      BY <2>2 DEF Most
    <3>2. n = 2 + Len(s) * 12
      BY <2>2
    <3> HIDE DEF n
    <3> QED BY <1>1, <3>1, <3>2
  <2> QED BY <2>1, <2>2
<1>4. <<Quote>> \in Seq(Byte) /\ Len(<<Quote>>) = 1
  BY DEF Quote, Byte
<1>5. end \in Seq(Byte) /\ Len(end) \in Nat /\ Len(end) <= 1
  <2>1. CASE chars.ok
    <3>1. end = <<Quote>>
      BY <2>1
    <3> QED BY <1>4, <3>1
  <2>2. CASE ~chars.ok
    <3>1. end = <<>>
      BY <2>2
    <3> QED BY <3>1
  <2> QED BY <2>1, <2>2
<1>6. WriteString(w, s) = Require(PutUnsafe(PutReserve(w, n), t), chars.ok)
  BY DEF WriteString, Quoted
<1> HIDE DEF n, end
<1>7. t \in Seq(Int) /\ Len(t) <= n
  <2> DEFINE out == chars.out
             q == <<Quote>>
             m == Most(w.unicode) * Len(s)
  <2>1. out \in Seq(Byte) /\ q \in Seq(Byte) /\ Len(q) = 1 /\ Len(out) <= m /\ n = 2 + m
    BY <1>2, <1>3, <1>4
  <2>m. m \in Int
    <3>1. Most(w.unicode) \in Int
      BY DEF Most
    <3>2. \A a, b \in Int : a * b \in Int
      OBVIOUS
    <3> QED BY <1>1, <3>1, <3>2
  <2> HIDE DEF q, out, m
  <2>2. q \o out \in Seq(Byte) /\ Len(q \o out) = 1 + Len(out) /\ Len(out) \in Nat
    BY <2>1, Joined
  <2>3. /\ (q \o out) \o end \in Seq(Byte)
        /\ Len((q \o out) \o end) = Len(q \o out) + Len(end)
    BY <1>5, <2>2, Joined
  <2>4. Len((q \o out) \o end) <= n
    <3> DEFINE l == Len(out)
               e == Len(end)
               whole == Len((q \o out) \o end)
    <3>1. /\ l \in Nat /\ e \in Nat /\ e <= 1 /\ l <= m /\ n = 2 + m /\ n \in Nat
          /\ whole = (1 + l) + e /\ m \in Int
      BY <1>3, <1>5, <2>1, <2>2, <2>3, <2>m
    <3> HIDE DEF l, e, whole
    <3>2. whole <= n
      BY <3>1
    <3> QED BY <3>2 DEF whole
  <2>5. t = (q \o out) \o end
    BY DEF q, out
  <2> HIDE DEF t
  <2> QED BY <2>3, <2>4, <2>5, BytesAreInts
<1> DEFINE u == PutUnsafe(PutReserve(w, n), t)
           v == WriteString(w, s)
           condition == chars.ok
<1>10. v = Require(u, condition)
  BY <1>6
<1> HIDE DEF t, chars
<1>8. SoundWriter(u) /\ u.os.data = w.os.data \o t
  BY <1>3, <1>7, ReservedPut
<1> HIDE DEF u, v, condition
<1>9. SoundWriter(v) /\ v.os.data = w.os.data \o t /\ (v.ok => condition)
  BY <1>8, <1>10, RequireSound
<1> QED BY <1>9 DEF t, v, chars, end, condition

(* A line break and its indentation.                                       *)
LEMMA NewLineSound ==
  ASSUME NEW w, SoundWriter(w)
  PROVE  SoundWriter(NewLine(w)) /\ NewLine(w).levels = w.levels
<1> DEFINE v == Put(w, Newline)
           n == Len(v.levels) * Indent
           blanks == [i \in 1..n |-> Space]
<1>1. SoundWriter(v) /\ v.levels = w.levels
  <2>1. Newline \in Int
    BY DEF Newline
  <2> QED BY <2>1, PutSound
<1>2. n \in Nat
  <2>1. Len(v.levels) \in Nat /\ Indent \in Nat
    BY <1>1, FieldsOf, WriterAssumption
  <2>2. \A a, b \in Nat : a * b \in Nat
    OBVIOUS
  <2> QED BY <2>1, <2>2
<1>3. NewLine(w) = [v EXCEPT !.os = Push(@, blanks)]
  BY DEF NewLine, WriteIndent
<1> HIDE DEF v, n
<1>4. blanks \in Seq(Int)
  BY <1>2 DEF Space
<1> HIDE DEF blanks
<1> QED BY <1>1, <1>3, <1>4, PushedSound

(* The comma, colon, line break or space before a value.                   *)
LEMMA SeparatorSound ==
  ASSUME NEW w, SoundWriter(w), NEW level
  PROVE  SoundWriter(Separator(w, level)) /\ Separator(w, level).levels = w.levels
<1> DEFINE after(c) == IF level.count > 0 THEN Put(w, c) ELSE w
<1>1. ASSUME NEW c \in Int PROVE SoundWriter(after(c)) /\ after(c).levels = w.levels
  <2>1. SoundWriter(Put(w, c)) /\ Put(w, c).levels = w.levels
    BY PutSound
  <2> QED BY <2>1
<1>2. Comma \in Int /\ Colon \in Int /\ Space \in Int
  BY DEF Comma, Colon, Space
<1>3. \/ Separator(w, level) = NewLine(after(Comma))
      \/ Separator(w, level) = after(Comma)
      \/ Separator(w, level) = Put(after(Colon), Space)
      \/ Separator(w, level) = after(Colon)
  BY DEF Separator
<1> HIDE DEF after
<1>4. /\ SoundWriter(after(Comma)) /\ after(Comma).levels = w.levels
      /\ SoundWriter(after(Colon)) /\ after(Colon).levels = w.levels
  BY <1>1, <1>2
<1>5. /\ SoundWriter(NewLine(after(Comma))) /\ NewLine(after(Comma)).levels = w.levels
      /\ SoundWriter(Put(after(Colon), Space)) /\ Put(after(Colon), Space).levels = w.levels
  BY <1>2, <1>4, NewLineSound, PutSound
<1> QED BY <1>3, <1>4, <1>5

(* Before a value: the root, or one value more of the innermost level.     *)
LEMMA PrefixSound ==
  ASSUME NEW w, SoundWriter(w), NEW type
  PROVE  SoundWriter(Prefix(w, type))
<1> DEFINE n == Len(w.levels)
           level == w.levels[n]
           named == level.inArray \/ level.count % 2 = 1 \/ type = "String"
           v == Require(Separator(w, level), named)
           more == [w.levels EXCEPT ![n].count = @ + 1]
<1>1. CASE w.levels = <<>>
  <2>1. Prefix(w, type) = [Require(w, ~w.root) EXCEPT !.root = TRUE]
    BY <1>1 DEF Prefix
  <2>2. SoundWriter(Require(w, ~w.root))
    BY RequireSound
  <2>3. TRUE \in BOOLEAN
    OBVIOUS
  <2> DEFINE v1 == Require(w, ~w.root)
  <2> HIDE DEF v1
  <2>4. SoundWriter(v1) /\ Prefix(w, type) = [v1 EXCEPT !.root = TRUE]
    BY <2>1, <2>2 DEF v1
  <2> QED BY <2>3, <2>4, RootReplaced
<1>2. CASE w.levels # <<>>
  <2>1. w.levels \in Seq(Levels) /\ n \in Nat /\ n >= 1
    BY <1>2, FieldsOf
  <2>2. more \in Seq(Levels)
    <3>1. level \in Levels
      BY <2>1
    <3>2. [level EXCEPT !.count = @ + 1] \in Levels
      BY <3>1 DEF Levels
    <3> DEFINE next == [level EXCEPT !.count = @ + 1]
    <3>3. more = [w.levels EXCEPT ![n] = next]
      OBVIOUS
    <3>4. next \in Levels
      BY <3>2
    <3> HIDE DEF next, more
    <3> QED BY <2>1, <3>3, <3>4
  <2>3. SoundWriter(v) /\ v.levels = w.levels
    <3>1. SoundWriter(Separator(w, level)) /\ Separator(w, level).levels = w.levels
      BY SeparatorSound
    <3> HIDE DEF named, level
    <3> QED BY <3>1, RequireSound
  <2>4. Prefix(w, type) = [v EXCEPT !.levels[n].count = @ + 1]
    BY <1>2 DEF Prefix
  <2> HIDE DEF v
  <2>5. Prefix(w, type) = [v EXCEPT !.levels = more]
    BY <2>3, <2>4
  <2> HIDE DEF more
  <2> QED BY <2>2, <2>3, <2>5, LevelsReplaced
<1> QED BY <1>1, <1>2

(* StartObject() and StartArray().                                         *)
LEMMA OpenSound ==
  ASSUME NEW w, SoundWriter(w), NEW inArray \in BOOLEAN
  PROVE  SoundWriter(Open(w, inArray))
<1> DEFINE p == Prefix(w, IF inArray THEN "Array" ELSE "Object")
           level == [count |-> 0, inArray |-> inArray]
           l == Append(p.levels, level)
           bracket == IF inArray THEN LBracket ELSE LBrace
<1>1. SoundWriter(p)
  BY PrefixSound
<1>2. Open(w, inArray) = Put([p EXCEPT !.levels = l], bracket)
  BY DEF Open
<1>3. bracket \in Int
  <2>1. LBracket \in Int /\ LBrace \in Int
    BY DEF LBracket, LBrace
  <2> QED BY <2>1
<1> HIDE DEF p, bracket
<1>4. level \in Levels
  BY DEF Levels
<1> HIDE DEF level
<1>5. l \in Seq(Levels)
  BY <1>1, <1>4, FieldsOf
<1> HIDE DEF l
<1>6. SoundWriter([p EXCEPT !.levels = l])
  BY <1>1, <1>5, LevelsReplaced
<1> QED BY <1>2, <1>3, <1>6, PutSound

(* EndObject() and EndArray(), with nothing to end as well.                *)
LEMMA EndSound ==
  ASSUME NEW w, SoundWriter(w), NEW inArray \in BOOLEAN
  PROVE  SoundWriter(End(w, inArray))
<1> DEFINE level == w.levels[Len(w.levels)]
           v == Require(w, level.inArray = inArray)
           popped == [v EXCEPT !.levels = Front(@)]
           line == IF w.pretty /\ level.count > 0 THEN NewLine(popped) ELSE popped
           bracket == IF inArray THEN RBracket ELSE RBrace
<1>1. CASE w.levels = <<>>
  <2>1. End(w, inArray) = Require(w, FALSE)
    BY <1>1 DEF End
  <2> QED BY <2>1, RequireSound
<1>2. CASE w.levels # <<>>
  <2>1. SoundWriter(v) /\ v.levels = w.levels
    BY RequireSound
  <2>2. End(w, inArray) = Put(line, bracket)
    BY <1>2 DEF End
  <2>3. bracket \in Int
    <3>1. RBracket \in Int /\ RBrace \in Int
      BY DEF RBracket, RBrace
    <3> QED BY <3>1
  <2> HIDE DEF v, bracket
  <2>4. Front(v.levels) \in Seq(Levels)
    <3>1. w.levels \in Seq(Levels) /\ Len(w.levels) \in Nat /\ Len(w.levels) # 0
      BY <1>2, FieldsOf
    <3>2. Front(v.levels) = SubSeq(w.levels, 1, Len(w.levels) - 1)
      BY <2>1 DEF Front
    <3>3. \A i \in 1..Len(w.levels) - 1 : w.levels[i] \in Levels
      BY <3>1
    <3> QED BY <3>1, <3>2, <3>3, SubSeqProperties
  <2>5. SoundWriter(popped)
    BY <2>1, <2>4, LevelsReplaced
  <2> HIDE DEF popped
  <2>6. SoundWriter(line)
    <3>1. SoundWriter(NewLine(popped))
      BY <2>5, NewLineSound
    <3> QED BY <2>5, <3>1
  <2> HIDE DEF line
  <2> QED BY <2>2, <2>3, <2>6, PutSound
<1> QED BY <1>1, <1>2

-----------------------------------------------------------------------------
(* Any sequence of calls of a writer. *)

\* The events of the handler, with the values the code's types have.
Events == [k : {"StartObject", "EndObject", "StartArray", "EndArray", "Null", "True", "False"}]
            \cup [k : {"String", "Key"}, s : Seq(Byte)]
            \cup [k : {"Int"}, v : Int32] \cup [k : {"Uint"}, v : Uint32]
            \cup [k : {"Int64"}, v : Int64] \cup [k : {"Uint64"}, v : Uint64]

WriterInit == \E pretty, unicode \in BOOLEAN : writer = NewWriter(pretty, unicode)
Called == \E event \in Events : writer' = Write(writer, event)
TextTaken == writer' = GetString(writer)
WriterSpec == WriterInit /\ [][Called \/ TextTaken]_writer

(* A new writer is sound.                                                  *)
LEMMA NewWriterSound ==
  ASSUME NEW pretty \in BOOLEAN, NEW unicode \in BOOLEAN
  PROVE  SoundWriter(NewWriter(pretty, unicode))
<1> DEFINE k == NewStack(BufferCapacity)
<1>1. Sound(k)
  BY NewStackSound, WriterAssumption
<1>2. k \in Stacks
  BY <1>1 DEF Sound, Stacks
<1>3. NewWriter(pretty, unicode) = [os |-> k, levels |-> <<>>, root |-> FALSE, ok |-> TRUE,
                                    pretty |-> pretty, unicode |-> unicode]
  BY DEF NewWriter
<1> HIDE DEF k
<1>4. NewWriter(pretty, unicode) \in Writers
  BY <1>2, <1>3 DEF Writers
<1>5. NewWriter(pretty, unicode).os = k
  BY <1>3
<1> QED BY <1>1, <1>4, <1>5 DEF SoundWriter

(* The terminator GetString() pushes is popped again.                      *)
LEMMA GetStringSound ==
  ASSUME NEW w, SoundWriter(w)
  PROVE  SoundWriter(GetString(w))
<1> DEFINE k == Push(w.os, <<Nul>>)
<1>1. <<Nul>> \in Seq(Int) /\ Len(<<Nul>>) = 1
  BY DEF Nul
<1>2. Sound(w.os) /\ w.os.data \in Seq(Int)
  BY FieldsOf DEF Sound
<1>3. Sound(k) /\ k.data = w.os.data \o <<Nul>>
  BY <1>1, <1>2, PushSound
<1>4. 1 <= Len(k.data)
  <2>1. Len(w.os.data \o <<Nul>>) = Len(w.os.data) + 1 /\ Len(w.os.data) \in Nat
    BY <1>1, <1>2, ConcatProperties
  <2> HIDE DEF k
  <2> QED BY <1>3, <2>1
<1>5. GetString(w) = [w EXCEPT !.os = Pop(k, 1)]
  BY DEF GetString
<1> HIDE DEF k
<1>6. Sound(Pop(k, 1))
  BY <1>3, <1>4, PopSound
<1> QED BY <1>5, <1>6, BufferReplaced

(* The letters of the literals.                                            *)
LEMMA LettersAreTexts ==
  NullLetters \in Seq(Int) /\ TrueLetters \in Seq(Int) /\ FalseLetters \in Seq(Int)
BY DEF NullLetters, TrueLetters, FalseLetters

(* No call of a writer, whatever its argument, breaks the invariant.       *)
LEMMA CallSound ==
  ASSUME NEW w, SoundWriter(w), NEW event \in Events
  PROVE  SoundWriter(Write(w, event))
<1>1. CASE event \in [k : {"StartObject", "EndObject", "StartArray", "EndArray",
                           "Null", "True", "False"}]
  <2>1. /\ SoundWriter(Open(w, FALSE)) /\ SoundWriter(Open(w, TRUE))
        /\ SoundWriter(End(w, FALSE)) /\ SoundWriter(End(w, TRUE))
    BY OpenSound, EndSound
  <2>2. SoundWriter(Prefix(w, event.k))
    BY PrefixSound
  <2>3. /\ SoundWriter(WriteText(Prefix(w, event.k), NullLetters))
        /\ SoundWriter(WriteText(Prefix(w, event.k), TrueLetters))
        /\ SoundWriter(WriteText(Prefix(w, event.k), FalseLetters))
    BY <2>2, WriteTextSound, LettersAreTexts
  <2>4. event.k \in {"StartObject", "EndObject", "StartArray", "EndArray", "Null", "True", "False"}
    BY <1>1
  <2>5. \/ Write(w, event) = Open(w, FALSE) \/ Write(w, event) = Open(w, TRUE)
        \/ Write(w, event) = End(w, FALSE) \/ Write(w, event) = End(w, TRUE)
        \/ Write(w, event) = WriteText(Prefix(w, event.k), NullLetters)
        \/ Write(w, event) = WriteText(Prefix(w, event.k), TrueLetters)
        \/ Write(w, event) = WriteText(Prefix(w, event.k), FalseLetters)
    BY <2>4 DEF Write
  <2> QED BY <2>1, <2>3, <2>5
<1>2. CASE event \in [k : {"String", "Key"}, s : Seq(Byte)]
  <2>1. event.k \in {"String", "Key"} /\ event.s \in Seq(Byte)
    BY <1>2
  <2>2. Write(w, event) = WriteString(Prefix(w, "String"), event.s)
    BY <2>1 DEF Write
  <2>3. SoundWriter(Prefix(w, "String"))
    BY PrefixSound
  <2>4. SoundWriter(WriteString(Prefix(w, "String"), event.s))
    BY <2>1, <2>3, WriteStringSound
  <2> QED BY <2>2, <2>4
<1> DEFINE p == Prefix(w, "Number")
<1>3. SoundWriter(p)
  BY PrefixSound
<1>4. CASE event \in [k : {"Int"}, v : Int32]
  <2>1. event.k = "Int" /\ event.v \in Int32
    BY <1>4
  <2>2. Write(w, event) = WriteNumber(p, 11, i32toa(event.v))
    BY <2>1 DEF Write
  <2> HIDE DEF p
  <2> QED BY <1>3, <2>1, <2>2, NumbersFit, WriteNumberSound
<1>5. CASE event \in [k : {"Uint"}, v : Uint32]
  <2>1. event.k = "Uint" /\ event.v \in Uint32
    BY <1>5
  <2>2. Write(w, event) = WriteNumber(p, 10, u32toa(event.v))
    BY <2>1 DEF Write
  <2> HIDE DEF p
  <2> QED BY <1>3, <2>1, <2>2, NumbersFit, WriteNumberSound
<1>6. CASE event \in [k : {"Int64"}, v : Int64]
  <2>1. event.k = "Int64" /\ event.v \in Int64
    BY <1>6
  <2>2. Write(w, event) = WriteNumber(p, 21, i64toa(event.v))
    BY <2>1 DEF Write
  <2> HIDE DEF p
  <2> QED BY <1>3, <2>1, <2>2, NumbersFit, WriteNumberSound
<1>7. CASE event \in [k : {"Uint64"}, v : Uint64]
  <2>1. event.k = "Uint64" /\ event.v \in Uint64
    BY <1>7
  <2>2. Write(w, event) = WriteNumber(p, 20, u64toa(event.v))
    BY <2>1 DEF Write
  <2> HIDE DEF p
  <2> QED BY <1>3, <2>1, <2>2, NumbersFit, WriteNumberSound
<1> QED BY <1>1, <1>2, <1>4, <1>5, <1>6, <1>7 DEF Events

(* Whatever calls a writer is given, in whatever order and with whatever   *)
(* strings and numbers, its buffer never takes a byte that was not         *)
(* reserved: the room for a string is enough for all its escapes.          *)
THEOREM WritersAreSound == WriterSpec => []SoundWriter(writer)
<1>1. WriterInit => SoundWriter(writer)
  BY NewWriterSound DEF WriterInit
<1>2. SoundWriter(writer) /\ [Called \/ TextTaken]_writer => SoundWriter(writer)'
  <2> SUFFICES ASSUME SoundWriter(writer), [Called \/ TextTaken]_writer
               PROVE  SoundWriter(writer')
    OBVIOUS
  <2>1. CASE Called
    BY <2>1, CallSound DEF Called
  <2>2. CASE TextTaken
    BY <2>2, GetStringSound DEF TextTaken
  <2>3. CASE UNCHANGED writer
    BY <2>3
  <2> QED BY <2>1, <2>2, <2>3
<1> QED BY <1>1, <1>2, PTL DEF WriterSpec

(* JsonWriter!WrittenIsReserved for every string, number and sequence of   *)
(* calls: WriteString() asks for 2 + 6n bytes, or 2 + 12n where the target *)
(* is not UTF-8, and its loop, which puts bytes without asking again,      *)
(* writes no more of n.                                                    *)
THEOREM WrittenInReserve == WriterSpec => []WrittenIsReserved
<1>1. SoundWriter(writer) => WrittenIsReserved
  BY DEF SoundWriter, Sound, WrittenIsReserved
<1> QED BY <1>1, WritersAreSound, PTL

-----------------------------------------------------------------------------
(* What is written is read back. *)

\* t lies in the text of x from q on.
Holds(x, q, t) ==
    /\ q >= 1 /\ q + Len(t) <= Len(x.text) + 1
    /\ \A i \in 1..Len(t) : x.text[q + i - 1] = t[i]

(* Peek() finds what the text holds.                                       *)
LEMMA PeekHeld ==
  ASSUME NEW x, x.text \in Seq(Byte), NEW q \in Nat, NEW t \in Seq(Byte), Holds(x, q, t),
         NEW i \in Nat, i < Len(t)
  PROVE  Peek(x, q + i) = t[i + 1]
<1>1. Len(t) \in Nat /\ Len(x.text) \in Nat
  OBVIOUS
<1>2. i + 1 \in 1..Len(t) /\ q + i \in 1..Len(x.text) /\ q + (i + 1) - 1 = q + i
  BY <1>1 DEF Holds
<1>3. x.text[q + (i + 1) - 1] = t[i + 1]
  BY <1>2 DEF Holds
<1> QED BY <1>2, <1>3 DEF Peek

(* Four digits are read as the code unit they were printed of.             *)
LEMMA HexRead ==
  ASSUME NEW x, NEW p \in Nat, NEW n \in Unit,
         Peek(x, p) = HexOf(D1(n)), Peek(x, p + 1) = HexOf(D2(n)),
         Peek(x, p + 2) = HexOf(D3(n)), Peek(x, p + 3) = HexOf(D4(n))
  PROVE  ParseHex4(x, p) = n
<1> DEFINE h(i) == HexDigit(Peek(x, p + i))
<1>1. /\ D1(n) \in 0..15 /\ D2(n) \in 0..15 /\ D3(n) \in 0..15 /\ D4(n) \in 0..15
      /\ n = D1(n) * 4096 + D2(n) * 256 + D3(n) * 16 + D4(n)
  BY HexDigitsIs
<1>2. h(0) = D1(n) /\ h(1) = D2(n) /\ h(2) = D3(n) /\ h(3) = D4(n)
  <2>1. p + 0 = p
    OBVIOUS
  <2>2. /\ HexDigit(HexOf(D1(n))) = D1(n) /\ HexDigit(HexOf(D2(n))) = D2(n)
        /\ HexDigit(HexOf(D3(n))) = D3(n) /\ HexDigit(HexOf(D4(n))) = D4(n)
    BY <1>1, HexOfIs
  <2> QED BY <2>1, <2>2
<1>3. ParseHex4(x, p) = IF \E i \in 0..3 : h(i) = -1 THEN -1
                        ELSE h(0) * 4096 + h(1) * 256 + h(2) * 16 + h(3)
  BY DEF ParseHex4
<1> HIDE DEF h
<1>4. ~ \E i \in 0..3 : h(i) = -1
  BY <1>1, <1>2
<1> QED BY <1>1, <1>2, <1>3, <1>4

(* The escape of a code unit at q, as PeekHeld finds it in the text.       *)
LEMMA UnitHeld ==
  ASSUME NEW x, x.text \in Seq(Byte), NEW q \in Nat, NEW n \in Unit,
         Holds(x, q, UnitEscape(n))
  PROVE  /\ Peek(x, q) = Backslash /\ Peek(x, q + 1) = LowerU
         /\ ParseHex4(x, q + 2) = n
<1> DEFINE t == UnitEscape(n)
<1>1. /\ t \in Seq(Byte) /\ Len(t) = 6 /\ t[1] = Backslash /\ t[2] = LowerU
      /\ t[3] = HexOf(D1(n)) /\ t[4] = HexOf(D2(n)) /\ t[5] = HexOf(D3(n)) /\ t[6] = HexOf(D4(n))
  BY UnitEscapeIs
<1> HIDE DEF t
<1>2. ASSUME NEW i \in 0..5 PROVE Peek(x, q + i) = t[i + 1]
  <2>1. i \in Nat /\ i < Len(t)
    BY <1>1
  <2> QED BY <1>1, <2>1, PeekHeld DEF t
<1>3. /\ Peek(x, q) = t[1] /\ Peek(x, q + 1) = t[2] /\ Peek(x, q + 2) = t[3]
      /\ Peek(x, q + 3) = t[4] /\ Peek(x, q + 4) = t[5] /\ Peek(x, q + 5) = t[6]
  <2>1. /\ Peek(x, q + 0) = t[0 + 1] /\ Peek(x, q + 1) = t[1 + 1] /\ Peek(x, q + 2) = t[2 + 1]
        /\ Peek(x, q + 3) = t[3 + 1] /\ Peek(x, q + 4) = t[4 + 1] /\ Peek(x, q + 5) = t[5 + 1]
    BY <1>2
  <2> QED BY <2>1
<1>4. ParseHex4(x, q + 2) = n
  <2>1. q + 2 \in Nat /\ (q + 2) + 1 = q + 3 /\ (q + 2) + 2 = q + 4 /\ (q + 2) + 3 = q + 5
    OBVIOUS
  <2> QED BY <1>1, <1>3, <2>1, HexRead
<1> QED BY <1>1, <1>3, <1>4

(* Of two texts one after the other each is held at its place.             *)
LEMMA PartsHeld ==
  ASSUME NEW x, x.text \in Seq(Byte), NEW q \in Nat, NEW s \in Seq(Byte), NEW t \in Seq(Byte),
         Holds(x, q, s \o t)
  PROVE  Holds(x, q, s) /\ Holds(x, q + Len(s), t)
<1> DEFINE a == Len(s)
           b == Len(t)
           n == Len(x.text)
           st == s \o t
<1>1. /\ Len(st) = a + b /\ a \in Nat /\ b \in Nat /\ n \in Nat
      /\ \A i \in 1..a + b : st[i] = IF i <= a THEN s[i] ELSE t[i - a]
  BY ConcatProperties
<1>2. /\ q >= 1 /\ q + (a + b) <= n + 1
      /\ \A i \in 1..a + b : x.text[q + i - 1] = st[i]
  BY <1>1 DEF Holds
<1> HIDE DEF a, b, n, st
<1>3. \A i \in 1..a : x.text[q + i - 1] = s[i]
  BY <1>1, <1>2
<1>4. ASSUME NEW i \in 1..b PROVE x.text[(q + a) + i - 1] = t[i]
  <2>1. a + i \in 1..a + b /\ ~(a + i <= a) /\ (a + i) - a = i /\ q + (a + i) - 1 = (q + a) + i - 1
    BY <1>1
  <2>2. st[a + i] = t[i]
    BY <1>1, <2>1
  <2>3. x.text[q + (a + i) - 1] = st[a + i]
    BY <1>2, <2>1
  <2> QED BY <2>1, <2>2, <2>3
<1>5. q + a <= n + 1 /\ q + a >= 1 /\ (q + a) + b <= n + 1
  BY <1>1, <1>2
<1>6. Holds(x, q, s)
  BY <1>2, <1>3, <1>5 DEF Holds, a, n
<1>7. Holds(x, q + a, t)
  BY <1>4, <1>5 DEF Holds, b, n
<1> QED BY <1>6, <1>7 DEF a

(* A code unit that is no surrogate is its code point.                     *)
LEMMA CodepointAlone ==
  ASSUME NEW x, NEW q, NEW c \in ScalarValues
  PROVE  Codepoint(x, q, c) = [err |-> "None", code |-> c, at |-> q + 6]
<1>1. c \in Nat /\ ~(55296 <= c /\ c <= 57343)
  BY SMT DEF ScalarValues
<1>2. c # -1 /\ c \notin 55296..56319
  BY <1>1, SMT
<1> QED BY <1>2, SMT DEF Codepoint

(* The escape of a code point is read as that code point.                  *)
LEMMA CodepointRead ==
  ASSUME NEW x, x.text \in Seq(Byte), NEW q \in Nat, NEW c \in ScalarValues,
         Holds(x, q, EscapeCodepoint(c))
  PROVE  /\ Peek(x, q) = Backslash /\ Peek(x, q + 1) = LowerU
         /\ Codepoint(x, q, ParseHex4(x, q + 2)) =
              [err |-> "None", code |-> c, at |-> q + Len(EscapeCodepoint(c))]
<1>1. CASE c \notin Beyond
  <2>1. /\ c \in Unit /\ EscapeCodepoint(c) = UnitEscape(c) /\ Len(EscapeCodepoint(c)) = 6
    BY <1>1, EscapeCodepointType
  <2>2. Peek(x, q) = Backslash /\ Peek(x, q + 1) = LowerU /\ ParseHex4(x, q + 2) = c
    BY <2>1, UnitHeld
  <2>4. Codepoint(x, q, c) = [err |-> "None", code |-> c, at |-> q + 6]
    BY CodepointAlone
  <2> QED BY <2>1, <2>2, <2>4
<1>2. CASE c \in Beyond
  <2> DEFINE h == High(c)
             l == Low(c)
  <2>1. /\ h \in Unit /\ h >= 55296 /\ h <= 56319
        /\ l \in Unit /\ l >= 56320 /\ l <= 57343
        /\ c = (h - 55296) * 1024 + (l - 56320) + 65536
    BY <1>2, PairIs, SMT
  <2>e. EscapeCodepoint(c) = UnitEscape(h) \o UnitEscape(l)
    BY <1>2, PairIs, SMT
  <2>2. Len(EscapeCodepoint(c)) = 12
    BY <1>2, EscapeCodepointType
  <2> HIDE DEF h, l
  <2>3. /\ UnitEscape(h) \in Seq(Byte) /\ Len(UnitEscape(h)) = 6
        /\ UnitEscape(l) \in Seq(Byte) /\ Len(UnitEscape(l)) = 6
    BY <2>1, UnitEscapeIs
  <2>4. Holds(x, q, UnitEscape(h)) /\ Holds(x, q + 6, UnitEscape(l))
    <3>1. Holds(x, q, UnitEscape(h) \o UnitEscape(l))
      BY <2>e
    <3>2. Holds(x, q, UnitEscape(h)) /\ Holds(x, q + Len(UnitEscape(h)), UnitEscape(l))
      BY <2>3, <3>1, PartsHeld
    <3> QED BY <2>3, <3>2
  <2>5. Peek(x, q) = Backslash /\ Peek(x, q + 1) = LowerU /\ ParseHex4(x, q + 2) = h
    BY <2>1, <2>4, UnitHeld
  <2>6. Peek(x, q + 6) = Backslash /\ Peek(x, q + 7) = LowerU /\ ParseHex4(x, q + 8) = l
    <3>1. q + 6 \in Nat /\ (q + 6) + 1 = q + 7 /\ (q + 6) + 2 = q + 8
      OBVIOUS
    <3>2. /\ Peek(x, q + 6) = Backslash /\ Peek(x, (q + 6) + 1) = LowerU
          /\ ParseHex4(x, (q + 6) + 2) = l
      BY <2>1, <2>4, <3>1, UnitHeld
    <3> QED BY <3>1, <3>2
  <2>7. h # -1 /\ h \in 55296..56319 /\ l # -1 /\ l \in 56320..57343
    BY <2>1, SMT DEF Unit
  <2>8. Codepoint(x, q, h) =
          [err |-> "None", at |-> q + 12, code |-> (h - 55296) * 1024 + (l - 56320) + 65536]
    <3>1. Codepoint(x, q, h) = SurrogatePair(q, h, l)
      BY <2>6, <2>7, SMT DEF Codepoint
    <3>2. SurrogatePair(q, h, l) =
            [err |-> "None", at |-> q + 12, code |-> (h - 55296) * 1024 + (l - 56320) + 65536]
      BY <2>7, SMT DEF SurrogatePair
    <3> QED BY <3>1, <3>2
  <2>9. Codepoint(x, q, h) = [err |-> "None", at |-> q + 12, code |-> c]
    BY <2>1, <2>8, SMT
  <2> QED BY <2>2, <2>5, <2>9
<1> QED BY <1>1, <1>2

\* The loop stands before the byte at q with z read of the string; it has
\* stopped there.
Position(c, q, z, ev, err) ==
    c = [r |-> [at |-> q, ev |-> ev, err |-> err], s |-> z, open |-> c.open]
Stands(c, q, z, ev, err)  == Position(c, q, z, ev, err) /\ c.open = TRUE
Stopped(c, q, z, ev, err) == Position(c, q, z, ev, err) /\ c.open = FALSE

(* A reading that goes on.                                                 *)
LEMMA ReadingTaken ==
  ASSUME NEW c, NEW q, NEW z, NEW ev, NEW err, Stands(c, q, z, ev, err),
         NEW d, NEW at, NEW s, d = [c EXCEPT !.r.at = at, !.s = s]
  PROVE  Stands(d, at, s, ev, err)
<1>1. c = [r |-> [at |-> q, ev |-> ev, err |-> err], s |-> z, open |-> c.open]
  BY DEF Stands, Position
<1>2. d = [r |-> [at |-> at, ev |-> ev, err |-> err], s |-> s, open |-> c.open]
  <2> DEFINE r == [c.r EXCEPT !.at = at]
  <2>1. r = [at |-> at, ev |-> ev, err |-> err]
    <3>1. c.r = [at |-> q, ev |-> ev, err |-> err]
      BY <1>1
    <3> QED BY <3>1
  <2>2. d = [c EXCEPT !.r = r, !.s = s]
    OBVIOUS
  <2> HIDE DEF r
  <2>3. d = [r |-> r, s |-> s, open |-> c.open]
    BY <1>1, <2>2
  <2> QED BY <2>1, <2>3
<1>3. d.open = c.open
  BY <1>2
<1> QED BY <1>2, <1>3 DEF Stands, Position

(* A reading that stops.                                                   *)
LEMMA ReadingStopped ==
  ASSUME NEW c, NEW q, NEW z, NEW ev, NEW err, Stands(c, q, z, ev, err),
         NEW d, d = [c EXCEPT !.r = Take(c.r), !.open = FALSE]
  PROVE  Stopped(d, q + 1, z, ev, err)
<1>1. c = [r |-> [at |-> q, ev |-> ev, err |-> err], s |-> z, open |-> c.open]
  BY DEF Stands, Position
<1>2. Take(c.r) = [at |-> q + 1, ev |-> ev, err |-> err]
  BY <1>1 DEF Take
<1>3. d.open = FALSE /\ d.r = Take(c.r) /\ d.s = c.s
  BY <1>1
<1>4. d = [r |-> Take(c.r), s |-> c.s, open |-> d.open]
  BY <1>1, <1>3
<1>5. c.s = z
  BY <1>1
<1> QED BY <1>2, <1>3, <1>4, <1>5 DEF Stopped, Position

(* Peek() gives a byte.                                                    *)
LEMMA PeekType ==
  ASSUME NEW x, x.text \in Seq(Byte), NEW q \in Int
  PROVE  Peek(x, q) \in Byte
<1>1. CASE q \in 1..Len(x.text)
  <2>1. x.text[q] \in Byte
    BY <1>1
  <2> QED BY <1>1, <2>1 DEF Peek
<1>2. CASE q \notin 1..Len(x.text)
  BY <1>2 DEF Peek, Byte, Nul
<1> QED BY <1>1, <1>2

(* A turn of the reader, by the byte it meets.                             *)
LEMMA StringTurnIs ==
  ASSUME NEW x, x.text \in Seq(Byte), "ValidateEncoding" \notin x.flags,
         NEW q \in Nat, NEW z \in Seq(Byte), NEW ev, NEW err, NEW c, Stands(c, q, z, ev, err)
  PROVE  LET b == Peek(x, q)
             e == Peek(x, q + 1)
             u == Codepoint(x, q, ParseHex4(x, q + 2))
             next == StringTurn(x, c)
         IN  /\ b = Backslash /\ e \in DOMAIN Escape =>
                  Stands(next, q + 2, z \o <<Escape[e]>>, ev, err)
             /\ b = Backslash /\ e = LowerU /\ u.err = "None" /\ u.at \in Nat =>
                  Stands(next, u.at, z \o Encode(u.code), ev, err)
             /\ b = Quote => Stopped(next, q + 1, z, ev, err)
             /\ b >= 32 /\ b # Quote /\ b # Backslash =>
                  Stands(next, q + 1, z \o SubSeq(x.text, q, q), ev, err)
<1> DEFINE b == Peek(x, q)
           e == Peek(x, q + 1)
           u == Codepoint(x, q, ParseHex4(x, q + 2))
           next == StringTurn(x, c)
           on(k, t) == [c EXCEPT !.r.at = @ + k, !.s = @ \o t]
           stop(r) == [c EXCEPT !.r = r, !.open = FALSE]
<1>1. c.r.at = q /\ c.open = TRUE /\ c.s = z
  <2>1. c = [r |-> [at |-> q, ev |-> ev, err |-> err], s |-> z, open |-> c.open] /\ c.open = TRUE
    BY DEF Stands, Position
  <2>2. c.s = z /\ c.r = [at |-> q, ev |-> ev, err |-> err]
    BY <2>1
  <2> QED BY <2>1, <2>2
<1>2. ASSUME NEW k, NEW t PROVE Stands(on(k, t), q + k, z \o t, ev, err)
  <2> DEFINE at == q + k
             s == z \o t
             d == on(k, t)
  <2>1. d = [c EXCEPT !.r.at = at, !.s = s]
    BY <1>1
  <2> HIDE DEF at, s, d, on
  <2>2. Stands(d, at, s, ev, err)
    BY <2>1, ReadingTaken
  <2> QED BY <2>2 DEF at, s, d
<1>3. Stopped(stop(Take(c.r)), q + 1, z, ev, err)
  <2> DEFINE d == stop(Take(c.r))
  <2>1. d = [c EXCEPT !.r = Take(c.r), !.open = FALSE]
    OBVIOUS
  <2> HIDE DEF d, stop
  <2>2. Stopped(d, q + 1, z, ev, err)
    BY <2>1, ReadingStopped
  <2> QED BY <2>2 DEF d
<1>4. next =
        IF b = Backslash
        THEN IF e \in DOMAIN Escape THEN on(2, <<Escape[e]>>)
             ELSE IF e = LowerU
                  THEN IF u.err # "None" THEN stop(Fail(c.r, u.err))
                       ELSE on(u.at - q, Encode(u.code))
             ELSE stop(Fail(c.r, "StringEscapeInvalid"))
        ELSE IF b = Quote THEN stop(Take(c.r))
        ELSE IF b = Nul THEN stop(Fail(c.r, "StringMissQuotationMark"))
        ELSE IF b < 32 THEN stop(Fail(c.r, "StringEscapeInvalid"))
        ELSE on(1, SubSeq(x.text, q, q))
  <2>1. q + 1 - 1 = q /\ 1 # 0
    OBVIOUS
  <2> QED BY <1>1, <2>1 DEF StringTurn
<1>5. LowerU \notin DOMAIN Escape
  BY DEF Escape, LowerU, Quote, Slash, Backslash
<1>6. Quote # Backslash /\ Nul < 32
  BY DEF Quote, Backslash, Nul
<1>b. b \in Int
  <2>1. b \in Byte
    BY PeekType
  <2> HIDE DEF b
  <2> QED BY <2>1 DEF Byte
<1> HIDE DEF b, e, u, on, stop, next
<1>7. b = Backslash /\ e \in DOMAIN Escape =>
        Stands(next, q + 2, z \o <<Escape[e]>>, ev, err)
  BY <1>2, <1>4
<1>8. b = Backslash /\ e = LowerU /\ u.err = "None" /\ u.at \in Nat =>
        Stands(next, u.at, z \o Encode(u.code), ev, err)
  <2>1. u.at \in Nat => q + (u.at - q) = u.at
    OBVIOUS
  <2>2. Stands(on(u.at - q, Encode(u.code)), q + (u.at - q), z \o Encode(u.code), ev, err)
    BY <1>2
  <2>3. b = Backslash /\ e = LowerU /\ u.err = "None" => next = on(u.at - q, Encode(u.code))
    BY <1>4, <1>5
  <2> QED BY <2>1, <2>2, <2>3
<1>9. b = Quote => Stopped(next, q + 1, z, ev, err)
  BY <1>3, <1>4, <1>6
<1>10. b >= 32 /\ b # Quote /\ b # Backslash =>
        Stands(next, q + 1, z \o SubSeq(x.text, q, q), ev, err)
  <2>1. b >= 32 => b # Nul /\ ~(b < 32)
    BY <1>6, <1>b DEF Nul
  <2> QED BY <1>2, <1>4, <2>1
<1> QED BY <1>7, <1>8, <1>9, <1>10 DEF b, e, u, next

(* The subsequence of one byte.                                            *)
LEMMA OneByte ==
  ASSUME NEW s \in Seq(Byte), NEW p \in 1..Len(s)
  PROVE  SubSeq(s, p, p) = <<s[p]>> /\ s[p] \in Byte
<1> DEFINE t == SubSeq(s, p, p)
<1>1. Len(s) \in Nat /\ p \in Nat /\ s[p] \in Byte
  OBVIOUS
<1>2. t \in Seq(Byte) /\ Len(t) = 1 /\ t[1] = s[p]
  <2>1. p \in 1..Len(s) + 1 /\ p \in 0..Len(s) /\ p - p + 1 = 1 /\ p + 1 - 1 = p
    BY <1>1
  <2>2. \A i \in p..p : s[i] \in Byte
    BY <1>1
  <2>3. t \in Seq(Byte) /\ Len(t) = p - p + 1
    BY <1>1, <2>1, SubSeqProperties
  <2>4. \A i \in 1..p - p + 1 : t[i] = s[p + i - 1]
    BY <1>1, <2>1, SubSeqProperties
  <2>5. t[1] = s[p + 1 - 1]
    BY <1>1, <2>1, <2>4
  <2> HIDE DEF t
  <2> QED BY <2>1, <2>3, <2>5
<1> HIDE DEF t
<1>3. t = <<t[1]>>
  BY <1>2
<1> QED BY <1>1, <1>2, <1>3 DEF t

(* The reader's table of escapes undoes the writer's.                      *)
LEMMA EscapesAgree ==
  ASSUME NEW b \in DOMAIN Escaped
  PROVE  Escaped[b] \in DOMAIN Escape /\ Escape[Escaped[b]] = b
<1>1. b \in {8, 9, 10, 12, 13, 34, 92}
  BY EscapedIs DEF Quote, Backslash
<1>2. DOMAIN Escape = {34, 47, 92, 98, 102, 110, 114, 116}
  BY DEF Escape, Quote, Slash, Backslash
<1>3. /\ Escape[34] = 34 /\ Escape[92] = 92 /\ Escape[98] = 8 /\ Escape[102] = 12
      /\ Escape[110] = 10 /\ Escape[114] = 13 /\ Escape[116] = 9
  BY <1>2 DEF Escape
<1>4. Escaped[b] = CASE b = 8 -> 98    [] b = 9 -> 116   [] b = 10 -> 110
                     [] b = 12 -> 102  [] b = 13 -> 114  [] OTHER -> b
  BY DEF Escaped
<1>5. /\ b = 8 => Escaped[b] = 98
      /\ b = 9 => Escaped[b] = 116
      /\ b = 10 => Escaped[b] = 110
      /\ b = 12 => Escaped[b] = 102
      /\ b = 13 => Escaped[b] = 114
      /\ b = 34 => Escaped[b] = 34
      /\ b = 92 => Escaped[b] = 92
  BY <1>4
<1> QED BY <1>1, <1>2, <1>3, <1>5

(* ASCII has no surrogates.                                                *)
LEMMA AsciiScalar ==
  ASSUME NEW b \in Nat, b <= 127
  PROVE  b \in ScalarValues /\ b \notin Beyond
BY SMT DEF ScalarValues, Beyond

(* One turn of the reader takes what one turn of the writer has put, and   *)
(* gives the bytes it was put for.                                         *)
LEMMA PieceRead ==
  ASSUME NEW x, x.text \in Seq(Byte), "ValidateEncoding" \notin x.flags,
         NEW src \in Seq(Byte), NEW unicode \in BOOLEAN, NEW p \in 1..Len(src), NEW k, NEW t,
         Piece(src, unicode, p, k, t),
         NEW q \in Nat, Holds(x, q, t), NEW z \in Seq(Byte), NEW ev, NEW err,
         NEW c, Stands(c, q, z, ev, err)
  PROVE  Stands(StringTurn(x, c), q + Len(t), z \o SubSeq(src, p, p + k - 1), ev, err)
<1> DEFINE b == src[p]
           next == StringTurn(x, c)
           part == SubSeq(src, p, p + k - 1)
<1> SUFFICES Stands(next, q + Len(t), z \o part, ev, err)
  OBVIOUS
<1>1. b \in Byte /\ p \in Nat
  OBVIOUS
<1>2. t \in Seq(Byte) /\ Len(t) \in 1..12 /\ k \in 1..4
  BY PieceIs
<1>3. k = 1 => part = <<b>>
  <2>1. k = 1 => p + k - 1 = p
    BY <1>1
  <2> QED BY <2>1, OneByte
<1>4. ASSUME NEW i \in Nat, i < Len(t) PROVE Peek(x, q + i) = t[i + 1]
  BY <1>2, <1>4, PeekHeld
<1>5. q + 0 = q /\ 0 + 1 = 1 /\ 1 + 1 = 2
  OBVIOUS
<1>6. Len(t) >= 1 => Peek(x, q) = t[1]
  <2>1. Len(t) >= 1 => 0 < Len(t)
    BY <1>2
  <2> QED BY <1>4, <1>5, <2>1
<1>7. Len(t) = 2 => Peek(x, q + 1) = t[2]
  <2>1. Len(t) = 2 => 1 < Len(t)
    BY <1>2
  <2> QED BY <1>4, <1>5, <2>1
<1>8. CASE k = 1 /\ t = <<b>> /\ b >= 32 /\ b # Quote /\ b # Backslash
  <2>1. Len(t) = 1 /\ t[1] = b
    BY <1>8
  <2>2. Peek(x, q) = b
    BY <1>6, <2>1
  <2>3. Stands(next, q + 1, z \o SubSeq(x.text, q, q), ev, err)
    BY <1>8, <2>2, StringTurnIs
  <2>4. q \in 1..Len(x.text) /\ x.text[q] = b
    <3>1. q >= 1 /\ q + 1 <= Len(x.text) + 1 /\ Len(x.text) \in Nat
      BY <2>1 DEF Holds
    <3>2. q \in 1..Len(x.text)
      BY <3>1
    <3> QED BY <2>2, <3>2 DEF Peek
  <2>5. SubSeq(x.text, q, q) = <<b>>
    BY <2>4, OneByte
  <2> HIDE DEF next, part, b
  <2> QED BY <1>3, <1>8, <2>1, <2>3, <2>5
<1>9. CASE k = 1 /\ t = <<Backslash, Escaped[b]>> /\ b \in DOMAIN Escaped
  <2>1. Len(t) = 2 /\ t[1] = Backslash /\ t[2] = Escaped[b]
    BY <1>9
  <2>2. Peek(x, q) = Backslash /\ Peek(x, q + 1) = Escaped[b]
    BY <1>6, <1>7, <2>1
  <2>3. Escaped[b] \in DOMAIN Escape /\ Escape[Escaped[b]] = b
    BY <1>9, EscapesAgree
  <2>4. Stands(next, q + 2, z \o <<Escape[Escaped[b]]>>, ev, err)
    BY <2>2, <2>3, StringTurnIs
  <2> HIDE DEF next, part, b
  <2> QED BY <1>3, <1>9, <2>1, <2>3, <2>4
<1>10. ASSUME NEW code \in ScalarValues, t = EscapeCodepoint(code), Encode(code) = part
       PROVE  Stands(next, q + Len(t), z \o part, ev, err)
  <2> DEFINE u == Codepoint(x, q, ParseHex4(x, q + 2))
  <2>1. /\ Peek(x, q) = Backslash /\ Peek(x, q + 1) = LowerU
        /\ u = [err |-> "None", code |-> code, at |-> q + Len(t)]
    BY <1>10, CodepointRead
  <2>2. u.err = "None" /\ u.at = q + Len(t) /\ u.code = code
    BY <2>1
  <2>3. u.at \in Nat
    BY <1>2, <2>2
  <2>4. Stands(next, u.at, z \o Encode(u.code), ev, err)
    BY <2>1, <2>2, <2>3, StringTurnIs
  <2> HIDE DEF u, next, part
  <2> QED BY <1>10, <2>2, <2>4
<1>11. CASE k = 1 /\ t = UnitEscape(b) /\ b < 32
  <2>1. b \in Nat /\ b <= 127
    <3>1. b \in Byte /\ b < 32
      BY <1>1, <1>11
    <3> HIDE DEF b
    <3> QED BY <3>1 DEF Byte
  <2>2. b \in ScalarValues
    BY <2>1, AsciiScalar
  <2>3. b \notin Beyond
    BY <2>1, AsciiScalar
  <2>4. t = EscapeCodepoint(b)
    BY <1>11, <2>2, <2>3, EscapeCodepointType
  <2>5. Encode(b) = <<b>>
    BY <2>1, EncodeIs
  <2> HIDE DEF b, part
  <2> QED BY <1>3, <1>10, <1>11, <2>2, <2>4, <2>5
<1>12. CASE k = Validated(src, p) /\ k # 0 /\ t = EscapeCodepoint(Decode(src, p)) /\ ~unicode
  <2>1. Decode(src, p) \in ScalarValues /\ Encode(Decode(src, p)) = part
    BY <1>12, DecodedComesBack
  <2> HIDE DEF part
  <2> QED BY <1>10, <1>12, <2>1
<1> QED BY <1>8, <1>9, <1>11, <1>12 DEF Piece

(* Later turns only append, once one has given up none succeeds, and none  *)
(* does anything after the end of the string.                              *)
LEMMA LaterTurns ==
  ASSUME NEW s \in Seq(Byte), NEW unicode \in BOOLEAN, NEW turn, CharTurns(turn, s, unicode),
         NEW j \in 0..Len(s), NEW k \in j..Len(s)
  PROVE  /\ Len(turn[j].out) <= Len(turn[k].out)
         /\ \A i \in 1..Len(turn[j].out) : turn[k].out[i] = turn[j].out[i]
         /\ turn[k].ok => turn[j].ok
         /\ turn[j].at = Len(s) + 1 => turn[k] = turn[j]
<1> DEFINE n == Len(s)
           c == turn[j]
           Later(d) == /\ Len(c.out) <= Len(d.out)
                       /\ \A i \in 1..Len(c.out) : d.out[i] = c.out[i]
                       /\ d.ok => c.ok
                       /\ c.at = n + 1 => d = c
           S == {m \in Nat : j <= m /\ m <= n => Later(turn[m])}
<1>1. n \in Nat /\ j \in Nat /\ k \in Nat /\ j <= k /\ k <= n
  OBVIOUS
<1>2. \A m \in 0..n : turn[m] \in CharStates(s) /\ Len(turn[m].out) \in Nat
  <2>1. \A m \in 0..n : turn[m] \in CharStates(s)
    BY DEF CharTurns
  <2>2. \A d \in CharStates(s) : Len(d.out) \in Nat
    BY DEF CharStates
  <2> QED BY <2>1, <2>2
<1>3. Later(c)
  BY <1>1, <1>2
<1>4. 0 \in S
  <2>1. j <= 0 => j = 0
    BY <1>1
  <2> HIDE DEF Later
  <2> QED BY <1>3, <2>1
<1>5. ASSUME NEW m \in Nat, m < n, m \in S PROVE m + 1 \in S
  <2>1. CASE m + 1 <= j
    <3>1. j <= m + 1 => turn[m + 1] = c
      BY <1>1, <2>1
    <3> HIDE DEF Later, c
    <3> QED BY <1>3, <3>1
  <2>2. CASE ~(m + 1 <= j)
    <3> DEFINE d == turn[m]
               e == turn[m + 1]
    <3>1. j <= m /\ m \in 0..n /\ m + 1 \in 1..n /\ m + 1 \in 0..n /\ (m + 1) - 1 = m
      BY <1>1, <1>5, <2>2
    <3>2. Later(d)
      BY <1>5, <3>1
    <3>3. d \in CharStates(s) /\ e = CharTurn(s, unicode, d)
      <4>1. turn[m + 1] = CharTurn(s, unicode, turn[(m + 1) - 1])
        BY <3>1 DEF CharTurns
      <4> QED BY <1>2, <3>1, <4>1
    <3>t. Len(c.out) \in Nat /\ Len(d.out) \in Nat /\ Len(e.out) \in Nat
      BY <1>1, <1>2, <3>1
    <3> HIDE DEF c, d, e
    <3>4. /\ Len(d.out) <= Len(e.out) /\ \A i \in 1..Len(d.out) : e.out[i] = d.out[i]
          /\ ~d.ok => ~e.ok
          /\ d.at = n + 1 => e = d
      BY <3>3, CharTurnType
    <3>5. Len(c.out) <= Len(e.out)
      BY <3>2, <3>4, <3>t
    <3>6. \A i \in 1..Len(c.out) : e.out[i] = c.out[i]
      <4>1. 1..Len(c.out) \subseteq 1..Len(d.out)
        BY <3>2, <3>t
      <4> QED BY <3>2, <3>4, <4>1
    <3>7. e.ok => c.ok
      BY <3>2, <3>4
    <3>8. c.at = n + 1 => e = c
      BY <3>2, <3>4
    <3>9. Later(e)
      BY <3>5, <3>6, <3>7, <3>8
    <3> HIDE DEF Later
    <3> QED BY <3>9 DEF e
  <2> QED BY <2>1, <2>2
<1> HIDE DEF S
<1>6. k \in S
  BY <1>1, <1>4, <1>5, BoundedInduction
<1>7. Later(turn[k])
  <2> HIDE DEF Later
  <2> QED BY <1>1, <1>6 DEF S
<1> QED BY <1>7

\* The text of x holds, from a on, what was written of s in the turns and
\* the quote after it.
Written(x, s, unicode, turn, a) ==
    /\ x.text \in Seq(Byte) /\ "ValidateEncoding" \notin x.flags
    /\ CharTurns(turn, s, unicode) /\ turn[Len(s)].ok
    /\ a \in Nat /\ Holds(x, a, turn[Len(s)].out \o <<Quote>>)

\* The reader is in step with the writer after k turns; it has the string.
InStep(c, s, turn, a, k, ev, err) ==
    /\ k <= Len(s) /\ k <= Len(turn[k].out)
    /\ Stands(c, a + Len(turn[k].out), SubSeq(s, 1, turn[k].at - 1), ev, err)
Ended(c, s, turn, a, ev, err) ==
    Stopped(c, a + Len(turn[Len(s)].out) + 1, s, ev, err)

(* A text that holds t holds what t begins with.                           *)
LEMMA HoldsPrefix ==
  ASSUME NEW x, x.text \in Seq(Byte), NEW q \in Nat, NEW s \in Seq(Byte), NEW t \in Seq(Byte),
         Holds(x, q, s), Len(t) <= Len(s), \A i \in 1..Len(t) : s[i] = t[i]
  PROVE  Holds(x, q, t)
<1>1. Len(s) \in Nat /\ Len(t) \in Nat /\ Len(x.text) \in Nat
  OBVIOUS
<1>2. 1..Len(t) \subseteq 1..Len(s)
  BY <1>1
<1>3. \A i \in 1..Len(t) : x.text[q + i - 1] = t[i]
  BY <1>2 DEF Holds
<1>4. q >= 1 /\ q + Len(t) <= Len(x.text) + 1
  <2>1. q >= 1 /\ q + Len(s) <= Len(x.text) + 1
    BY DEF Holds
  <2> QED BY <1>1, <2>1
<1> QED BY <1>3, <1>4 DEF Holds

(* What was read so far and the next k bytes.                              *)
LEMMA SubSeqJoin ==
  ASSUME NEW s \in Seq(Byte), NEW p \in 1..Len(s), NEW k \in Nat, k >= 1, p + k <= Len(s) + 1
  PROVE  SubSeq(s, 1, p - 1) \o SubSeq(s, p, p + k - 1) = SubSeq(s, 1, p + k - 1)
<1> DEFINE a == SubSeq(s, 1, p - 1)
           b == SubSeq(s, p, p + k - 1)
           c == SubSeq(s, 1, p + k - 1)
           m == p - 1
<1>1. Len(s) \in Nat /\ p \in Nat /\ m \in Nat /\ p = m + 1 /\ p + k - 1 = m + k /\ m + k <= Len(s)
  OBVIOUS
<1>2. /\ a \in Seq(Byte) /\ Len(a) = m /\ \A i \in 1..m : a[i] = s[i]
  <2>1. \A i \in 1..m : s[i] \in Byte
    BY <1>1
  <2>2. 1 \in Int /\ m \in Int /\ (IF 1 <= m THEN m - 1 + 1 ELSE 0) = m /\ m - 1 + 1 = m
    BY <1>1
  <2>3. a \in Seq(Byte) /\ Len(a) = IF 1 <= m THEN m - 1 + 1 ELSE 0
    BY <1>1, <2>1, SubSeqProperties
  <2>4. \A i \in 1..m - 1 + 1 : a[i] = s[1 + i - 1]
    BY <1>1, <2>1, SubSeqProperties
  <2> HIDE DEF a, m
  <2>5. \A i \in 1..m : a[i] = s[i]
    BY <2>2, <2>4
  <2> QED BY <2>2, <2>3, <2>5
<1>3. /\ b \in Seq(Byte) /\ Len(b) = k /\ \A i \in 1..k : b[i] = s[m + i]
  <2>1. \A i \in p..m + k : s[i] \in Byte
    BY <1>1
  <2>2. p \in Int /\ m + k \in Int /\ p <= m + k /\ m + k - p + 1 = k /\ \A i \in 1..k : p + i - 1 = m + i
    BY <1>1
  <2>3. b = SubSeq(s, p, m + k)
    BY <1>1
  <2>4. b \in Seq(Byte) /\ Len(b) = m + k - p + 1
    BY <1>1, <2>1, <2>2, <2>3, SubSeqProperties
  <2>5. \A i \in 1..m + k - p + 1 : b[i] = s[p + i - 1]
    BY <1>1, <2>1, <2>2, <2>3, SubSeqProperties
  <2> HIDE DEF b, m
  <2>6. \A i \in 1..k : b[i] = s[m + i]
    BY <2>2, <2>5
  <2> QED BY <2>2, <2>4, <2>6
<1>4. /\ c \in Seq(Byte) /\ Len(c) = m + k /\ \A i \in 1..m + k : c[i] = s[i]
  <2>1. \A i \in 1..m + k : s[i] \in Byte
    BY <1>1
  <2>2. 1 \in Int /\ m + k \in Int /\ 1 <= m + k /\ m + k - 1 + 1 = m + k
    BY <1>1
  <2>3. c = SubSeq(s, 1, m + k)
    BY <1>1
  <2>4. c \in Seq(Byte) /\ Len(c) = m + k - 1 + 1
    BY <1>1, <2>1, <2>2, <2>3, SubSeqProperties
  <2>5. \A i \in 1..m + k - 1 + 1 : c[i] = s[1 + i - 1]
    BY <1>1, <2>1, <2>2, <2>3, SubSeqProperties
  <2> HIDE DEF c, m
  <2>6. \A i \in 1..m + k : c[i] = s[i]
    BY <2>2, <2>5
  <2> QED BY <2>2, <2>4, <2>6
<1> HIDE DEF a, b, c, m
<1>5. /\ a \o b \in Seq(Byte) /\ Len(a \o b) = m + k
      /\ \A i \in 1..m + k : (a \o b)[i] = IF i <= m THEN a[i] ELSE b[i - m]
  <2>1. /\ a \o b \in Seq(Byte) /\ Len(a \o b) = Len(a) + Len(b)
        /\ \A i \in 1..Len(a) + Len(b) : (a \o b)[i] = IF i <= Len(a) THEN a[i] ELSE b[i - Len(a)]
    BY <1>2, <1>3, ConcatProperties
  <2> QED BY <1>2, <1>3, <2>1
<1>6. ASSUME NEW i \in 1..m + k PROVE (a \o b)[i] = c[i]
  <2>1. CASE i <= m
    <3>1. i \in 1..m
      BY <1>1, <2>1
    <3> QED BY <1>2, <1>4, <1>5, <2>1, <3>1
  <2>2. CASE ~(i <= m)
    <3>1. i - m \in 1..k /\ m + (i - m) = i
      BY <1>1, <2>2
    <3>2. (a \o b)[i] = b[i - m]
      BY <1>5, <2>2
    <3>3. b[i - m] = s[m + (i - m)]
      BY <1>3, <3>1
    <3> QED BY <1>4, <3>1, <3>2, <3>3
  <2> QED BY <2>1, <2>2
<1> DEFINE ab == a \o b
<1>7. ab = c
  <2>1. ab \in Seq(Byte) /\ c \in Seq(Byte) /\ Len(ab) = Len(c) /\ Len(c) = m + k
    BY <1>4, <1>5
  <2>2. \A i \in 1..Len(ab) : ab[i] = c[i]
    BY <1>6, <2>1
  <2> HIDE DEF ab
  <2> QED BY <2>1, <2>2, SeqEqual
<1> QED BY <1>7 DEF a, b, c

(* The first bytes of a text.                                              *)
LEMMA PrefixType ==
  ASSUME NEW s \in Seq(Byte), NEW m \in 0..Len(s)
  PROVE  SubSeq(s, 1, m) \in Seq(Byte)
<1>1. Len(s) \in Nat /\ m \in Int /\ \A i \in 1..m : s[i] \in Byte
  OBVIOUS
<1> QED BY <1>1, SubSeqProperties

(* One turn of the reader keeps in step with the writer or has the string. *)
LEMMA StepInLock ==
  ASSUME NEW x, NEW s \in Seq(Byte), NEW unicode \in BOOLEAN, NEW turn, NEW a, NEW ev, NEW err,
         Written(x, s, unicode, turn, a),
         NEW k \in Nat, NEW c, InStep(c, s, turn, a, k, ev, err)
  PROVE  \/ InStep(StringTurn(x, c), s, turn, a, k + 1, ev, err)
         \/ Ended(StringTurn(x, c), s, turn, a, ev, err)
<1> DEFINE n == Len(s)
           w == turn[k]
           v == turn[n]
           out == v.out
           q == a + Len(w.out)
           z == SubSeq(s, 1, w.at - 1)
           next == StringTurn(x, c)
<1>1. n \in Nat /\ k \in 0..n /\ n \in 0..n /\ n \in k..n
  BY DEF InStep
<1>2. /\ w \in CharStates(s) /\ w.at \in 1..n + 1 /\ w.out \in Seq(Byte) /\ Len(w.out) \in Nat
      /\ v \in CharStates(s) /\ out \in Seq(Byte) /\ Len(out) \in Nat
  <2>1. w \in CharStates(s) /\ v \in CharStates(s)
    BY <1>1 DEF Written, CharTurns
  <2> QED BY <2>1 DEF CharStates
<1>3. /\ x.text \in Seq(Byte) /\ "ValidateEncoding" \notin x.flags
      /\ CharTurns(turn, s, unicode) /\ a \in Nat
      /\ Holds(x, a, out \o <<Quote>>)
  BY DEF Written
<1>ok. v.ok
  BY DEF Written
<1>4. Stands(c, q, z, ev, err) /\ k <= Len(w.out)
  BY DEF InStep
<1>5. q \in Nat /\ z \in Seq(Byte)
  <2>1. w.at - 1 \in 0..Len(s)
    BY <1>1, <1>2
  <2>2. z \in Seq(Byte)
    <3> DEFINE m == w.at - 1
    <3>1. m \in 0..Len(s)
      BY <2>1
    <3> HIDE DEF m
    <3>2. SubSeq(s, 1, m) \in Seq(Byte)
      BY <3>1, PrefixType
    <3> QED BY <3>2 DEF m
  <2>3. q \in Nat
    BY <1>2, <1>3
  <2> QED BY <2>2, <2>3
<1>6. <<Quote>> \in Seq(Byte) /\ Len(<<Quote>>) = 1 /\ <<Quote>>[1] = Quote
  BY DEF Quote, Byte
<1>7. Holds(x, a, out) /\ Holds(x, a + Len(out), <<Quote>>)
  BY <1>2, <1>3, <1>6, PartsHeld
<1>8. /\ w.ok
      /\ w.at = n + 1 => v = w
  <2>1. (v.ok => w.ok) /\ (w.at = n + 1 => v = w)
    <3> HIDE DEF Written
    <3> QED BY <1>1, <1>3, LaterTurns
  <2> QED BY <1>ok, <2>1
<1>9. CASE w.at = n + 1
  <2>1. Len(w.out) = Len(out) /\ q = a + Len(out) /\ w.at - 1 = n
    BY <1>1, <1>8, <1>9
  <2>2. z = s
    BY <2>1, SubSeqFull
  <2>3. Peek(x, q) = Quote
    <3>1. Holds(x, q, <<Quote>>)
      BY <1>7, <2>1
    <3> DEFINE t == <<Quote>>
    <3>2. t \in Seq(Byte) /\ 0 \in Nat /\ 0 < Len(t) /\ t[0 + 1] = Quote /\ q + 0 = q /\ q \in Nat
      BY <1>5, <1>6
    <3>3. Holds(x, q, t)
      BY <3>1
    <3> HIDE DEF t, q
    <3>4. Peek(x, q + 0) = t[0 + 1]
      BY <1>3, <3>2, <3>3, PeekHeld
    <3> QED BY <3>2, <3>4
  <2>4. Stopped(next, q + 1, z, ev, err)
    BY <1>3, <1>4, <1>5, <2>3, StringTurnIs
  <2> HIDE DEF next, z, q, out, n
  <2>5. Ended(next, s, turn, a, ev, err)
    BY <2>1, <2>2, <2>4 DEF Ended, out, n
  <2> QED BY <2>5 DEF next
<1>10. CASE w.at <= n
  <2> DEFINE d == turn[k + 1]
  <2>1. k + 1 \in 0..n /\ k + 1 \in 1..n /\ (k + 1) - 1 = k /\ w.at \in 1..n /\ n \in (k + 1)..n
    <3>1. w.at > k \/ w.at = n + 1
      BY <1>1, <1>3, <1>8, TurnsBound
    <3>2. k + 1 <= n
      BY <1>1, <1>2, <1>10, <3>1
    <3> QED BY <1>1, <1>2, <1>10, <3>2
  <2>2. d = CharTurn(s, unicode, w) /\ d \in CharStates(s)
    <3>1. turn[k + 1] = CharTurn(s, unicode, turn[(k + 1) - 1])
      BY <1>3, <2>1 DEF CharTurns
    <3> QED BY <1>3, <2>1, <3>1 DEF CharTurns
  <2>3. /\ Len(d.out) <= Len(out) /\ \A i \in 1..Len(d.out) : out[i] = d.out[i]
        /\ d.ok
    <3>1. /\ Len(d.out) <= Len(out) /\ \A i \in 1..Len(d.out) : out[i] = d.out[i]
          /\ v.ok => d.ok
      BY <1>1, <1>3, <2>1, LaterTurns
    <3> QED BY <1>ok, <3>1
  <2>4. Refuses(s, unicode, w, d) \/ Takes(s, unicode, w, d)
    <3> HIDE DEF d, w
    <3> QED BY <1>2, <1>8, <1>10, <2>2, CharTurnIs
  <2>5. ~Refuses(s, unicode, w, d)
    <3> HIDE DEF d, w
    <3>1. w = [at |-> w.at, out |-> w.out, ok |-> w.ok]
      BY <1>2 DEF CharStates
    <3>2. d = [w EXCEPT !.ok = FALSE] => d.ok = FALSE
      BY <3>1
    <3> QED BY <2>3, <3>2 DEF Refuses
  <2>6. PICK j \in 1..4, t \in Seq(Byte) :
          Piece(s, unicode, w.at, j, t) /\ d = [w EXCEPT !.at = @ + j, !.out = @ \o t]
    <3> HIDE DEF d, w
    <3> QED BY <2>4, <2>5 DEF Takes
  <2> DEFINE p == w.at
             u == w.out
             part == SubSeq(s, p, p + j - 1)
  <2>7. d.at = p + j /\ d.out = u \o t
    <3> HIDE DEF d, w
    <3>1. w = [at |-> w.at, out |-> w.out, ok |-> w.ok]
      BY <1>2 DEF CharStates
    <3>2. d = [at |-> w.at + j, out |-> w.out \o t, ok |-> w.ok]
      BY <2>6, <3>1
    <3> QED BY <3>2
  <2>8. p + j <= n + 1 /\ Len(t) \in 1..12
    BY <2>1, <2>6, PieceIs
  <2>9. u \o t \in Seq(Byte) /\ Len(u \o t) = Len(u) + Len(t)
    BY <1>2, <2>6, Joined
  <2>10. Holds(x, q, t)
    <3>1. Holds(x, a, u \o t)
      <4>1. Len(u \o t) <= Len(out) /\ \A i \in 1..Len(u \o t) : out[i] = (u \o t)[i]
        BY <2>3, <2>7
      <4> HIDE DEF out, u
      <4> QED BY <1>2, <1>3, <1>7, <2>9, <4>1, HoldsPrefix
    <3> HIDE DEF u
    <3>2. u \in Seq(Byte) /\ q = a + Len(u)
      BY <1>2 DEF u
    <3> QED BY <1>3, <2>6, <3>1, <3>2, PartsHeld
  <2>11. Stands(next, q + Len(t), z \o part, ev, err)
    <3> HIDE DEF q, z, w, d
    <3> QED BY <1>3, <1>4, <1>5, <2>1, <2>6, <2>10, PieceRead
  <2>12. z \o part = SubSeq(s, 1, d.at - 1)
    <3>1. d.at - 1 = p + j - 1 /\ j \in Nat /\ j >= 1
      <4>1. j \in Nat /\ j >= 1
        OBVIOUS
      <4>2. d.at - 1 = p + j - 1
        <5>1. d.at = p + j /\ p \in Nat
          BY <1>2, <2>7
        <5> HIDE DEF d, p
        <5> QED BY <4>1, <5>1
      <4> QED BY <4>1, <4>2
    <3>2. SubSeq(s, 1, p - 1) \o SubSeq(s, p, p + j - 1) = SubSeq(s, 1, p + j - 1)
      BY <2>1, <2>8, <3>1, SubSeqJoin
    <3> QED BY <3>1, <3>2
  <2>13. q + Len(t) = a + Len(d.out) /\ k + 1 <= Len(d.out)
    <3> DEFINE l == Len(t)
    <3>1. l \in 1..12
      BY <2>8
    <3>2. Len(d.out) = Len(u) + l
      BY <2>7, <2>9
    <3> DEFINE lu == Len(u)
               ld == Len(d.out)
    <3>3. q = a + lu /\ lu \in Nat /\ a \in Nat /\ k <= lu /\ k \in Nat /\ ld = lu + l
      BY <1>2, <1>3, <1>4, <3>2
    <3> HIDE DEF l, lu, ld, q
    <3>4. q + l = a + ld /\ k + 1 <= ld
      BY <3>1, <3>3
    <3> QED BY <3>4 DEF l, ld
  <2> HIDE DEF next, q, z, part, w, p, u
  <2>14. InStep(next, s, turn, a, k + 1, ev, err)
    <3>1. k + 1 <= Len(s) /\ k + 1 <= Len(turn[k + 1].out)
      BY <2>1, <2>13
    <3>2. Stands(next, a + Len(turn[k + 1].out), SubSeq(s, 1, turn[k + 1].at - 1), ev, err)
      BY <2>11, <2>12, <2>13
    <3> QED BY <3>1, <3>2 DEF InStep
  <2> QED BY <2>14 DEF next
<1>11. w.at = n + 1 \/ w.at <= n
  <2> DEFINE p == w.at
  <2>1. p \in 1..n + 1
    BY <1>2
  <2> HIDE DEF p, n
  <2>2. p = n + 1 \/ p <= n
    BY <1>1, <2>1
  <2> QED BY <2>2 DEF p
<1> QED BY <1>9, <1>10, <1>11

\* The states of the reader's loop while nothing is wrong.
Readings(ev, err) ==
    [r : [at : Nat, ev : {ev}, err : {err}], s : Seq(Byte), open : BOOLEAN]

\* In step, or at the end.
Reads(c, s, turn, a, k, ev, err) ==
    InStep(c, s, turn, a, k, ev, err) \/ Ended(c, s, turn, a, ev, err)

(* A loop at a place of the text has a state of that type.                 *)
LEMMA PositionType ==
  ASSUME NEW q \in Nat, NEW z \in Seq(Byte), NEW ev, NEW err, NEW c,
         Stands(c, q, z, ev, err) \/ Stopped(c, q, z, ev, err)
  PROVE  c \in Readings(ev, err)
<1>1. /\ c = [r |-> [at |-> q, ev |-> ev, err |-> err], s |-> z, open |-> c.open]
      /\ c.open \in BOOLEAN
  BY DEF Stands, Stopped, Position
<1>2. [at |-> q, ev |-> ev, err |-> err] \in [at : Nat, ev : {ev}, err : {err}]
  OBVIOUS
<1> QED BY <1>1, <1>2 DEF Readings

(* A reader in step has a state of that type, and so has its next turn,    *)
(* which is in step or has ended.                                          *)
LEMMA ReadsOn ==
  ASSUME NEW x, NEW s \in Seq(Byte), NEW unicode \in BOOLEAN, NEW turn, NEW a, NEW ev, NEW err,
         Written(x, s, unicode, turn, a),
         NEW k \in Nat, NEW c, Reads(c, s, turn, a, k, ev, err)
  PROVE  /\ c \in Readings(ev, err) /\ StringTurn(x, c) \in Readings(ev, err)
         /\ Reads(StringTurn(x, c), s, turn, a, k + 1, ev, err)
<1> DEFINE n == Len(s)
           next == StringTurn(x, c)
<1>1. n \in Nat /\ a \in Nat /\ CharTurns(turn, s, unicode)
  BY DEF Written
<1>2. ASSUME NEW m \in 0..n
      PROVE  /\ Len(turn[m].out) \in Nat /\ turn[m].at - 1 \in 0..n
             /\ SubSeq(s, 1, turn[m].at - 1) \in Seq(Byte)
  <2>1. turn[m] \in CharStates(s)
    BY <1>1 DEF CharTurns
  <2>2. Len(turn[m].out) \in Nat /\ turn[m].at - 1 \in 0..Len(s)
    BY <2>1 DEF CharStates
  <2> DEFINE j == turn[m].at - 1
  <2>3. j \in 0..Len(s)
    BY <2>2
  <2> HIDE DEF j
  <2>4. SubSeq(s, 1, j) \in Seq(Byte)
    BY <2>3, PrefixType
  <2> QED BY <2>2, <2>4 DEF j
<1>3. ASSUME NEW d, NEW m \in Nat, InStep(d, s, turn, a, m, ev, err)
      PROVE  d \in Readings(ev, err)
  <2>1. m \in 0..n /\ Stands(d, a + Len(turn[m].out), SubSeq(s, 1, turn[m].at - 1), ev, err)
    BY <1>1, <1>3 DEF InStep
  <2>2. a + Len(turn[m].out) \in Nat /\ SubSeq(s, 1, turn[m].at - 1) \in Seq(Byte)
    BY <1>1, <1>2, <2>1
  <2> QED BY <2>1, <2>2, PositionType
<1>4. ASSUME NEW d, Ended(d, s, turn, a, ev, err)
      PROVE  /\ d \in Readings(ev, err) /\ StringTurn(x, d) = d
  <2>1. Stopped(d, a + Len(turn[n].out) + 1, s, ev, err)
    BY <1>4 DEF Ended
  <2>2. a + Len(turn[n].out) + 1 \in Nat
    BY <1>1, <1>2
  <2>3. d \in Readings(ev, err)
    BY <2>1, <2>2, PositionType
  <2>4. d.open = FALSE
    BY <2>1 DEF Stopped
  <2>5. StringTurn(x, d) = d
    BY <2>4 DEF StringTurn
  <2> QED BY <2>3, <2>5
<1>5. CASE InStep(c, s, turn, a, k, ev, err)
  <2>1. \/ InStep(next, s, turn, a, k + 1, ev, err)
        \/ Ended(next, s, turn, a, ev, err)
    BY <1>5, StepInLock
  <2>2. k + 1 \in Nat
    OBVIOUS
  <2> HIDE DEF next
  <2>3. next \in Readings(ev, err)
    BY <1>3, <1>4, <2>1, <2>2
  <2> QED BY <1>3, <1>5, <2>1, <2>3 DEF next, Reads
<1>6. CASE Ended(c, s, turn, a, ev, err)
  BY <1>4, <1>6 DEF Reads
<1> QED BY <1>5, <1>6 DEF Reads

(* The same along the turns of a reader, were it only to turn while the    *)
(* state that turn gives is of that type.                                  *)
LEMMA ReadsAlong ==
  ASSUME NEW x, NEW s \in Seq(Byte), NEW unicode \in BOOLEAN, NEW turn, NEW a, NEW ev, NEW err,
         Written(x, s, unicode, turn, a),
         NEW n \in Nat, NEW g, Reads(g[0], s, turn, a, 0, ev, err),
         \A k \in 1..n : StringTurn(x, g[k - 1]) \in Readings(ev, err) =>
                           g[k] = StringTurn(x, g[k - 1]),
         NEW m \in 0..n
  PROVE  Reads(g[m], s, turn, a, m, ev, err)
<1> DEFINE S == {j \in Nat : j <= n => Reads(g[j], s, turn, a, j, ev, err)}
<1>1. 0 \in S
  OBVIOUS
<1>2. ASSUME NEW j \in Nat, j < n, j \in S PROVE j + 1 \in S
  <2>1. j + 1 \in 1..n /\ (j + 1) - 1 = j /\ Reads(g[j], s, turn, a, j, ev, err)
    BY <1>2
  <2>2. /\ StringTurn(x, g[j]) \in Readings(ev, err)
        /\ Reads(StringTurn(x, g[j]), s, turn, a, j + 1, ev, err)
    BY <2>1, ReadsOn
  <2>3. g[j + 1] = StringTurn(x, g[j])
    <3>1. StringTurn(x, g[(j + 1) - 1]) \in Readings(ev, err) =>
            g[j + 1] = StringTurn(x, g[(j + 1) - 1])
      BY <2>1
    <3> QED BY <2>1, <2>2, <3>1
  <2> QED BY <2>1, <2>2, <2>3
<1> HIDE DEF S
<1>3. m \in S
  BY <1>1, <1>2, BoundedInduction
<1> QED BY <1>3 DEF S

(* ParseStringToStream, its loop unrolled.                                 *)
LEMMA ParseStringTurns ==
  ASSUME NEW x, NEW s \in Seq(Byte), NEW unicode \in BOOLEAN, NEW turn, NEW a, NEW ev, NEW err,
         Written(x, s, unicode, turn, a),
         NEW r, r = [at |-> a, ev |-> ev, err |-> err]
  PROVE  Reads(ParseStringToStream(x, r), s, turn, a, Len(x.text), ev, err)
<1> DEFINE n == Len(x.text)
           A == Readings(ev, err)
           start == [r |-> r, s |-> <<>>, open |-> TRUE]
           step(c) == IF StringTurn(x, c) \in A THEN StringTurn(x, c) ELSE c
           F == [y \in A \X Nat |-> step(y[1])]
           Turns(f) == [k \in 0..n |-> IF k = 0 THEN start ELSE StringTurn(x, f[k - 1])]
           read == CHOOSE f : f = Turns(f)
<1>1. n \in Nat /\ a \in Nat /\ CharTurns(turn, s, unicode)
  BY DEF Written
<1>2. Reads(start, s, turn, a, 0, ev, err)
  <2>1. turn[0].out = <<>> /\ turn[0].at = 1
    BY <1>1 DEF CharTurns
  <2>2. Len(turn[0].out) = 0 /\ a + Len(turn[0].out) = a /\ turn[0].at - 1 = 0
    BY <1>1, <2>1
  <2>3. SubSeq(s, 1, 0) = <<>>
    OBVIOUS
  <2>4. SubSeq(s, 1, turn[0].at - 1) = <<>>
    BY <2>2, <2>3
  <2>5. Stands(start, a, <<>>, ev, err)
    <3> DEFINE c == start
    <3>1. c = [r |-> r, s |-> <<>>, open |-> TRUE] /\ c.open = TRUE
      OBVIOUS
    <3> HIDE DEF c
    <3>2. c = [r |-> r, s |-> <<>>, open |-> c.open]
      BY <3>1
    <3>3. Stands(c, a, <<>>, ev, err)
      BY <3>1, <3>2 DEF Stands, Position
    <3> QED BY <3>3 DEF c
  <2> HIDE DEF start
  <2>6. Stands(start, a + Len(turn[0].out), SubSeq(s, 1, turn[0].at - 1), ev, err)
    BY <2>2, <2>4, <2>5
  <2>7. 0 <= Len(s) /\ 0 <= Len(turn[0].out)
    BY <2>2
  <2> QED BY <2>6, <2>7 DEF Reads, InStep
<1>3. start \in A
  <2> HIDE DEF start, A
  <2>1. 0 \in Nat
    OBVIOUS
  <2> QED BY <1>2, <2>1, ReadsOn DEF A
<1>4. F \in [A \X Nat -> A]
  <2> HIDE DEF A
  <2>1. \A c \in A : step(c) \in A
    OBVIOUS
  <2> HIDE DEF step
  <2> QED BY <2>1
<1>5. PICK f \in [0..n -> A] : Recurs(f, start, F, n)
  <2> HIDE DEF F, A, n, start
  <2> QED BY <1>1, <1>3, <1>4, RecursionExists
<1>6. f[0] = start /\ \A k \in 1..n : f[k] = step(f[k - 1])
  <2>1. f[0] = start
    BY <1>5 DEF Recurs
  <2>2. ASSUME NEW k \in 1..n PROVE f[k] = step(f[k - 1])
    <3>1. k - 1 \in 0..n /\ k \in Nat
      BY <1>1
    <3>2. f[k] = F[<<f[k - 1], k>>] /\ f[k - 1] \in A
      BY <1>5, <3>1 DEF Recurs
    <3> HIDE DEF A, step
    <3>3. F[<<f[k - 1], k>>] = step(f[k - 1])
      BY <3>1, <3>2
    <3> QED BY <3>2, <3>3
  <2> QED BY <2>1, <2>2
<1>7. ASSUME NEW k \in 0..n PROVE Reads(f[k], s, turn, a, k, ev, err)
  <2> HIDE DEF A, n, start
  <2>1. \A j \in 1..n : StringTurn(x, f[j - 1]) \in Readings(ev, err) => f[j] = StringTurn(x, f[j - 1])
    BY <1>6 DEF A
  <2>2. Reads(f[0], s, turn, a, 0, ev, err)
    BY <1>2, <1>6
  <2> QED BY <1>1, <2>1, <2>2, ReadsAlong
<1>8. f = Turns(f)
  <2>1. ASSUME NEW k \in 0..n
        PROVE  f[k] = IF k = 0 THEN start ELSE StringTurn(x, f[k - 1])
    <3>1. CASE k = 0
      BY <1>6, <3>1
    <3>2. CASE k # 0
      <4>1. k \in 1..n /\ k - 1 \in 0..n /\ k - 1 \in Nat
        BY <1>1, <3>2
      <4> HIDE DEF A, n, start
      <4>2. StringTurn(x, f[k - 1]) \in A
        BY <1>7, <4>1, ReadsOn DEF A
      <4>3. f[k] = StringTurn(x, f[k - 1])
        BY <1>6, <4>1, <4>2
      <4> QED BY <3>2, <4>3
    <3> QED BY <3>1, <3>2
  <2> HIDE DEF A, n, start
  <2> QED BY <1>5, <2>1
<1>9. read = Turns(read)
  <2> HIDE DEF Turns
  <2> QED BY <1>8, Zenon
<1>10. ParseStringToStream(x, r) = read[n]
  BY Zenon DEF ParseStringToStream
<1> HIDE DEF read
<1>11. read[0] = start /\ \A k \in 1..n : read[k] = StringTurn(x, read[k - 1])
  <2> HIDE DEF start, A, n
  <2>1. 0 \in 0..n /\ \A k \in 1..n : k \in 0..n /\ k # 0
    BY <1>1
  <2>2. ASSUME NEW k \in 0..n
        PROVE  read[k] = IF k = 0 THEN start ELSE StringTurn(x, read[k - 1])
    <3>1. Turns(read)[k] = IF k = 0 THEN start ELSE StringTurn(x, read[k - 1])
      OBVIOUS
    <3> HIDE DEF Turns
    <3> QED BY <1>9, <3>1, Zenon
  <2> HIDE DEF Turns
  <2> QED BY <2>1, <2>2
<1>12. Reads(read[n], s, turn, a, n, ev, err)
  <2> HIDE DEF n, start
  <2>1. Reads(read[0], s, turn, a, 0, ev, err)
    BY <1>2, <1>11
  <2>2. n \in 0..n
    BY <1>1
  <2> QED BY <1>1, <1>11, <2>1, <2>2, ReadsAlong
<1> QED BY <1>10, <1>12

\* The text of x holds the string s at at, as a writer writes it.
HasString(x, s, unicode, at) ==
    /\ x.text \in Seq(Byte) /\ "ValidateEncoding" \notin x.flags
    /\ WriteChars(s, unicode).ok
    /\ Holds(x, at, <<Quote>> \o (WriteChars(s, unicode).out \o <<Quote>>))

(* ParseStringToStream reads that string and stops behind its last quote.  *)
LEMMA StringRead ==
  ASSUME NEW x, NEW s \in Seq(Byte), NEW unicode \in BOOLEAN, NEW at \in Nat,
         HasString(x, s, unicode, at), NEW ev
  PROVE  LET read == ParseStringToStream(x, [at |-> at + 1, ev |-> ev, err |-> "None"])
         IN  /\ read.r = [at |-> at + Len(WriteChars(s, unicode).out) + 2, ev |-> ev, err |-> "None"]
             /\ read.s = s
<1> DEFINE n == Len(s)
           out == WriteChars(s, unicode).out
           a == at + 1
           m == Len(x.text)
           r == [at |-> a, ev |-> ev, err |-> "None"]
           read == ParseStringToStream(x, r)
<1>1. n \in Nat /\ m \in Nat /\ n \in 0..n /\ a \in Nat
  BY DEF HasString
<1>2. PICK turn : CharTurns(turn, s, unicode) /\ WriteChars(s, unicode) = turn[n]
  BY WriteCharsTurns
<1>3. turn[n].ok /\ turn[n].out = out
  BY <1>2 DEF HasString
<1>4. out \in Seq(Byte) /\ Len(out) \in Nat
  <2>1. turn[n] \in CharStates(s)
    BY <1>1, <1>2 DEF CharTurns
  <2>2. turn[n].out \in Seq(Byte)
    BY <2>1 DEF CharStates
  <2> QED BY <1>3, <2>2
<1> DEFINE quote == <<Quote>>
           rest == out \o quote
<1>5. quote \in Seq(Byte) /\ Len(quote) = 1
  BY DEF Quote, Byte
<1>6. rest \in Seq(Byte) /\ Len(rest) = Len(out) + 1
  <2> HIDE DEF out, quote
  <2>1. out \o quote \in Seq(Byte) /\ Len(out \o quote) = Len(out) + Len(quote)
    BY <1>4, <1>5, Joined
  <2>2. Len(rest) = Len(out) + Len(quote)
    BY <2>1
  <2> QED BY <1>5, <2>1, <2>2
<1>7. Holds(x, a, rest)
  <2>1. Holds(x, at, quote \o rest) /\ x.text \in Seq(Byte)
    BY DEF HasString
  <2> HIDE DEF rest, quote
  <2>2. Holds(x, at + Len(quote), rest)
    BY <1>5, <1>6, <2>1, PartsHeld
  <2> QED BY <1>5, <2>2
<1>8. Written(x, s, unicode, turn, a)
  <2>1. turn[Len(s)].out \o <<Quote>> = rest
    BY <1>3
  <2> HIDE DEF rest, a
  <2> QED BY <1>1, <1>2, <1>3, <1>7, <2>1 DEF Written, HasString
<1>10. Reads(read, s, turn, a, m, ev, "None")
  <2>1. r = [at |-> a, ev |-> ev, err |-> "None"]
    OBVIOUS
  <2> HIDE DEF r, a
  <2> QED BY <1>8, <2>1, ParseStringTurns
<1>11. ~InStep(read, s, turn, a, m, ev, "None")
  <2>1. SUFFICES ASSUME m <= n, m <= Len(turn[m].out) PROVE FALSE
    BY DEF InStep
  <2>2. m \in 0..n /\ n \in m..n
    BY <1>1, <2>1
  <2>3. Len(turn[m].out) <= Len(turn[n].out)
    BY <1>2, <2>2, LaterTurns
  <2>4. Len(turn[m].out) \in Nat
    <3>1. turn[m] \in CharStates(s)
      BY <1>2, <2>2 DEF CharTurns
    <3> QED BY <3>1 DEF CharStates
  <2>5. a >= 1 /\ a + (Len(out) + 1) <= m + 1
    BY <1>6, <1>7 DEF Holds
  <2>6. Len(turn[m].out) <= Len(out)
    BY <1>3, <2>3
  <2> DEFINE l == Len(out)
             lm == Len(turn[m].out)
  <2>7. l \in Nat /\ lm \in Nat /\ lm <= l /\ m <= lm /\ a + (l + 1) <= m + 1
    BY <1>4, <2>1, <2>4, <2>5, <2>6
  <2> HIDE DEF l, lm, a, m
  <2> QED BY <1>1, <2>5, <2>7
<1>12. Stopped(read, a + Len(out) + 1, s, ev, "None")
  <2> HIDE DEF read, a, m, out
  <2> QED BY <1>3, <1>10, <1>11 DEF Reads, Ended
<1>13. read.r = [at |-> a + Len(out) + 1, ev |-> ev, err |-> "None"] /\ read.s = s
  <2> DEFINE q == a + Len(out) + 1
             v == [at |-> q, ev |-> ev, err |-> "None"]
  <2>1. read = [r |-> v, s |-> s, open |-> read.open]
    BY <1>12 DEF Stopped, Position
  <2> HIDE DEF read, q, v
  <2>2. read.r = v /\ read.s = s
    BY <2>1
  <2> QED BY <2>2 DEF v, q
<1>14. a + Len(out) + 1 = at + Len(out) + 2
  <2> DEFINE l == Len(out)
  <2>1. l \in Nat
    BY <1>4
  <2> HIDE DEF l
  <2>2. a + l + 1 = at + l + 2
    BY <2>1
  <2> QED BY <2>2 DEF l
<1> DEFINE end == at + Len(out) + 2
<1>15. a + Len(out) + 1 = end
  BY <1>14
<1> HIDE DEF end, read, a, out, r
<1>16. read.r = [at |-> end, ev |-> ev, err |-> "None"] /\ read.s = s
  BY <1>13, <1>15
<1> QED BY <1>16 DEF end, out, read, r, a

(* What was appended to a text is held behind it.                          *)
LEMMA AppendedHeld ==
  ASSUME NEW x, NEW data \in Seq(Byte), NEW t \in Seq(Byte), NEW tail \in Seq(Byte),
         x.text = (data \o t) \o tail
  PROVE  x.text \in Seq(Byte) /\ Holds(x, Len(data) + 1, t)
<1> DEFINE a == Len(data)
           b == Len(t)
           c == Len(tail)
           dt == data \o t
<1>1. /\ dt \in Seq(Byte) /\ Len(dt) = a + b /\ a \in Nat /\ b \in Nat /\ c \in Nat
      /\ \A i \in 1..a + b : dt[i] = IF i <= a THEN data[i] ELSE t[i - a]
  BY ConcatProperties
<1>2. /\ x.text = dt \o tail
  OBVIOUS
<1> HIDE DEF dt
<1>3. /\ x.text \in Seq(Byte) /\ Len(x.text) = (a + b) + c
      /\ \A i \in 1..(a + b) + c : x.text[i] = IF i <= a + b THEN dt[i] ELSE tail[i - (a + b)]
  <2>1. /\ dt \o tail \in Seq(Byte) /\ Len(dt \o tail) = Len(dt) + Len(tail)
        /\ \A i \in 1..Len(dt) + Len(tail) :
             (dt \o tail)[i] = IF i <= Len(dt) THEN dt[i] ELSE tail[i - Len(dt)]
    <3>1. dt \in Seq(Byte)
      BY <1>1
    <3> QED BY <3>1, ConcatProperties
  <2>2. Len(tail) = c /\ Len(dt) = a + b
    BY <1>1
  <2> HIDE DEF a, b, c
  <2> QED BY <1>2, <2>1, <2>2
<1> DEFINE n == Len(x.text)
<1>4. n = (a + b) + c
  BY <1>3
<1> HIDE DEF a, b, c, n
<1>5. ASSUME NEW i \in 1..b PROVE x.text[(a + 1) + i - 1] = t[i]
  <2>1. /\ (a + 1) + i - 1 = a + i /\ a + i \in 1..(a + b) + c /\ a + i \in 1..a + b
        /\ a + i <= a + b /\ ~(a + i <= a) /\ (a + i) - a = i
    BY <1>1
  <2>2. x.text[a + i] = dt[a + i]
    BY <1>3, <2>1
  <2>3. dt[a + i] = t[i]
    BY <1>1, <2>1
  <2> QED BY <2>1, <2>2, <2>3
<1>6. a + 1 >= 1 /\ (a + 1) + b <= n + 1
  BY <1>1, <1>4
<1> QED BY <1>3, <1>5, <1>6 DEF Holds, a, b, n

(* A string that a writer has written, whatever stands before it and after *)
(* it in the text, is read back as that string: every escape, of two       *)
(* bytes, six or twelve, that WriteString() writes is undone by            *)
(* ParseStringToStream(), which stops at the byte after the closing quote. *)
THEOREM StringsComeBack ==
  ASSUME NEW w, SoundWriter(w), w.os.data \in Seq(Byte),
         NEW s \in Seq(Byte), WriteString(w, s).ok, NEW tail \in Seq(Byte),
         NEW x, x.text = WriteString(w, s).os.data \o tail, "ValidateEncoding" \notin x.flags,
         NEW ev, NEW isKey \in BOOLEAN
  PROVE  ParseString(x, [at |-> Len(w.os.data) + 1, ev |-> ev, err |-> "None"], isKey) =
           [at |-> Len(WriteString(w, s).os.data) + 1, err |-> "None",
            ev |-> Append(ev, [k |-> IF isKey THEN "Key" ELSE "String", s |-> s])]
<1> DEFINE data == w.os.data
           written == WriteString(w, s).os.data
           out == WriteChars(s, w.unicode).out
           quote == <<Quote>>
           rest == out \o quote
           t == quote \o rest
<1>1. w.unicode \in BOOLEAN
  BY FieldsOf
<1>2. WriteChars(s, w.unicode).ok
  BY WriteStringSound
<1>3. /\ written = data \o ((quote \o out) \o quote)
  <2>1. /\ written = data \o (<<Quote>> \o out \o
                                (IF WriteChars(s, w.unicode).ok THEN <<Quote>> ELSE <<>>))
    BY WriteStringSound
  <2>2. (IF WriteChars(s, w.unicode).ok THEN <<Quote>> ELSE <<>>) = quote
    BY <1>2
  <2> HIDE DEF written
  <2> QED BY <2>1, <2>2
<1>4. quote \in Seq(Byte) /\ Len(quote) = 1
  BY DEF Quote, Byte
<1>5. out \in Seq(Byte)
  BY <1>1, WriteCharsIs DEF CharStates
<1>6. data \in Seq(Byte) /\ Len(data) \in Nat
  OBVIOUS
<1>7. x.text = written \o tail
  OBVIOUS
<1> HIDE DEF data, written, out, quote
<1>8. /\ rest \in Seq(Byte) /\ Len(rest) = Len(out) + 1 /\ Len(out) \in Nat
  <2>1. rest \in Seq(Byte) /\ Len(rest) = Len(out) + Len(quote) /\ Len(out) \in Nat
    BY <1>4, <1>5, Joined
  <2> QED BY <1>4, <2>1
<1>9. (quote \o out) \o quote = t
  BY <1>4, <1>5, ConcatAssociative
<1> HIDE DEF rest
<1>10. t \in Seq(Byte) /\ Len(t) = Len(out) + 2
  <2>1. t \in Seq(Byte) /\ Len(t) = Len(quote) + Len(rest)
    BY <1>4, <1>8, Joined
  <2> DEFINE lt == Len(t)
             lr == Len(rest)
             lo == Len(out)
             lq == Len(quote)
  <2>2. lt = lq + lr /\ lq = 1 /\ lr = lo + 1 /\ lo \in Nat
    BY <1>4, <1>8, <2>1
  <2> HIDE DEF lt, lr, lo, lq
  <2>3. lt = lo + 2
    BY <2>2
  <2> QED BY <2>1, <2>3 DEF lt, lo
<1>11. written = data \o t
  BY <1>3, <1>9
<1> HIDE DEF t
<1>12. Len(written) = Len(data) + Len(t)
  BY <1>6, <1>10, <1>11, Joined
<1>13. x.text \in Seq(Byte) /\ Holds(x, Len(data) + 1, t)
  BY <1>6, <1>7, <1>10, <1>11, AppendedHeld
<1> DEFINE at == Len(data) + 1
           end == Len(written) + 1
           event == [k |-> IF isKey THEN "Key" ELSE "String", s |-> s]
<1>14. at \in Nat /\ end = at + Len(out) + 2
  <2> DEFINE lt == Len(t)
             lo == Len(out)
             lw == Len(written)
             ld == Len(data)
  <2>1. lt = lo + 2 /\ lw = ld + lt /\ lo \in Nat /\ ld \in Nat
    BY <1>6, <1>8, <1>10, <1>12
  <2>2. at = ld + 1 /\ end = lw + 1
    OBVIOUS
  <2> HIDE DEF lt, lo, lw, ld, at, end
  <2>3. at \in Nat /\ end = at + lo + 2
    BY <2>1, <2>2
  <2> QED BY <2>3 DEF lo
<1> DEFINE r == [at |-> at, ev |-> ev, err |-> "None"]
           read == ParseStringToStream(x, Take(r))
<1>15. read.r = [at |-> end, ev |-> ev, err |-> "None"] /\ read.s = s
  <2> DEFINE unicode == w.unicode
  <2>1. HasString(x, s, unicode, at)
    BY <1>2, <1>13 DEF t, rest, quote, out, HasString
  <2>2. at \in Nat
    BY <1>14
  <2>3. unicode \in BOOLEAN
    BY <1>1
  <2>4. Take(r) = [at |-> at + 1, ev |-> ev, err |-> "None"]
    BY DEF Take
  <2> DEFINE start == [at |-> at + 1, ev |-> ev, err |-> "None"]
             there == ParseStringToStream(x, start)
             last == at + Len(WriteChars(s, unicode).out) + 2
  <2>5. read = there
    BY <2>4
  <2>6. last = end
    BY <1>14 DEF out
  <2> HIDE DEF at, unicode, r, read
  <2>7. there.r = [at |-> last, ev |-> ev, err |-> "None"] /\ there.s = s
    BY <2>1, <2>2, <2>3, StringRead
  <2> HIDE DEF there, last, end
  <2> QED BY <2>5, <2>6, <2>7
<1> HIDE DEF end
<1>16. ParseString(x, r, isKey) = Emit(read.r, event)
  <2>1. ~Failed(r)
    BY DEF Failed
  <2> HIDE DEF r
  <2>2. ~Failed(read.r) /\ read.s = s
    BY <1>15 DEF Failed
  <2> DEFINE e == [k |-> IF isKey THEN "Key" ELSE "String", s |-> read.s]
  <2>3. ParseString(x, r, isKey) = Emit(read.r, e)
    <3> HIDE DEF e
    <3> QED BY <2>1, <2>2 DEF ParseString, e
  <2> HIDE DEF read
  <2>4. e = event
    BY <2>2
  <2> HIDE DEF e, event
  <2> QED BY <2>3, <2>4
<1>17. Emit(read.r, event) = [at |-> end, ev |-> Append(ev, event), err |-> "None"]
  <2> DEFINE v == read.r
             evs == Append(ev, event)
             d == Emit(v, event)
  <2>1. v = [at |-> end, ev |-> ev, err |-> "None"]
    BY <1>15
  <2> HIDE DEF v, event, read
  <2>2. v.ev = ev
    BY <2>1
  <2>3. d = [v EXCEPT !.ev = evs]
    BY <2>2 DEF Emit
  <2> HIDE DEF evs, d
  <2>4. d = [at |-> end, ev |-> evs, err |-> "None"]
    BY <2>1, <2>3
  <2> QED BY <2>4 DEF evs, d, v
<1> HIDE DEF at, event, r, read
<1>18. ParseString(x, r, isKey) = [at |-> end, err |-> "None", ev |-> Append(ev, event)]
  BY <1>16, <1>17
<1> QED BY <1>18 DEF at, end, event, data, written, r
=============================================================================
