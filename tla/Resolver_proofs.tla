--------------------------- MODULE Resolver_proofs --------------------------
(***************************************************************************)
(* Theorems about Resolver and the name resolution of NodeLookup: what the *)
(* code makes of a lookup, by counting dots and by a regular expression,   *)
(* is what the documentation says of its terms, for names of any length.   *)
(***************************************************************************)
EXTENDS Resolver, Induction_proofs, FiniteSetTheorems, SequenceTheorems

-----------------------------------------------------------------------------
(* The dots of an address in their order.                                  *)

DotsUpTo(addr, m) == {j \in Dots(addr) : j <= m}

LEMMA DotsFinite ==
  ASSUME NEW addr \in Text
  PROVE  /\ Dots(addr) \subseteq 1..Len(addr) /\ Len(addr) \in Nat
         /\ IsFiniteSet(Dots(addr)) /\ DotCount(addr) \in Nat
         /\ \A m : IsFiniteSet(DotsUpTo(addr, m)) /\ Cardinality(DotsUpTo(addr, m)) \in 0..DotCount(addr)
<1>1. Dots(addr) \subseteq 1..Len(addr) /\ Len(addr) \in Nat
  <2>1. Len(addr) \in Nat /\ DOMAIN addr = 1..Len(addr)
    BY LenProperties DEF Text
  <2> QED BY <2>1 DEF Dots
<1>2. IsFiniteSet(Dots(addr))
  <2>1. IsFiniteSet(1..Len(addr))
    BY <1>1, FS_Interval
  <2> QED BY <1>1, <2>1, FS_Subset
<1>3. DotCount(addr) \in Nat
  BY <1>2, FS_CardinalityType DEF DotCount
<1>4. ASSUME NEW m
      PROVE  IsFiniteSet(DotsUpTo(addr, m)) /\ Cardinality(DotsUpTo(addr, m)) \in 0..DotCount(addr)
  <2>1. DotsUpTo(addr, m) \subseteq Dots(addr)
    BY DEF DotsUpTo
  <2>2. /\ IsFiniteSet(DotsUpTo(addr, m))
        /\ Cardinality(DotsUpTo(addr, m)) <= Cardinality(Dots(addr))
    BY <1>2, <2>1, FS_Subset
  <2>3. Cardinality(DotsUpTo(addr, m)) \in Nat
    BY <2>2, FS_CardinalityType
  <2> QED BY <1>3, <2>2, <2>3 DEF DotCount
<1> QED BY <1>1, <1>2, <1>3, <1>4

(* One position further there is at most one dot more.                     *)
LEMMA RankStep ==
  ASSUME NEW addr \in Text, NEW m \in Nat
  PROVE  Cardinality(DotsUpTo(addr, m + 1)) =
           Cardinality(DotsUpTo(addr, m)) + (IF m + 1 \in Dots(addr) THEN 1 ELSE 0)
<1>1. Dots(addr) \subseteq Nat
  BY DotsFinite
<1>2. IsFiniteSet(DotsUpTo(addr, m)) /\ Cardinality(DotsUpTo(addr, m)) \in Nat
  BY DotsFinite
<1>3. CASE m + 1 \in Dots(addr)
  <2>1. DotsUpTo(addr, m + 1) = DotsUpTo(addr, m) \cup {m + 1} /\ m + 1 \notin DotsUpTo(addr, m)
    BY <1>1, <1>3 DEF DotsUpTo
  <2> QED BY <1>2, <1>3, <2>1, FS_AddElement
<1>4. CASE m + 1 \notin Dots(addr)
  <2>1. DotsUpTo(addr, m + 1) = DotsUpTo(addr, m)
    BY <1>1, <1>4 DEF DotsUpTo
  <2> QED BY <1>2, <1>4, <2>1
<1> QED BY <1>3, <1>4

LEMMA RankMonotonic ==
  ASSUME NEW addr \in Text, NEW i \in Dots(addr), NEW j \in Dots(addr), i < j
  PROVE  Cardinality(DotsUpTo(addr, i)) < Cardinality(DotsUpTo(addr, j))
<1>1. Dots(addr) \subseteq Nat
  BY DotsFinite
<1>2. /\ IsFiniteSet(DotsUpTo(addr, i)) /\ IsFiniteSet(DotsUpTo(addr, j))
      /\ Cardinality(DotsUpTo(addr, i)) \in Nat /\ Cardinality(DotsUpTo(addr, j)) \in Nat
  BY DotsFinite
<1>3. /\ DotsUpTo(addr, i) \cup {j} \subseteq DotsUpTo(addr, j) /\ j \notin DotsUpTo(addr, i)
  BY <1>1 DEF DotsUpTo
<1>4. /\ Cardinality(DotsUpTo(addr, i) \cup {j}) = Cardinality(DotsUpTo(addr, i)) + 1
  BY <1>2, <1>3, FS_AddElement
<1>5. Cardinality(DotsUpTo(addr, i) \cup {j}) <= Cardinality(DotsUpTo(addr, j))
  BY <1>2, <1>3, FS_Subset
<1> QED BY <1>2, <1>4, <1>5

(* The k-th dot is there.                                                  *)
LEMMA DotAtIsKth ==
  ASSUME NEW addr \in Text, NEW k \in 1..DotCount(addr)
  PROVE  DotAt(addr, k) \in Dots(addr) /\ Cardinality(DotsUpTo(addr, DotAt(addr, k))) = k
<1> DEFINE n == Len(addr)
           rank(m) == Cardinality(DotsUpTo(addr, m))
           S == {m \in 0..n : \A c \in 1..rank(m) : \E i \in DotsUpTo(addr, m) : rank(i) = c}
<1>1. n \in Nat /\ Dots(addr) \subseteq 1..n /\ \A m : rank(m) \in Nat
  BY DotsFinite
<1>2. DotsUpTo(addr, n) = Dots(addr) /\ DotsUpTo(addr, 0) = {}
  BY <1>1 DEF DotsUpTo
<1>3. 0 \in S
  <2>1. rank(0) = 0
    BY <1>2, FS_EmptySet
  <2> QED BY <1>1, <2>1
<1>4. ASSUME NEW m \in Nat, m < n, m \in S PROVE m + 1 \in S
  <2>1. rank(m + 1) = rank(m) + (IF m + 1 \in Dots(addr) THEN 1 ELSE 0)
    BY RankStep
  <2>2. DotsUpTo(addr, m) \subseteq DotsUpTo(addr, m + 1)
    BY <1>1 DEF DotsUpTo
  <2>3. rank(m) \in Nat
    BY <1>1
  <2>4. m + 1 \in Dots(addr) => m + 1 \in DotsUpTo(addr, m + 1)
    BY DEF DotsUpTo
  <2>5. ASSUME NEW c \in 1..rank(m + 1) PROVE \E i \in DotsUpTo(addr, m + 1) : rank(i) = c
    <3> HIDE DEF rank
    <3>1. c \in 1..rank(m) \/ (m + 1 \in Dots(addr) /\ c = rank(m + 1))
      BY <2>1, <2>3, <2>5
    <3>2. CASE c \in 1..rank(m)
      BY <1>4, <2>2, <3>2
    <3>3. CASE m + 1 \in Dots(addr) /\ c = rank(m + 1)
      BY <2>4, <3>3
    <3> QED BY <3>1, <3>2, <3>3
  <2>6. m + 1 \in 0..n
    BY <1>1, <1>4
  <2> HIDE DEF rank
  <2> QED BY <2>5, <2>6
<1>5. n \in S
  <2> HIDE DEF S
  <2>1. 0..n \subseteq S
    BY <1>1, <1>3, <1>4, BoundedInduction
  <2> QED BY <1>1, <2>1
<1>6. \E i \in Dots(addr) : rank(i) = k
  BY <1>2, <1>5 DEF DotCount
<1> QED BY <1>6 DEF DotAt, DotsUpTo

LEMMA DotAtUnique ==
  ASSUME NEW addr \in Text, NEW i \in Dots(addr), NEW k \in 1..DotCount(addr),
         Cardinality(DotsUpTo(addr, i)) = k
  PROVE  DotAt(addr, k) = i
<1> DEFINE d == DotAt(addr, k)
<1>1. d \in Dots(addr) /\ Cardinality(DotsUpTo(addr, d)) = k
  BY DotAtIsKth
<1>2. i \in Nat /\ d \in Nat /\ k \in Nat
  BY <1>1, DotsFinite
<1> HIDE DEF d
<1>3. ~(i < d) /\ ~(d < i)
  BY <1>1, <1>2, RankMonotonic
<1> QED BY <1>2, <1>3 DEF d

(* All dots are up to the end.                                             *)
LEMMA RankOfAll ==
  ASSUME NEW addr \in Text
  PROVE  Cardinality(DotsUpTo(addr, Len(addr))) = DotCount(addr)
<1>1. Dots(addr) \subseteq 1..Len(addr) /\ Len(addr) \in Nat
  BY DotsFinite
<1>2. DotsUpTo(addr, Len(addr)) = Dots(addr)
  BY <1>1 DEF DotsUpTo
<1> QED BY <1>2 DEF DotCount

-----------------------------------------------------------------------------
(* A term put before an address, as add_scope() does.                      *)

Prepended(a, addr) == a \o <<Dot>> \o addr

LEMMA PrependedShape ==
  ASSUME NEW a \in Text, NEW s \in Text
  PROVE  LET r == Prepended(a, s)
             L == Len(a) + 1
         IN  /\ r \in Text /\ Len(r) = L + Len(s) /\ Len(a) \in Nat /\ Len(s) \in Nat
             /\ \A i \in 1..Len(r) :
                  r[i] = IF i < L THEN a[i] ELSE IF i = L THEN Dot ELSE s[i - L]
<1> DEFINE b == a \o <<Dot>>
           r == b \o s
           L == Len(a) + 1
<1>1. Len(a) \in Nat /\ Len(s) \in Nat
  BY LenProperties DEF Text
<1>2. <<Dot>> \in Text /\ Len(<<Dot>>) = 1 /\ <<Dot>>[1] = Dot
  <2>1. Dot \in Symbols
    BY NamesAssumption
  <2> QED BY <2>1 DEF Text
<1>3. b \in Text /\ Len(b) = L
  BY <1>2, ConcatProperties DEF Text
<1>4. ASSUME NEW i \in 1..L PROVE b[i] = IF i < L THEN a[i] ELSE Dot
  <2>1. b[i] = IF i <= Len(a) THEN a[i] ELSE <<Dot>>[i - Len(a)]
    BY <1>2, <1>3, <1>4, ConcatProperties DEF Text
  <2>2. CASE i < L
    BY <1>1, <2>1, <2>2
  <2>3. CASE ~(i < L)
    <3>1. ~(i <= Len(a)) /\ i - Len(a) = 1
      BY <1>1, <1>4, <2>3
    <3> QED BY <1>2, <2>1, <2>3, <3>1
  <2> QED BY <2>2, <2>3
<1> HIDE DEF b
<1>5. r \in Text /\ Len(r) = L + Len(s)
  BY <1>3, ConcatProperties DEF Text
<1>6. ASSUME NEW i \in 1..Len(r)
      PROVE  r[i] = IF i < L THEN a[i] ELSE IF i = L THEN Dot ELSE s[i - L]
  <2>1. r[i] = IF i <= L THEN b[i] ELSE s[i - L]
    BY <1>3, <1>5, <1>6, ConcatProperties DEF Text
  <2>2. CASE i <= L
    <3>1. i \in 1..L /\ (~(i < L) => i = L)
      BY <1>1, <1>5, <1>6, <2>2
    <3> QED BY <1>4, <2>1, <2>2, <3>1
  <2>3. CASE ~(i <= L)
    BY <1>1, <1>5, <1>6, <2>1, <2>3
  <2> QED BY <2>2, <2>3
<1> QED BY <1>1, <1>5, <1>6 DEF Prepended, b

LEMMA PrependedDots ==
  ASSUME NEW a \in Text, NEW s \in Text, Dots(a) = {}
  PROVE  LET r == Prepended(a, s)
             L == Len(a) + 1
         IN  /\ \A i \in Nat : (i + L \in Dots(r)) <=> (i = 0 \/ i \in Dots(s))
             /\ \A i \in Dots(r) : i >= L
<1> DEFINE r == Prepended(a, s)
           L == Len(a) + 1
           n == Len(s)
           here(i) == IF i < L THEN a[i] ELSE IF i = L THEN Dot ELSE s[i - L]
<1>1. /\ r \in Text /\ Len(r) = L + n /\ Len(a) \in Nat /\ n \in Nat
      /\ \A i \in 1..Len(r) : r[i] = here(i)
  BY PrependedShape
<1>2. DOMAIN r = 1..Len(r) /\ DOMAIN a = 1..Len(a) /\ DOMAIN s = 1..n
  BY <1>1, LenProperties DEF Text
<1>3. \A i \in 1..Len(a) : a[i] # Dot
  BY <1>2 DEF Dots
<1> HIDE DEF r, n
<1>4. ASSUME NEW i \in Nat PROVE (i + L \in Dots(r)) <=> (i = 0 \/ i \in Dots(s))
  <2>1. CASE i = 0
    <3>1. i + L \in 1..Len(r) /\ i + L = L /\ ~(L < L)
      BY <1>1, <2>1
    <3>2. r[i + L] = Dot
      BY <1>1, <3>1
    <3> QED BY <1>2, <2>1, <3>1, <3>2 DEF Dots
  <2>2. CASE i # 0
    <3>1. (i + L \in 1..Len(r)) <=> i \in 1..n
      BY <1>1, <2>2
    <3>2. i + L \in 1..Len(r) => r[i + L] = s[i]
      <4>1. ~(i + L < L) /\ i + L # L /\ i + L - L = i
        BY <1>1, <2>2
      <4> QED BY <1>1, <4>1
    <3> QED BY <1>2, <2>2, <3>1, <3>2 DEF Dots
  <2> QED BY <2>1, <2>2
<1>5. ASSUME NEW i \in Dots(r) PROVE i >= L
  <2>1. i \in 1..Len(r) /\ r[i] = Dot
    BY <1>2 DEF Dots
  <2>2. ~(i < L)
    <3>1. SUFFICES ASSUME i < L PROVE FALSE
      OBVIOUS
    <3>2. i \in 1..Len(a)
      BY <1>1, <2>1, <3>1
    <3> QED BY <1>1, <1>3, <2>1, <3>1, <3>2
  <2> QED BY <1>1, <2>1, <2>2
<1> QED BY <1>4, <1>5 DEF r

LEMMA PrependedRank ==
  ASSUME NEW a \in Text, NEW s \in Text, Dots(a) = {}, NEW m \in Nat
  PROVE  Cardinality(DotsUpTo(Prepended(a, s), m + (Len(a) + 1)))
           = Cardinality(DotsUpTo(s, m)) + 1
<1> DEFINE r == Prepended(a, s)
           L == Len(a) + 1
           rank(k) == Cardinality(DotsUpTo(s, k))
           S == {k \in Nat : Cardinality(DotsUpTo(r, k + L)) = rank(k) + 1}
<1>1. r \in Text /\ L \in Nat
  <2>1. Len(a) \in Nat
    BY PrependedShape
  <2> QED BY <2>1, PrependedShape
<1>2. /\ \A i \in Nat : (i + L \in Dots(r)) <=> (i = 0 \/ i \in Dots(s))
      /\ \A i \in Dots(r) : i >= L
  BY PrependedDots
<1>3. \A k : rank(k) \in Nat
  BY DotsFinite
<1> HIDE DEF r
<1>4. 0 \in S
  <2>1. Dots(r) \subseteq Nat /\ Dots(s) \subseteq 1..Len(s) /\ Len(s) \in Nat
    BY <1>1, DotsFinite
  <2>2. 0 + L = L /\ L \in Dots(r)
    <3>1. 0 + L = L
      BY <1>1
    <3>2. 0 + L \in Dots(r)
      <4> HIDE DEF L
      <4> QED BY <1>2
    <3> QED BY <3>1, <3>2
  <2>3. DotsUpTo(r, L) = {L}
    <3>1. L \in Nat /\ \A i \in Dots(r) : i >= L
      BY <1>1, <1>2
    <3>2. L \in Dots(r)
      BY <2>2
    <3> HIDE DEF L
    <3> QED BY <2>1, <3>1, <3>2 DEF DotsUpTo
  <2>4. DotsUpTo(s, 0) = {}
    BY <2>1 DEF DotsUpTo
  <2>5. Cardinality(DotsUpTo(r, L)) = 1 /\ rank(0) = 0
    BY <2>3, <2>4, FS_EmptySet, FS_Singleton
  <2> QED BY <2>2, <2>5
<1>5. ASSUME NEW k \in S PROVE k + 1 \in S
  <2>1. k \in Nat /\ k + 1 \in Nat /\ k + L \in Nat /\ (k + L) + 1 = (k + 1) + L
    BY <1>1
  <2>2. Cardinality(DotsUpTo(r, k + L)) = rank(k) + 1
    OBVIOUS
  <2>3. Cardinality(DotsUpTo(r, (k + L) + 1)) =
          Cardinality(DotsUpTo(r, k + L)) + (IF (k + L) + 1 \in Dots(r) THEN 1 ELSE 0)
    BY <1>1, <2>1, RankStep
  <2>4. rank(k + 1) = rank(k) + (IF k + 1 \in Dots(s) THEN 1 ELSE 0)
    BY <2>1, RankStep
  <2>5. ((k + L) + 1 \in Dots(r)) <=> k + 1 \in Dots(s)
    <3>1. k + 1 # 0
      BY <2>1
    <3> HIDE DEF L
    <3>2. ((k + 1) + L \in Dots(r)) <=> (k + 1 = 0 \/ k + 1 \in Dots(s))
      BY <1>2, <2>1
    <3> QED BY <2>1, <3>1, <3>2
  <2>6. rank(k) \in Nat
    BY <1>3
  <2> HIDE DEF rank
  <2>7. Cardinality(DotsUpTo(r, (k + 1) + L)) = rank(k + 1) + 1
    BY <2>1, <2>2, <2>3, <2>4, <2>5, <2>6
  <2> QED BY <2>1, <2>7
<1>6. S = Nat
  <2>1. S \in SUBSET Nat
    OBVIOUS
  <2> HIDE DEF S
  <2> QED BY <1>4, <1>5, <2>1, SetInduction
<1> QED BY <1>6 DEF r

LEMMA PrependedCut ==
  ASSUME NEW a \in Text, NEW s \in Text, Dots(a) = {}
  PROVE  LET r == Prepended(a, s)
         IN  /\ DotCount(r) = DotCount(s) + 1
             /\ \A k \in 0..DotCount(s) + 1 : Cut(r, k + 1) = Cut(s, k) + (Len(a) + 1)
<1> DEFINE r == Prepended(a, s)
           L == Len(a) + 1
           n == DotCount(s)
<1>1. r \in Text /\ Len(r) = L + Len(s) /\ L \in Nat \ {0} /\ Len(s) \in Nat /\ n \in Nat
  <2>1. r \in Text /\ Len(r) = L + Len(s) /\ Len(a) \in Nat
    BY PrependedShape
  <2>2. Len(s) \in Nat /\ n \in Nat
    BY DotsFinite
  <2> QED BY <2>1, <2>2
<1>2. /\ \A i \in Nat : (i + L \in Dots(r)) <=> (i = 0 \/ i \in Dots(s))
      /\ \A m \in Nat : Cardinality(DotsUpTo(r, m + L)) = Cardinality(DotsUpTo(s, m)) + 1
  BY PrependedDots, PrependedRank
<1> HIDE DEF r
<1>3. DotCount(r) = n + 1
  <2>1. Len(s) + L = Len(r)
    BY <1>1
  <2>2. Cardinality(DotsUpTo(r, Len(s) + L)) = Cardinality(DotsUpTo(s, Len(s))) + 1
    BY <1>1, <1>2
  <2> QED BY <1>1, <2>1, <2>2, RankOfAll
<1>4. ASSUME NEW k \in 0..n + 1 PROVE Cut(r, k + 1) = Cut(s, k) + L
  <2>0. k \in Nat /\ k + 1 # 0 /\ ((k + 1 > n + 1) <=> k = n + 1) /\ ((k > n) <=> k = n + 1)
    BY <1>1
  <2>1. CASE k = n + 1
    <3>1. Cut(r, k + 1) = Len(r) + 1 /\ Cut(s, k) = Len(s) + 1
      BY <1>1, <1>3, <2>0, <2>1 DEF Cut
    <3> QED BY <1>1, <3>1
  <2>2. CASE k # n + 1
    <3> DEFINE i == Cut(s, k)
    <3>1. /\ i \in Nat /\ (i = 0 \/ i \in Dots(s)) /\ Cardinality(DotsUpTo(s, i)) = k
      <4>1. CASE k = 0
        <5>1. i = 0
          BY <4>1 DEF Cut
        <5>2. Dots(s) \subseteq 1..Len(s)
          BY DotsFinite
        <5>3. DotsUpTo(s, 0) = {}
          BY <1>1, <5>2 DEF DotsUpTo
        <5> QED BY <4>1, <5>1, <5>3, FS_EmptySet
      <4>2. CASE k # 0
        <5>1. k \in 1..DotCount(s) /\ i = DotAt(s, k)
          BY <1>1, <2>0, <2>2, <4>2 DEF Cut
        <5>2. i \in Dots(s) /\ Cardinality(DotsUpTo(s, i)) = k
          BY <5>1, DotAtIsKth
        <5> QED BY <5>2, DotsFinite
      <4> QED BY <4>1, <4>2
    <3> HIDE DEF i
    <3>2. i + L \in Dots(r) /\ Cardinality(DotsUpTo(r, i + L)) = k + 1
      BY <1>2, <3>1
    <3>3. k + 1 \in 1..DotCount(r) /\ ~(k + 1 > DotCount(r))
      BY <1>1, <1>3, <2>0, <2>2
    <3>4. DotAt(r, k + 1) = i + L
      BY <1>1, <3>2, <3>3, DotAtUnique
    <3> QED BY <2>0, <3>3, <3>4 DEF Cut, i
  <2> QED BY <2>1, <2>2
<1> QED BY <1>3, <1>4 DEF r

-----------------------------------------------------------------------------
(* The terms of an address.                                                *)

LEMMA CutRange ==
  ASSUME NEW addr \in Text, NEW k \in 0..DotCount(addr) + 1
  PROVE  /\ Cut(addr, k) \in 0..Len(addr) + 1
         /\ k # 0 => Cut(addr, k) >= 1
         /\ k <= DotCount(addr) => Cut(addr, k) <= Len(addr)
<1>1. DotCount(addr) \in Nat /\ Len(addr) \in Nat /\ Dots(addr) \subseteq 1..Len(addr)
  BY DotsFinite
<1>2. CASE k = 0
  BY <1>1, <1>2 DEF Cut
<1>3. CASE k # 0 /\ k > DotCount(addr)
  BY <1>1, <1>3 DEF Cut
<1>4. CASE k # 0 /\ ~(k > DotCount(addr))
  <2>1. k \in 1..DotCount(addr)
    BY <1>1, <1>4
  <2>2. Cut(addr, k) = DotAt(addr, k) /\ DotAt(addr, k) \in Dots(addr)
    BY <1>4, <2>1, DotAtIsKth DEF Cut
  <2> QED BY <1>1, <2>2
<1> QED BY <1>2, <1>3, <1>4

LEMMA TermsType ==
  ASSUME NEW addr \in Text
  PROVE  Terms(addr) \in Seq(Text) /\ Len(Terms(addr)) = DotCount(addr) + 1
<1>1. DotCount(addr) \in Nat /\ Len(addr) \in Nat
  BY DotsFinite
<1>2. ASSUME NEW k \in 1..DotCount(addr) + 1
      PROVE  SubSeq(addr, Cut(addr, k - 1) + 1, Cut(addr, k) - 1) \in Text
  <2> DEFINE m == Cut(addr, k - 1) + 1
             n == Cut(addr, k) - 1
  <2>1. k \in 0..DotCount(addr) + 1 /\ k - 1 \in 0..DotCount(addr) + 1
    BY <1>1
  <2>2. m \in Int /\ n \in Int /\ m >= 1 /\ n <= Len(addr)
    BY <1>1, <2>1, CutRange
  <2> HIDE DEF m, n
  <2>3. ASSUME NEW i \in m..n PROVE addr[i] \in Symbols
    <3>1. i \in 1..Len(addr)
      BY <1>1, <2>2
    <3> QED BY <3>1, ElementOfSeq DEF Text
  <2> QED BY <2>2, <2>3, SubSeqProperties DEF m, n, Text
<1> DEFINE term(k) == SubSeq(addr, Cut(addr, k - 1) + 1, Cut(addr, k) - 1)
           n == DotCount(addr) + 1
<1> HIDE DEF term
<1>3. \A k \in 1..n : term(k) \in Text
  BY <1>2 DEF term
<1>4. n \in Nat
  BY <1>1
<1>5. [k \in 1..n |-> term(k)] \in Seq(Text) /\ Len([k \in 1..n |-> term(k)]) = n
  <2> HIDE DEF n
  <2> QED BY <1>3, <1>4
<1> QED BY <1>5 DEF Terms, term

LEMMA ShiftedSubSeq ==
  ASSUME NEW r \in Text, NEW s \in Text, NEW L \in Nat, Len(r) = L + Len(s),
         \A i \in 1..Len(s) : r[i + L] = s[i],
         NEW m \in Nat \ {0}, NEW n \in Int, n <= Len(s)
  PROVE  SubSeq(r, m + L, n + L) = SubSeq(s, m, n)
<1> DEFINE t == SubSeq(r, m + L, n + L)
           u == SubSeq(s, m, n)
<1>1. Len(s) \in Nat
  BY LenProperties DEF Text
<1>2. ASSUME NEW i \in m..n PROVE s[i] \in Symbols
  <2>1. i \in 1..Len(s)
    BY <1>1
  <2> QED BY <2>1, ElementOfSeq DEF Text
<1>3. /\ u \in Text /\ Len(u) = IF m <= n THEN n - m + 1 ELSE 0
      /\ \A i \in 1..n - m + 1 : u[i] = s[m + i - 1]
  BY <1>2, SubSeqProperties DEF Text
<1>4. ASSUME NEW i \in m + L..n + L PROVE r[i] \in Symbols
  <2>1. i \in 1..Len(r)
    BY <1>1
  <2> QED BY <2>1, ElementOfSeq DEF Text
<1>5. m + L \in Int /\ n + L \in Int /\ (m + L <= n + L <=> m <= n)
      /\ (n + L) - (m + L) + 1 = n - m + 1
  OBVIOUS
<1>6. /\ t \in Text /\ Len(t) = IF m <= n THEN n - m + 1 ELSE 0
      /\ \A i \in 1..n - m + 1 : t[i] = r[(m + L) + i - 1]
  <2>1. /\ t \in Seq(Symbols) /\ Len(t) = IF m + L <= n + L THEN (n + L) - (m + L) + 1 ELSE 0
        /\ \A i \in 1..(n + L) - (m + L) + 1 : t[i] = r[(m + L) + i - 1]
    BY <1>4, <1>5, SubSeqProperties
  <2> QED BY <1>5, <2>1 DEF Text
<1> HIDE DEF t, u
<1>7. ASSUME NEW i \in 1..Len(t) PROVE t[i] = u[i]
  <2>1. i \in 1..n - m + 1 /\ m + i - 1 \in 1..Len(s) /\ (m + L) + i - 1 = (m + i - 1) + L
    <3>1. Len(t) \in Nat /\ Len(t) <= IF m <= n THEN n - m + 1 ELSE 0
      BY <1>6
    <3>2. m <= n
      BY <1>7, <3>1
    <3> QED BY <1>1, <1>7, <3>1, <3>2
  <2> QED BY <1>3, <1>6, <2>1
<1>8. t = u
  BY <1>3, <1>6, <1>7, SeqEqual DEF Text
<1> QED BY <1>8 DEF t, u

(* A term put in front is the first one.                                   *)
LEMMA PrependedTerms ==
  ASSUME NEW a \in Text, NEW s \in Text, Dots(a) = {}
  PROVE  Terms(Prepended(a, s)) = <<a>> \o Terms(s)
<1> DEFINE r == Prepended(a, s)
           L == Len(a) + 1
           n == DotCount(s)
           T == Terms(r)
           U == <<a>> \o Terms(s)
<1>1. /\ r \in Text /\ Len(r) = L + Len(s) /\ Len(a) \in Nat /\ Len(s) \in Nat
      /\ \A i \in 1..Len(r) : r[i] = IF i < L THEN a[i] ELSE IF i = L THEN Dot ELSE s[i - L]
  BY PrependedShape
<1>2. /\ DotCount(r) = n + 1
      /\ \A k \in 0..n + 1 : Cut(r, k + 1) = Cut(s, k) + L
  BY PrependedCut
<1>3. n \in Nat
  BY DotsFinite
<1> HIDE DEF r
<1>4. \A i \in 1..Len(s) : r[i + L] = s[i]
  <2>1. ASSUME NEW i \in 1..Len(s) PROVE r[i + L] = s[i]
    <3>1. i + L \in 1..Len(r) /\ ~(i + L < L) /\ i + L # L /\ i + L - L = i
      BY <1>1
    <3> QED BY <1>1, <3>1
  <2> QED BY <2>1
<1>5. T \in Seq(Text) /\ Len(T) = n + 2
  <2>1. Terms(r) \in Seq(Text) /\ Len(Terms(r)) = DotCount(r) + 1
    <3>1. r \in Text
      BY <1>1
    <3> QED BY <3>1, TermsType
  <2>2. DotCount(r) + 1 = n + 2
    BY <1>2, <1>3
  <2> QED BY <2>1, <2>2
<1>6. Terms(s) \in Seq(Text) /\ Len(Terms(s)) = n + 1
  BY TermsType
<1>7. /\ U \in Seq(Text) /\ Len(U) = n + 2 /\ U[1] = a
      /\ \A k \in 2..n + 2 : U[k] = Terms(s)[k - 1]
  <2> DEFINE V == Terms(s)
  <2>1. <<a>> \in Seq(Text) /\ Len(<<a>>) = 1 /\ <<a>>[1] = a
    OBVIOUS
  <2> HIDE DEF V
  <2>2. /\ <<a>> \o V \in Seq(Text) /\ Len(<<a>> \o V) = 1 + (n + 1)
        /\ \A i \in 1..1 + (n + 1) : (<<a>> \o V)[i] = IF i <= 1 THEN <<a>>[i] ELSE V[i - 1]
    BY <1>6, <2>1, ConcatProperties DEF V
  <2>3. (<<a>> \o V)[1] = a
    BY <1>3, <2>1, <2>2
  <2>4. \A k \in 2..n + 2 : (<<a>> \o V)[k] = V[k - 1]
    BY <1>3, <2>2
  <2> QED BY <1>3, <2>2, <2>3, <2>4 DEF V
<1>8. \A k \in 1..n + 2 : T[k] = SubSeq(r, Cut(r, k - 1) + 1, Cut(r, k) - 1)
  <2>1. (n + 1) + 1 = n + 2
    BY <1>3
  <2> HIDE DEF n
  <2> QED BY <1>2, <2>1 DEF Terms
<1>9. \A k \in 1..n + 1 : Terms(s)[k] = SubSeq(s, Cut(s, k - 1) + 1, Cut(s, k) - 1)
  BY <1>3 DEF Terms
<1>10. T[1] = a
  <2>1. Cut(r, 0) = 0 /\ Cut(s, 0) = 0
    BY DEF Cut
  <2>2. Cut(r, 1) = L
    <3>1. 0 \in 0..n + 1 /\ 0 + 1 = 1
      BY <1>3
    <3>2. Cut(r, 0 + 1) = Cut(s, 0) + L
      <4> HIDE DEF L
      <4> QED BY <1>2, <3>1
    <3>3. Cut(r, 1) = 0 + L
      BY <2>1, <3>1, <3>2, Zenon
    <3> QED BY <1>1, <3>3
  <2>3. T[1] = SubSeq(r, 0 + 1, L - 1)
    <3>1. 1 \in 1..n + 2 /\ 1 - 1 = 0
      BY <1>3
    <3>2. T[1] = SubSeq(r, Cut(r, 1 - 1) + 1, Cut(r, 1) - 1)
      <4> HIDE DEF T
      <4> QED BY <1>8, <3>1
    <3> QED BY <2>1, <2>2, <3>1, <3>2, Zenon
  <2>4. T[1] = SubSeq(r, 1, Len(a))
    BY <1>1, <2>3
  <2> DEFINE u == SubSeq(r, 1, Len(a))
  <2>5. ASSUME NEW i \in 1..Len(a) PROVE r[i] = a[i] /\ r[i] \in Symbols
    <3>1. i \in 1..Len(r) /\ i < L
      BY <1>1
    <3>2. r[i] = a[i]
      BY <1>1, <3>1
    <3> QED BY <3>2, ElementOfSeq DEF Text
  <2>6. /\ u \in Text /\ Len(u) = IF 1 <= Len(a) THEN Len(a) - 1 + 1 ELSE 0
        /\ \A i \in 1..Len(a) - 1 + 1 : u[i] = r[1 + i - 1]
    BY <1>1, <2>5, SubSeqProperties DEF Text
  <2>7. Len(u) = Len(a) /\ \A i \in 1..Len(a) : u[i] = a[i]
    <3>1. Len(u) = Len(a)
      BY <1>1, <2>6
    <3>2. ASSUME NEW i \in 1..Len(a) PROVE u[i] = a[i]
      <4>1. i \in 1..Len(a) - 1 + 1 /\ 1 + i - 1 = i
        BY <1>1
      <4> QED BY <2>5, <2>6, <4>1
    <3> QED BY <3>1, <3>2
  <2> HIDE DEF u
  <2>8. u = a
    BY <2>6, <2>7, SeqEqual DEF Text
  <2> QED BY <2>4, <2>8 DEF u
<1>11. ASSUME NEW k \in 2..n + 2 PROVE T[k] = U[k]
  <2> DEFINE m == Cut(s, k - 2) + 1
             e == Cut(s, k - 1) - 1
  <2>1. k - 2 \in 0..n + 1 /\ k - 1 \in 0..n + 1 /\ k - 1 # 0 /\ k - 2 <= n
        /\ (k - 2) + 1 = k - 1 /\ (k - 1) + 1 = k /\ k \in 1..n + 2 /\ k - 1 \in 1..n + 1
        /\ (k - 1) - 1 = k - 2
    BY <1>3
  <2>2. Cut(s, k - 2) \in Nat /\ Cut(s, k - 1) \in 0..Len(s) + 1
    BY <1>1, <1>3, <2>1, CutRange
  <2>3. Cut(r, k - 1) = Cut(s, k - 2) + L /\ Cut(r, k) = Cut(s, k - 1) + L
    <3>1. Cut(r, (k - 2) + 1) = Cut(s, k - 2) + L /\ Cut(r, (k - 1) + 1) = Cut(s, k - 1) + L
      BY <1>2, <2>1
    <3> QED BY <2>1, <3>1
  <2>4. Cut(r, k - 1) + 1 = m + L /\ Cut(r, k) - 1 = e + L
    BY <1>1, <2>2, <2>3
  <2>5. T[k] = SubSeq(r, m + L, e + L)
    BY <1>8, <2>1, <2>4
  <2>6. m \in Nat \ {0} /\ e \in Int /\ e <= Len(s) /\ L \in Nat
    BY <1>1, <2>2
  <2>7. SubSeq(r, m + L, e + L) = SubSeq(s, m, e)
    <3> HIDE DEF L, m, e
    <3> QED BY <1>1, <1>4, <2>6, ShiftedSubSeq
  <2>8. U[k] = Terms(s)[k - 1]
    BY <1>7
  <2>9. Terms(s)[k - 1] = SubSeq(s, m, e)
    BY <1>9, <2>1
  <2> QED BY <2>5, <2>7, <2>8, <2>9
<1> HIDE DEF T, U
<1>12. ASSUME NEW k \in 1..n + 2 PROVE T[k] = U[k]
  <2>1. CASE k = 1
    BY <1>7, <1>10, <2>1
  <2>2. CASE k # 1
    <3>1. k \in 2..n + 2
      BY <1>3, <2>2
    <3> QED BY <1>11, <3>1
  <2> QED BY <2>1, <2>2
<1>13. T = U
  BY <1>5, <1>7, <1>12, SeqEqual
<1> QED BY <1>13 DEF T, U, r

-----------------------------------------------------------------------------
(* The scope of a lookup.                                                  *)

LEMMA FirstTerms ==
  ASSUME NEW a \in Text, NEW b \in Text, NEW c \in Text
  PROVE  /\ SubSeq(<<a, b, c>>, 1, 3) = <<a>> \o (<<b>> \o <<c>>)
         /\ SubSeq(<<a, b, c>>, 1, 2) = <<a>> \o <<b>>
         /\ SubSeq(<<a, b, c>>, 1, 1) = <<a>>
         /\ SubSeq(<<a, b, c>>, 1, 0) = <<>>
<1> DEFINE s == <<a, b, c>>
<1>1. s \in Seq(Text) /\ Len(s) = 3 /\ s[1] = a /\ s[2] = b /\ s[3] = c
  OBVIOUS
<1>2. <<a>> \in Seq(Text) /\ <<b>> \in Seq(Text) /\ <<c>> \in Seq(Text)
  OBVIOUS
<1> HIDE DEF s
<1>3. SubSeq(s, 1, 0) = <<>> /\ SubSeq(s, 2, 1) = <<>> /\ SubSeq(s, 3, 2) = <<>> /\ SubSeq(s, 4, 3) = <<>>
  BY SubSeqEmpty
<1>4. SubSeq(s, 3, 3) = <<c>>
  <2>1. 3 \in 1..Len(s) /\ 3 \in 3..Len(s) /\ 3 + 1 = 4
    BY <1>1
  <2>2. SubSeq(s, 3, 3) = <<s[3]>> \o SubSeq(s, 3 + 1, 3)
    BY <1>1, <2>1, SubSeqRecursiveFirst
  <2>3. SubSeq(s, 3, 3) = <<c>> \o <<>>
    BY <1>1, <1>3, <2>1, <2>2, Zenon
  <2> QED BY <1>2, <2>3, ConcatEmptySeq
<1>5. SubSeq(s, 2, 3) = <<b>> \o <<c>> /\ SubSeq(s, 2, 2) = <<b>>
  <2>1. 2 \in 1..Len(s) /\ 2 \in 2..Len(s) /\ 3 \in 2..Len(s) /\ 2 + 1 = 3
    BY <1>1
  <2>2. /\ SubSeq(s, 2, 3) = <<s[2]>> \o SubSeq(s, 2 + 1, 3)
        /\ SubSeq(s, 2, 2) = <<s[2]>> \o SubSeq(s, 2 + 1, 2)
    BY <1>1, <2>1, SubSeqRecursiveFirst
  <2>3. SubSeq(s, 2, 3) = <<b>> \o <<c>> /\ SubSeq(s, 2, 2) = <<b>> \o <<>>
    BY <1>1, <1>3, <1>4, <2>1, <2>2, Zenon
  <2> QED BY <1>2, <2>3, ConcatEmptySeq
<1>6. /\ SubSeq(s, 1, 3) = <<a>> \o (<<b>> \o <<c>>) /\ SubSeq(s, 1, 2) = <<a>> \o <<b>>
      /\ SubSeq(s, 1, 1) = <<a>>
  <2>1. 1 \in 1..Len(s) /\ 1 \in 1..Len(s) /\ 2 \in 1..Len(s) /\ 3 \in 1..Len(s) /\ 1 + 1 = 2
    BY <1>1
  <2>2. \A n \in {1, 2, 3} : SubSeq(s, 1, n) = <<s[1]>> \o SubSeq(s, 1 + 1, n)
    BY <1>1, <2>1, SubSeqRecursiveFirst
  <2>3. /\ SubSeq(s, 1, 3) = <<a>> \o (<<b>> \o <<c>>) /\ SubSeq(s, 1, 2) = <<a>> \o <<b>>
        /\ SubSeq(s, 1, 1) = <<a>> \o <<>>
    BY <1>1, <1>3, <1>5, <2>1, <2>2, Zenon
  <2> QED BY <1>2, <2>3, ConcatEmptySeq
<1> QED BY <1>3, <1>6 DEF s

LEMMA ScopedTerms ==
  ASSUME NEW l \in Lookups
  PROVE  LET r == AddScope(Self, l)
         IN  /\ r \in Text /\ DotCount(r) = 3
             /\ Terms(r) = FullTerms(l) /\ Terms(r) \in Seq(Text) /\ Len(Terms(r)) = 4
<1> DEFINE d == DotCount(l)
           T == Terms(l)
           a == Self.namespace
           b == Self.class
           c == Self.name
           named == IF d < 1 THEN Prepended(c, l) ELSE l
           classed == IF d < 2 THEN Prepended(b, named) ELSE named
           r == IF d < 3 THEN Prepended(a, classed) ELSE classed
<1>1. l \in Text /\ a \in Text /\ b \in Text /\ c \in Text
  BY NamesAssumption DEF NodeNames
<1>2. Dots(a) = {} /\ Dots(b) = {} /\ Dots(c) = {}
  BY TermsAssumption
<1>3. d \in 0..3
  BY <1>1, DotsFinite, TermsAssumption
<1>4. T \in Seq(Text) /\ Len(T) = d + 1
  BY <1>1, TermsType
<1>5. AddScope(Self, l) = r
  BY DEF AddScope, Prepended
<1> HIDE DEF a, b, c, d, T
<1>6. /\ named \in Text
      /\ d < 1 => Terms(named) = <<c>> \o T /\ DotCount(named) = d + 1
      /\ ~(d < 1) => Terms(named) = T /\ DotCount(named) = d
  BY <1>1, <1>2, PrependedShape, PrependedTerms, PrependedCut DEF T, d
<1> HIDE DEF named
<1>7. /\ classed \in Text
      /\ d < 2 => Terms(classed) = <<b>> \o Terms(named) /\ DotCount(classed) = DotCount(named) + 1
      /\ ~(d < 2) => Terms(classed) = Terms(named) /\ DotCount(classed) = DotCount(named)
  BY <1>1, <1>2, <1>6, PrependedShape, PrependedTerms, PrependedCut
<1> HIDE DEF classed
<1>8. /\ r \in Text
      /\ d < 3 => Terms(r) = <<a>> \o Terms(classed) /\ DotCount(r) = DotCount(classed) + 1
      /\ ~(d < 3) => Terms(r) = Terms(classed) /\ DotCount(r) = DotCount(classed)
  BY <1>1, <1>2, <1>7, PrependedShape, PrependedTerms, PrependedCut
<1> HIDE DEF r
<1>9. DotCount(r) = 3
  BY <1>3, <1>6, <1>7, <1>8
<1>10. Terms(r) \in Seq(Text) /\ Len(Terms(r)) = 4
  <2>1. Terms(r) \in Seq(Text) /\ Len(Terms(r)) = DotCount(r) + 1
    BY <1>8, TermsType
  <2> QED BY <1>9, <2>1
<1>11. FullTerms(l) = SubSeq(<<a, b, c>>, 1, 3 - d) \o T
  <2>1. 4 - Len(T) = 3 - d
    BY <1>3, <1>4
  <2> QED BY <2>1 DEF FullTerms, T, a, b, c
<1>12. <<a>> \in Seq(Text) /\ <<b>> \in Seq(Text) /\ <<c>> \in Seq(Text)
  BY <1>1
<1>13. Terms(r) = FullTerms(l)
  <2>0. /\ SubSeq(<<a, b, c>>, 1, 3) = <<a>> \o (<<b>> \o <<c>>)
        /\ SubSeq(<<a, b, c>>, 1, 2) = <<a>> \o <<b>>
        /\ SubSeq(<<a, b, c>>, 1, 1) = <<a>>
        /\ SubSeq(<<a, b, c>>, 1, 0) = <<>>
    BY <1>1, FirstTerms
  <2>1. CASE d = 0
    <3>0. d < 1 /\ d < 2 /\ d < 3 /\ 3 - d = 3
      BY <2>1
    <3>1. Terms(r) = <<a>> \o (<<b>> \o (<<c>> \o T))
      BY <1>6, <1>7, <1>8, <3>0, Zenon
    <3>2. FullTerms(l) = (<<a>> \o (<<b>> \o <<c>>)) \o T
      BY <1>11, <2>0, <3>0, Zenon
    <3>3. <<b>> \o <<c>> \in Seq(Text)
      BY <1>12, ConcatProperties
    <3>4. (<<a>> \o (<<b>> \o <<c>>)) \o T = <<a>> \o ((<<b>> \o <<c>>) \o T)
      BY <1>4, <1>12, <3>3, ConcatAssociative
    <3>5. (<<b>> \o <<c>>) \o T = <<b>> \o (<<c>> \o T)
      BY <1>4, <1>12, ConcatAssociative
    <3> QED BY <3>1, <3>2, <3>4, <3>5
  <2>2. CASE d = 1
    <3>0. ~(d < 1) /\ d < 2 /\ d < 3 /\ 3 - d = 2
      BY <2>2
    <3>1. Terms(r) = <<a>> \o (<<b>> \o T)
      BY <1>6, <1>7, <1>8, <3>0, Zenon
    <3>2. FullTerms(l) = (<<a>> \o <<b>>) \o T
      BY <1>11, <2>0, <3>0, Zenon
    <3> QED BY <1>4, <1>12, <3>1, <3>2, ConcatAssociative
  <2>3. CASE d = 2
    <3>0. ~(d < 1) /\ ~(d < 2) /\ d < 3 /\ 3 - d = 1
      BY <2>3
    <3>1. Terms(r) = <<a>> \o T
      BY <1>6, <1>7, <1>8, <3>0, Zenon
    <3>2. FullTerms(l) = <<a>> \o T
      BY <1>11, <2>0, <3>0, Zenon
    <3> QED BY <3>1, <3>2
  <2>4. CASE d = 3
    <3>0. ~(d < 1) /\ ~(d < 2) /\ ~(d < 3) /\ 3 - d = 0
      BY <2>4
    <3>1. Terms(r) = T
      BY <1>6, <1>7, <1>8, <3>0, Zenon
    <3>2. FullTerms(l) = <<>> \o T
      BY <1>11, <2>0, <3>0, Zenon
    <3> QED BY <1>4, <3>1, <3>2, ConcatEmptySeq
  <2> QED BY <1>3, <2>1, <2>2, <2>3, <2>4
<1> QED BY <1>5, <1>8, <1>9, <1>10, <1>13

LEMMA SplitAtDot ==
  ASSUME NEW r \in Text, NEW d \in Dots(r), NEW m \in 1..d, NEW n \in d..Len(r)
  PROVE  SubSeq(r, m, n) = Prepended(SubSeq(r, m, d - 1), SubSeq(r, d + 1, n))
<1>1. d \in 1..Len(r) /\ Len(r) \in Nat /\ r[d] = Dot
  BY DotsFinite DEF Dots
<1>2. r \in Seq(Symbols)
  BY DEF Text
<1>3. SubSeq(r, m, d - 1) \o SubSeq(r, d, d) = SubSeq(r, m, d)
  <2>1. m \in 1..Len(r) + 1 /\ d - 1 \in m - 1..Len(r) /\ d \in d - 1..Len(r) /\ (d - 1) + 1 = d
    BY <1>1
  <2>2. SubSeq(r, m, d - 1) \o SubSeq(r, (d - 1) + 1, d) = SubSeq(r, m, d)
    BY <1>2, <2>1, ConcatAdjacentSubSeq
  <2> QED BY <2>1, <2>2
<1>4. SubSeq(r, d, d) = <<Dot>>
  <2>1. SubSeq(r, d, d) = <<r[d]>> \o SubSeq(r, d + 1, d)
    BY <1>1, <1>2, SubSeqRecursiveFirst
  <2>2. SubSeq(r, d + 1, d) = <<>>
    BY <1>1, SubSeqEmpty
  <2>3. <<Dot>> \in Seq(Symbols)
    <3>1. Dot \in Symbols
      BY NamesAssumption
    <3> HIDE DEF Dot
    <3> QED BY <3>1
  <2>4. SubSeq(r, d, d) = <<Dot>> \o <<>>
    BY <1>1, <2>1, <2>2, Zenon
  <2> QED BY <2>3, <2>4, ConcatEmptySeq
<1>5. SubSeq(r, m, d) \o SubSeq(r, d + 1, n) = SubSeq(r, m, n)
  <2>1. m \in 1..Len(r) + 1 /\ d \in m - 1..Len(r) /\ n \in d..Len(r)
    BY <1>1
  <2> QED BY <1>2, <2>1, ConcatAdjacentSubSeq
<1> QED BY <1>3, <1>4, <1>5 DEF Prepended

(* Where blookup() splits an address of four terms.                        *)
LEMMA FourTerms ==
  ASSUME NEW r \in Text, DotCount(r) = 3
  PROVE  LET t == Terms(r)
         IN  /\ NodePart(r) = Prepended(t[1], Prepended(t[2], t[3]))
             /\ BindingPart(r) = t[4] /\ LastDot(r) \in Nat /\ LastDot(r) >= 2
<1> DEFINE t == Terms(r)
           d1 == DotAt(r, 1)
           d2 == DotAt(r, 2)
           d3 == DotAt(r, 3)
           n == Len(r)
<1>1. /\ d1 \in Dots(r) /\ Cardinality(DotsUpTo(r, d1)) = 1
      /\ d2 \in Dots(r) /\ Cardinality(DotsUpTo(r, d2)) = 2
      /\ d3 \in Dots(r) /\ Cardinality(DotsUpTo(r, d3)) = 3
  BY DotAtIsKth
<1>2. Dots(r) \subseteq 1..n /\ n \in Nat /\ DOMAIN r = 1..n
  BY DotsFinite, LenProperties DEF Text
<1>3. Cut(r, 0) = 0 /\ Cut(r, 1) = d1 /\ Cut(r, 2) = d2 /\ Cut(r, 3) = d3 /\ Cut(r, 4) = n + 1
  BY DEF Cut
<1> HIDE DEF d1, d2, d3
<1>4. d1 \in 1..n /\ d2 \in 1..n /\ d3 \in 1..n
  BY <1>1, <1>2
<1>5. d1 < d2 /\ d2 < d3
  BY <1>1, <1>4, RankMonotonic
<1>6. /\ t[1] = SubSeq(r, 1, d1 - 1) /\ t[2] = SubSeq(r, d1 + 1, d2 - 1)
      /\ t[3] = SubSeq(r, d2 + 1, d3 - 1) /\ t[4] = SubSeq(r, d3 + 1, n)
  <2>1. /\ t[1] = SubSeq(r, Cut(r, 0) + 1, Cut(r, 1) - 1)
        /\ t[2] = SubSeq(r, Cut(r, 1) + 1, Cut(r, 2) - 1)
        /\ t[3] = SubSeq(r, Cut(r, 2) + 1, Cut(r, 3) - 1)
        /\ t[4] = SubSeq(r, Cut(r, 3) + 1, Cut(r, 4) - 1)
    <3>1. /\ 1 \in 1..3 + 1 /\ 2 \in 1..3 + 1 /\ 3 \in 1..3 + 1 /\ 4 \in 1..3 + 1
          /\ 1 - 1 = 0 /\ 2 - 1 = 1 /\ 3 - 1 = 2 /\ 4 - 1 = 3
      OBVIOUS
    <3>2. \A k \in 1..3 + 1 : t[k] = SubSeq(r, Cut(r, k - 1) + 1, Cut(r, k) - 1)
      BY Zenon DEF Terms
    <3> HIDE DEF t
    <3>3. /\ t[1] = SubSeq(r, Cut(r, 1 - 1) + 1, Cut(r, 1) - 1)
          /\ t[2] = SubSeq(r, Cut(r, 2 - 1) + 1, Cut(r, 2) - 1)
          /\ t[3] = SubSeq(r, Cut(r, 3 - 1) + 1, Cut(r, 3) - 1)
          /\ t[4] = SubSeq(r, Cut(r, 4 - 1) + 1, Cut(r, 4) - 1)
      BY <3>1, <3>2
    <3> QED BY <3>1, <3>3, Zenon
  <2>2. 0 + 1 = 1 /\ (n + 1) - 1 = n
    BY <1>2
  <2> QED BY <1>3, <2>1, <2>2, Zenon
<1> HIDE DEF t, n
<1>7. ASSUME NEW j \in Dots(r) PROVE j <= d3
  <2>1. j \in 1..n /\ Cardinality(DotsUpTo(r, j)) \in 0..3
    BY <1>2, DotsFinite
  <2>2. ~(d3 < j)
    BY <1>1, <2>1, RankMonotonic
  <2> QED BY <1>4, <2>1, <2>2
<1>8. LastDot(r) = d3
  <2>1. \A i \in Dots(r) : (\A j \in Dots(r) : j <= i) => i = d3
    BY <1>1, <1>2, <1>4, <1>7
  <2> QED BY <1>1, <1>7, <2>1 DEF LastDot
<1>9. LastDot(r) \in Nat /\ LastDot(r) >= 2
  BY <1>4, <1>5, <1>8
<1>10. BindingPart(r) = t[4]
  BY <1>6, <1>8 DEF BindingPart, n
<1>11. NodePart(r) = SubSeq(r, 1, d3 - 1)
  BY <1>8 DEF NodePart
<1>12. SubSeq(r, 1, d3 - 1) = Prepended(t[1], SubSeq(r, d1 + 1, d3 - 1))
  <2>1. 1 \in 1..d1 /\ d3 - 1 \in d1..Len(r)
    BY <1>2, <1>4, <1>5 DEF n
  <2>2. SubSeq(r, 1, d3 - 1) = Prepended(SubSeq(r, 1, d1 - 1), SubSeq(r, d1 + 1, d3 - 1))
    BY <1>1, <2>1, SplitAtDot
  <2> QED BY <1>6, <2>2, Zenon
<1>13. SubSeq(r, d1 + 1, d3 - 1) = Prepended(t[2], t[3])
  <2>1. d1 + 1 \in 1..d2 /\ d3 - 1 \in d2..Len(r)
    BY <1>2, <1>4, <1>5 DEF n
  <2>2. SubSeq(r, d1 + 1, d3 - 1) = Prepended(SubSeq(r, d1 + 1, d2 - 1), SubSeq(r, d2 + 1, d3 - 1))
    BY <1>1, <2>1, SplitAtDot
  <2> QED BY <1>6, <2>2, Zenon
<1> QED BY <1>9, <1>10, <1>11, <1>12, <1>13 DEF t

-----------------------------------------------------------------------------
(* The search for an address.  p gives the position of the text reached    *)
(* before each symbol of the address.                                      *)

Embedding(p, addr, text) ==
  /\ p \in [1..Len(addr) + 1 -> 1..Len(text) + 1]
  /\ \A i \in 1..Len(addr) :
       IF addr[i] = Star THEN p[i] <= p[i + 1]
       ELSE /\ p[i + 1] = p[i] + 1 /\ p[i] <= Len(text)
            /\ addr[i] \in {Dot, text[p[i]]}

\* The whole of the text matches.
Embeds(addr, text) ==
  \E p : Embedding(p, addr, text) /\ p[1] = 1 /\ p[Len(addr) + 1] = Len(text) + 1

LEMMA EmbeddingFound ==
  ASSUME NEW addr \in Text, NEW text \in Text, NEW p, Embedding(p, addr, text)
  PROVE  Found(addr, text)
<1> DEFINE n == Len(addr)
           B == 1..Len(text) + 1
           A == SUBSET B
           After(E, i) ==
             IF addr[i] = Star THEN {k \in B : \E j \in E : j <= k}
             ELSE {k \in 2..Len(text) + 1 : k - 1 \in E /\ addr[i] \in {Dot, text[k - 1]}}
           F == [x \in A \X Nat |-> After(x[1], x[2])]
           Ends(f) == [i \in 0..n |-> IF i = 0 THEN B ELSE After(f[i - 1], i)]
           ends == CHOOSE f : f = Ends(f)
<1>1. n \in Nat /\ Len(text) \in Nat
  BY LenProperties DEF Text
<1>2. F \in [A \X Nat -> A]
  <2>1. ASSUME NEW E \in A, NEW i \in Nat PROVE After(E, i) \in A
    <3>1. 2..Len(text) + 1 \subseteq B
      BY <1>1
    <3> QED BY <3>1
  <2> HIDE DEF After, A
  <2> QED BY <2>1
<1>3. PICK f \in [0..n -> A] : Recurs(f, B, F, n)
  <2>1. B \in A
    OBVIOUS
  <2> HIDE DEF F, A, B, n
  <2> QED BY <1>1, <1>2, <2>1, RecursionExists
<1>4. f = Ends(f)
  <2>1. ASSUME NEW i \in 0..n PROVE f[i] = IF i = 0 THEN B ELSE After(f[i - 1], i)
    <3>1. CASE i = 0
      BY <1>3, <3>1 DEF Recurs
    <3>2. CASE i # 0
      <4>1. i \in 1..n /\ i - 1 \in 0..n /\ i \in Nat
        BY <1>1, <3>2
      <4>2. f[i] = F[<<f[i - 1], i>>] /\ f[i - 1] \in A
        BY <1>3, <4>1 DEF Recurs
      <4> HIDE DEF After, A
      <4>3. F[<<f[i - 1], i>>] = After(f[i - 1], i)
        BY <4>1, <4>2
      <4> QED BY <3>2, <4>2, <4>3
    <3> QED BY <3>1, <3>2
  <2> HIDE DEF After, A, B, n
  <2> QED BY <1>3, <2>1
<1>5. ends = Ends(ends)
  <2> HIDE DEF Ends
  <2> QED BY <1>4, Zenon
<1>6. Found(addr, text) <=> ends[n] # {}
  BY Zenon DEF Found
<1> HIDE DEF ends
<1>7. /\ \A i \in 0..n : ends[i] = IF i = 0 THEN B ELSE After(ends[i - 1], i)
  <2> HIDE DEF After, B, n
  <2> QED BY <1>5
<1> DEFINE S == {i \in 0..n : p[i + 1] \in ends[i]}
<1>positions. /\ p \in [1..n + 1 -> B]
      /\ \A i \in 1..n :
           IF addr[i] = Star THEN p[i] <= p[i + 1]
           ELSE /\ p[i + 1] = p[i] + 1 /\ p[i] <= Len(text)
                /\ addr[i] \in {Dot, text[p[i]]}
  BY DEF Embedding
<1>8. 0 \in S
  <2>1. 0 \in 0..n /\ 0 + 1 \in 1..n + 1
    BY <1>1
  <2>2. ends[0] = B
    <3> HIDE DEF After, B, n
    <3> QED BY <1>7, <2>1
  <2>3. p[0 + 1] \in B
    <3> HIDE DEF B, n
    <3> QED BY <1>positions, <2>1
  <2> HIDE DEF B, n
  <2> QED BY <2>1, <2>2, <2>3
<1>9. ASSUME NEW i \in Nat, i < n, i \in S PROVE i + 1 \in S
  <2> DEFINE j == i + 1
  <2>1. j \in 1..n /\ j \in 0..n /\ j # 0 /\ j - 1 = i /\ j \in 1..n + 1 /\ j + 1 \in 1..n + 1
    BY <1>1, <1>9
  <2>2. p[j] \in ends[i]
    BY <1>9
  <2>3. p[j] \in B /\ p[j + 1] \in B
    <3> HIDE DEF j, B, n
    <3> QED BY <1>positions, <2>1
  <2>4. j \in 1..n /\ j \in 0..n /\ p[j] \in ends[i] /\ p[j] \in B /\ p[j + 1] \in B
    BY <2>1, <2>2, <2>3
  <2>5. ends[j] = After(ends[i], j)
    <3> HIDE DEF j, After, B, n
    <3> QED BY <1>7, <2>1
  <2> HIDE DEF j
  <2>6. CASE addr[j] = Star
    <3>1. p[j] <= p[j + 1]
      BY <1>positions, <2>4, <2>6
    <3>2. p[j + 1] \in After(ends[i], j)
      BY <2>4, <2>6, <3>1
    <3> QED BY <2>4, <2>5, <3>2 DEF j
  <2>7. CASE addr[j] # Star
    <3>1. p[j + 1] = p[j] + 1 /\ p[j] <= Len(text) /\ addr[j] \in {Dot, text[p[j]]}
      BY <1>positions, <2>4, <2>7
    <3>2. p[j + 1] - 1 = p[j] /\ p[j + 1] \in 2..Len(text) + 1
      BY <1>1, <2>4, <3>1
    <3>3. p[j + 1] \in After(ends[i], j)
      BY <2>4, <2>7, <3>1, <3>2
    <3> QED BY <2>4, <2>5, <3>3 DEF j
  <2> QED BY <2>6, <2>7
<1>10. n \in S
  <2> HIDE DEF S, n
  <2>1. 0..n \subseteq S
    BY <1>1, <1>8, <1>9, BoundedInduction
  <2> QED BY <1>1, <2>1
<1> QED BY <1>6, <1>10

(* Matches of parts, and of the dots between them, make one of the whole.  *)
LEMMA EmbedsJoined ==
  ASSUME NEW a \in Text, NEW b \in Text, NEW x \in Text, NEW y \in Text,
         Embeds(a, x), Embeds(b, y)
  PROVE  Embeds(Prepended(a, b), Prepended(x, y))
<1>1. PICK p : Embedding(p, a, x) /\ p[1] = 1 /\ p[Len(a) + 1] = Len(x) + 1
  BY DEF Embeds
<1>2. PICK q : Embedding(q, b, y) /\ q[1] = 1 /\ q[Len(b) + 1] = Len(y) + 1
  BY DEF Embeds
<1> DEFINE L == Len(a) + 1
           K == Len(x) + 1
           n == Len(b)
           m == Len(y)
           r == Prepended(a, b)
           t == Prepended(x, y)
           w == [i \in 1..Len(r) + 1 |-> IF i <= L THEN p[i] ELSE q[i - L] + K]
<1>3. /\ Len(r) = L + n /\ Len(a) \in Nat /\ n \in Nat
      /\ \A i \in 1..Len(r) : r[i] = IF i < L THEN a[i] ELSE IF i = L THEN Dot ELSE b[i - L]
  BY PrependedShape
<1>4. /\ Len(t) = K + m /\ Len(x) \in Nat /\ m \in Nat
      /\ \A i \in 1..Len(t) : t[i] = IF i < K THEN x[i] ELSE IF i = K THEN Dot ELSE y[i - K]
  BY PrependedShape
<1> HIDE DEF r, t
<1>5. /\ \A i \in 1..L : p[i] \in 1..K
      /\ \A i \in 1..L - 1 :
           IF a[i] = Star THEN p[i] <= p[i + 1]
           ELSE p[i + 1] = p[i] + 1 /\ p[i] < K /\ a[i] \in {Dot, x[p[i]]}
  <2>1. /\ p \in [1..L -> 1..K]
        /\ \A i \in 1..Len(a) :
             IF a[i] = Star THEN p[i] <= p[i + 1]
             ELSE p[i + 1] = p[i] + 1 /\ p[i] <= Len(x) /\ a[i] \in {Dot, x[p[i]]}
    BY <1>1 DEF Embedding
  <2>2. ASSUME NEW i \in 1..L - 1
        PROVE  IF a[i] = Star THEN p[i] <= p[i + 1]
               ELSE p[i + 1] = p[i] + 1 /\ p[i] < K /\ a[i] \in {Dot, x[p[i]]}
    <3>1. i \in 1..Len(a) /\ i \in 1..L
      BY <1>3
    <3>2. p[i] \in 1..K
      BY <2>1, <3>1
    <3> QED BY <1>4, <2>1, <3>1, <3>2
  <2> QED BY <2>1, <2>2
<1>6. /\ \A i \in 1..n + 1 : q[i] \in 1..m + 1
      /\ \A i \in 1..n :
           IF b[i] = Star THEN q[i] <= q[i + 1]
           ELSE q[i + 1] = q[i] + 1 /\ q[i] <= m /\ b[i] \in {Dot, y[q[i]]}
  BY <1>2 DEF Embedding
<1>7. w \in [1..Len(r) + 1 -> 1..Len(t) + 1]
  <2>1. ASSUME NEW i \in 1..Len(r) + 1
        PROVE  (IF i <= L THEN p[i] ELSE q[i - L] + K) \in 1..Len(t) + 1
    <3>1. CASE i <= L
      <4>1. p[i] \in 1..K
        BY <1>5, <3>1
      <4> QED BY <1>4, <3>1, <4>1
    <3>2. CASE ~(i <= L)
      <4>1. i - L \in 1..n + 1
        BY <1>3, <3>2
      <4>2. q[i - L] \in 1..m + 1
        BY <1>6, <4>1
      <4> QED BY <1>4, <3>2, <4>2
    <3> QED BY <3>1, <3>2
  <2> QED BY <2>1
<1>8. ASSUME NEW i \in 1..Len(r)
      PROVE  IF r[i] = Star THEN w[i] <= w[i + 1]
             ELSE /\ w[i + 1] = w[i] + 1 /\ w[i] <= Len(t)
                  /\ r[i] \in {Dot, t[w[i]]}
  <2>1. i \in 1..Len(r) + 1 /\ i + 1 \in 1..Len(r) + 1
    BY <1>3
  <2>2. /\ w[i] = IF i <= L THEN p[i] ELSE q[i - L] + K
        /\ w[i + 1] = IF i + 1 <= L THEN p[i + 1] ELSE q[(i + 1) - L] + K
    BY <2>1
  <2> HIDE DEF w
  <2>3. CASE i < L
    <3>1. i \in 1..L - 1 /\ i <= L /\ i + 1 <= L /\ i \in 1..L
      BY <1>3, <2>3
    <3>2. r[i] = a[i] /\ w[i] = p[i] /\ w[i + 1] = p[i + 1]
      BY <1>3, <2>2, <2>3, <3>1
    <3>3. IF a[i] = Star THEN p[i] <= p[i + 1]
          ELSE p[i + 1] = p[i] + 1 /\ p[i] < K /\ a[i] \in {Dot, x[p[i]]}
      BY <1>5, <3>1
    <3>4. p[i] \in 1..K
      BY <1>5, <3>1
    <3>5. p[i] < K => p[i] \in 1..Len(t) /\ p[i] <= Len(t)
      BY <1>4, <3>4
    <3>6. p[i] < K => t[p[i]] = x[p[i]]
      BY <1>4, <3>5
    <3> QED BY <3>2, <3>3, <3>5, <3>6
  <2>4. CASE i = L
    <3>1. i <= L /\ ~(i + 1 <= L) /\ (i + 1) - L = 1 /\ ~(i < L)
      BY <1>3, <2>4
    <3>2. r[i] = Dot /\ w[i] = K /\ w[i + 1] = 1 + K
      BY <1>1, <1>2, <1>3, <2>2, <2>4, <3>1
    <3>3. w[i + 1] = w[i] + 1 /\ w[i] <= Len(t)
      BY <1>4, <3>2
    <3> QED BY <3>2, <3>3 DEF Dot, Star
  <2>5. CASE i > L
    <3> DEFINE k == i - L
    <3>1. k \in 1..n /\ k \in 1..n + 1 /\ ~(i <= L) /\ ~(i + 1 <= L) /\ (i + 1) - L = k + 1
          /\ ~(i < L) /\ i # L /\ k + 1 \in 1..n + 1
      BY <1>3, <2>5
    <3>2. r[i] = b[k]
      BY <1>3, <3>1
    <3>3. w[i] = q[k] + K /\ w[i + 1] = q[k + 1] + K
      BY <2>2, <3>1
    <3> HIDE DEF k
    <3>4. IF b[k] = Star THEN q[k] <= q[k + 1]
          ELSE q[k + 1] = q[k] + 1 /\ q[k] <= m /\ b[k] \in {Dot, y[q[k]]}
      BY <1>6, <3>1
    <3>5. q[k] \in 1..m + 1 /\ q[k + 1] \in 1..m + 1
      BY <1>6, <3>1
    <3>6. q[k] <= m => /\ q[k] + K \in 1..Len(t) /\ q[k] + K <= Len(t)
                       /\ ~(q[k] + K < K) /\ q[k] + K # K /\ (q[k] + K) - K = q[k]
      BY <1>4, <3>5
    <3>7. q[k] <= m => t[q[k] + K] = y[q[k]]
      BY <1>4, <3>6
    <3>8. CASE b[k] = Star
      <4>1. q[k] + K <= q[k + 1] + K
        BY <1>4, <3>4, <3>5, <3>8
      <4> QED BY <3>2, <3>3, <3>8, <4>1
    <3>9. CASE b[k] # Star
      <4>1. q[k + 1] = q[k] + 1 /\ q[k] <= m /\ b[k] \in {Dot, y[q[k]]}
        BY <3>4, <3>9
      <4>2. q[k + 1] + K = (q[k] + K) + 1
        BY <1>4, <3>5, <4>1
      <4> QED BY <3>2, <3>3, <3>6, <3>7, <3>9, <4>1, <4>2
    <3> QED BY <3>8, <3>9
  <2> QED BY <1>3, <2>3, <2>4, <2>5
<1>9. Embedding(w, r, t)
  <2> HIDE DEF w
  <2> QED BY <1>7, <1>8 DEF Embedding
<1>10. w[1] = 1 /\ w[Len(r) + 1] = Len(t) + 1
  <2>1. 1 \in 1..Len(r) + 1 /\ 1 <= L /\ Len(r) + 1 \in 1..Len(r) + 1 /\ ~(Len(r) + 1 <= L)
        /\ (Len(r) + 1) - L = n + 1
    BY <1>3
  <2>2. w[1] = p[1] /\ w[Len(r) + 1] = q[n + 1] + K
    BY <2>1
  <2> QED BY <1>1, <1>2, <1>4, <2>2
<1> HIDE DEF w
<1> QED BY <1>9, <1>10 DEF Embeds, r, t

LEMMA PrefixElements ==
  ASSUME NEW a \in Text, NEW t \in Text, IsPrefix(a, t)
  PROVE  Len(a) <= Len(t) /\ \A i \in 1..Len(a) : a[i] = t[i]
<1>1. Len(a) \in Nat /\ Len(t) \in Nat /\ Len(a) <= Len(t)
      /\ SubSeq(a, 1, Len(a)) = SubSeq(t, 1, Len(a))
  BY LenProperties DEF Text, IsPrefix
<1>2. ASSUME NEW i \in 1..Len(a)
      PROVE  SubSeq(a, 1, Len(a))[i] = a[i] /\ SubSeq(t, 1, Len(a))[i] = t[i]
  BY <1>1 DEF Text
<1> QED BY <1>1, <1>2

LEMMA SuffixElements ==
  ASSUME NEW a \in Text, NEW t \in Text, IsSuffix(a, t)
  PROVE  /\ Len(a) <= Len(t)
         /\ \A i \in 1..Len(a) : a[i] = t[i + (Len(t) - Len(a))]
<1> DEFINE ra == Reverse(a)
           rt == Reverse(t)
<1>1. Len(a) \in Nat /\ Len(t) \in Nat
  BY LenProperties DEF Text
<1>2. ASSUME NEW u \in Text, Len(u) \in Nat
      PROVE  /\ Reverse(u) \in Text /\ Len(Reverse(u)) = Len(u)
             /\ \A i \in 1..Len(u) : Reverse(u)[i] = u[(Len(u) - i) + 1]
  BY <1>2 DEF Text, Reverse
<1>3. /\ ra \in Text /\ Len(ra) = Len(a) /\ \A i \in 1..Len(a) : ra[i] = a[(Len(a) - i) + 1]
      /\ rt \in Text /\ Len(rt) = Len(t) /\ \A i \in 1..Len(t) : rt[i] = t[(Len(t) - i) + 1]
  BY <1>1, <1>2
<1> HIDE DEF ra, rt
<1>4. Len(a) <= Len(t) /\ \A i \in 1..Len(a) : ra[i] = rt[i]
  <2>1. IsPrefix(ra, rt)
    BY DEF IsSuffix, ra, rt
  <2>2. Len(ra) <= Len(rt) /\ \A i \in 1..Len(ra) : ra[i] = rt[i]
    BY <1>3, <2>1, PrefixElements
  <2> QED BY <1>3, <2>2
<1>5. ASSUME NEW i \in 1..Len(a) PROVE a[i] = t[i + (Len(t) - Len(a))]
  <2> DEFINE j == (Len(a) - i) + 1
  <2>1. /\ j \in 1..Len(a) /\ j \in 1..Len(t)
        /\ (Len(a) - j) + 1 = i /\ (Len(t) - j) + 1 = i + (Len(t) - Len(a))
    BY <1>1, <1>4
  <2> HIDE DEF j
  <2>2. ra[j] = a[(Len(a) - j) + 1] /\ rt[j] = t[(Len(t) - j) + 1] /\ ra[j] = rt[j]
    BY <1>3, <1>4, <2>1
  <2> QED BY <2>1, <2>2, Zenon
<1> QED BY <1>4, <1>5

(* A term the documentation matches with a text is embedded in it: a star  *)
(* takes what the symbols before and after it leave.                       *)
LEMMA GlobEmbeds ==
  ASSUME NEW term \in Text, NEW text \in Text, GlobTerm(term, text)
  PROVE  Embeds(term, text)
<1> DEFINE n == Len(term)
           m == Len(text)
<1>1. n \in Nat /\ m \in Nat /\ DOMAIN term = 1..n /\ DOMAIN text = 1..m
  BY LenProperties DEF Text
<1>2. CASE term = text
  <2> DEFINE p == [i \in 1..n + 1 |-> i]
  <2>1. p \in [1..n + 1 -> 1..m + 1] /\ p[1] = 1 /\ p[n + 1] = m + 1
    BY <1>1, <1>2
  <2>2. ASSUME NEW i \in 1..n
        PROVE  p[i] = i /\ p[i + 1] = i + 1 /\ i <= m /\ i <= i + 1 /\ term[i] = text[i]
    BY <1>1, <1>2
  <2> HIDE DEF p
  <2>3. ASSUME NEW i \in 1..n
        PROVE  IF term[i] = Star THEN p[i] <= p[i + 1]
               ELSE /\ p[i + 1] = p[i] + 1 /\ p[i] <= Len(text)
                    /\ term[i] \in {Dot, text[p[i]]}
    BY <2>2
  <2> QED BY <2>1, <2>3 DEF Embeds, Embedding
<1>3. CASE term # text
  <2>1. PICK s \in 1..n :
          LET before == SubSeq(term, 1, s - 1)
              after  == SubSeq(term, s + 1, n)
          IN  /\ term[s] = Star
              /\ Len(before) + Len(after) <= m
              /\ IsPrefix(before, text) /\ IsSuffix(after, text)
    BY <1>1, <1>3, Zenon DEF GlobTerm
  <2> DEFINE before == SubSeq(term, 1, s - 1)
             after == SubSeq(term, s + 1, n)
             p == [i \in 1..n + 1 |-> IF i <= s THEN i ELSE (i + m) - n]
  <2>2. /\ before \in Text /\ Len(before) = s - 1
        /\ \A i \in 1..s - 1 : before[i] = term[i]
    <3>1. ASSUME NEW i \in 1..s - 1 PROVE term[i] \in Symbols
      BY <1>1, ElementOfSeq DEF Text
    <3>2. /\ before \in Seq(Symbols) /\ Len(before) = IF 1 <= s - 1 THEN (s - 1) - 1 + 1 ELSE 0
          /\ \A i \in 1..(s - 1) - 1 + 1 : before[i] = term[1 + i - 1]
      BY <3>1, SubSeqProperties
    <3> HIDE DEF before
    <3>3. Len(before) = s - 1 /\ (s - 1) - 1 + 1 = s - 1
      BY <1>1, <3>2
    <3>4. ASSUME NEW i \in 1..s - 1 PROVE 1 + i - 1 = i
      OBVIOUS
    <3> QED BY <3>2, <3>3, <3>4 DEF Text
  <2>3. /\ after \in Text /\ Len(after) = n - s
        /\ \A i \in 1..n - s : after[i] = term[i + s]
    <3>1. ASSUME NEW i \in s + 1..n PROVE term[i] \in Symbols
      <4>1. i \in 1..n
        BY <1>1
      <4> QED BY <4>1, ElementOfSeq DEF Text
    <3>2. /\ after \in Seq(Symbols) /\ Len(after) = IF s + 1 <= n THEN n - (s + 1) + 1 ELSE 0
          /\ \A i \in 1..n - (s + 1) + 1 : after[i] = term[(s + 1) + i - 1]
      BY <1>1, <3>1, SubSeqProperties
    <3> HIDE DEF after
    <3>3. Len(after) = n - s /\ n - (s + 1) + 1 = n - s
      <4>1. n - (s + 1) + 1 = n - s /\ (~(s + 1 <= n) => n - s = 0)
        <5> HIDE DEF n, m, p, before
        <5>1. n \in Nat /\ s \in Nat /\ s <= n
          BY <1>1
        <5> QED BY <5>1
      <4>2. Len(after) = IF s + 1 <= n THEN n - (s + 1) + 1 ELSE 0
        BY <3>2
      <4> QED BY <4>1, <4>2, Zenon
    <3>4. ASSUME NEW i \in 1..n - s PROVE (s + 1) + i - 1 = i + s
      OBVIOUS
    <3> QED BY <3>2, <3>3, <3>4 DEF Text
  <2>4. /\ term[s] = Star /\ Len(before) + Len(after) <= m
        /\ IsPrefix(before, text) /\ IsSuffix(after, text)
    BY <2>1
  <2> HIDE DEF before, after
  <2>5. n <= m + 1 /\ s <= m + 1
    BY <1>1, <2>2, <2>3, <2>4
  <2>6. ASSUME NEW i \in 1..s - 1 PROVE term[i] = text[i]
    BY <2>2, <2>4, PrefixElements
  <2>7. ASSUME NEW i \in s + 1..n PROVE term[i] = text[(i + m) - n]
    <3> DEFINE j == i - s
    <3>1. j \in 1..n - s /\ j + s = i /\ j + (m - (n - s)) = (i + m) - n
      BY <1>1
    <3> HIDE DEF j
    <3>2. after[j] = term[j + s]
      BY <2>3, <3>1
    <3>3. after[j] = text[j + (m - (n - s))]
      <4>1. j \in 1..Len(after)
        BY <2>3, <3>1
      <4>2. after[j] = text[j + (Len(text) - Len(after))]
        BY <2>3, <2>4, <4>1, SuffixElements
      <4> QED BY <2>3, <4>2, Zenon
    <3> QED BY <3>1, <3>2, <3>3, Zenon
  <2>8. p \in [1..n + 1 -> 1..m + 1] /\ p[1] = 1 /\ p[n + 1] = m + 1
    <3>1. ASSUME NEW i \in 1..n + 1 PROVE (IF i <= s THEN i ELSE (i + m) - n) \in 1..m + 1
      BY <1>1, <2>5
    <3>2. 1 \in 1..n + 1 /\ n + 1 \in 1..n + 1 /\ 1 <= s /\ ~(n + 1 <= s)
          /\ (n + 1 + m) - n = m + 1
      BY <1>1
    <3> QED BY <3>1, <3>2
  <2>9. ASSUME NEW i \in 1..n
        PROVE  IF term[i] = Star THEN p[i] <= p[i + 1]
               ELSE /\ p[i + 1] = p[i] + 1 /\ p[i] <= Len(text)
                    /\ term[i] \in {Dot, text[p[i]]}
    <3>1. p[i] = (IF i <= s THEN i ELSE (i + m) - n)
          /\ p[i + 1] = (IF i + 1 <= s THEN i + 1 ELSE (i + 1 + m) - n)
      BY <1>1
    <3> HIDE DEF p
    <3>2. CASE i < s
      <4>1. i \in 1..s - 1 /\ p[i] = i /\ p[i + 1] = i + 1 /\ i <= m
        BY <1>1, <2>5, <3>1, <3>2
      <4>2. term[i] = text[p[i]]
        BY <2>6, <4>1
      <4> QED BY <4>1, <4>2
    <3>3. CASE i = s
      <4>1. p[i] <= p[i + 1]
        BY <1>1, <2>5, <3>1, <3>3
      <4> QED BY <2>4, <3>3, <4>1
    <3>4. CASE s < i
      <4>1. i \in s + 1..n /\ p[i] = (i + m) - n /\ p[i + 1] = p[i] + 1
            /\ p[i] <= m /\ p[i] <= p[i + 1]
        BY <1>1, <2>5, <3>1, <3>4
      <4>2. term[i] = text[p[i]]
        BY <2>7, <4>1
      <4> QED BY <4>1, <4>2
    <3> QED BY <1>1, <3>2, <3>3, <3>4
  <2> HIDE DEF p
  <2> QED BY <2>8, <2>9 DEF Embeds, Embedding
<1> QED BY <1>2, <1>3

-----------------------------------------------------------------------------
(* What the documentation selects is among what the code may pick from.    *)

ListedNode ==
  [namespace : Text, class : Text, name : Text,
   bindings : Seq([name : BindingNames, port : Nat])]

Known == listing \in Seq(ListedNode)

LEMMA AbsNamePrepended ==
  ASSUME NEW node, node.namespace \in Text, node.class \in Text, node.name \in Text
  PROVE  /\ AbsName(node) = Prepended(node.namespace, Prepended(node.class, node.name))
         /\ Prepended(node.class, node.name) \in Text
<1> DEFINE c == node.class
           m == node.name
           x == node.namespace \o <<Dot>>
<1>1. <<Dot>> \in Seq(Symbols)
  <2>1. Dot \in Symbols
    BY NamesAssumption
  <2> QED BY <2>1
<1>2. x \in Seq(Symbols) /\ c \in Seq(Symbols) /\ m \in Seq(Symbols)
  BY <1>1, ConcatProperties DEF Text
<1>3. c \o <<Dot>> \in Seq(Symbols)
  BY <1>1, <1>2, ConcatProperties
<1> HIDE DEF x, c, m
<1>4. (x \o c) \o <<Dot>> = x \o (c \o <<Dot>>)
  BY <1>1, <1>2, ConcatAssociative
<1>5. (x \o (c \o <<Dot>>)) \o m = x \o ((c \o <<Dot>>) \o m)
  BY <1>2, <1>3, ConcatAssociative
<1>6. ((x \o c) \o <<Dot>>) \o m = x \o ((c \o <<Dot>>) \o m)
  BY <1>4, <1>5, Zenon
<1>7. Prepended(c, m) \in Text
  BY <1>2, PrependedShape DEF Text
<1> QED BY <1>6, <1>7, Zenon DEF x, c, m, AbsName, Prepended

LEMMA KnownNames ==
  ASSUME Known
  PROVE  /\ Len(listing) \in Nat /\ DOMAIN listing = 1..Len(listing)
         /\ \A i \in DOMAIN listing :
              listing[i].namespace \in Text /\ listing[i].class \in Text /\ listing[i].name \in Text
<1>1. listing \in Seq(ListedNode)
  BY DEF Known
<1>2. Len(listing) \in Nat /\ listing \in [1..Len(listing) -> ListedNode] /\ DOMAIN listing = 1..Len(listing)
  BY <1>1, LenProperties
<1>3. ASSUME NEW i \in DOMAIN listing
      PROVE  listing[i].namespace \in Text /\ listing[i].class \in Text /\ listing[i].name \in Text
  <2>1. listing[i] \in ListedNode
    BY <1>2
  <2> QED BY <2>1 DEF ListedNode
<1> QED BY <1>2, <1>3

(* Every node whose names the terms of a lookup match is found by the      *)
(* search for the completed address.                                       *)
LEMMA DocumentedAreCandidates ==
  ASSUME Known, NEW l \in Lookups
  PROVE  Documented(l) \subseteq Candidates(listing, NodePart(AddScope(Self, l)))
<1> DEFINE r == AddScope(Self, l)
           t == FullTerms(l)
<1>1. /\ r \in Text /\ DotCount(r) = 3 /\ Terms(r) = t
      /\ t[1] \in Text /\ t[2] \in Text /\ t[3] \in Text
  <2>1. /\ r \in Text /\ DotCount(r) = 3 /\ Terms(r) = t
        /\ Terms(r) \in Seq(Text) /\ Len(Terms(r)) = 4
    BY ScopedTerms
  <2> HIDE DEF r, t
  <2>2. t \in Seq(Text) /\ 1 \in 1..Len(t) /\ 2 \in 1..Len(t) /\ 3 \in 1..Len(t)
    BY <2>1
  <2> QED BY <2>1, <2>2, ElementOfSeq
<1> HIDE DEF r, t
<1>2. NodePart(r) = Prepended(t[1], Prepended(t[2], t[3]))
  BY <1>1, FourTerms
<1>3. ASSUME NEW i \in Documented(l) PROVE i \in Candidates(listing, NodePart(r))
  <2> DEFINE x == listing[i].namespace
             y == listing[i].class
             z == listing[i].name
  <2>1. /\ i \in DOMAIN listing
        /\ GlobTerm(t[1], x) /\ GlobTerm(t[2], y) /\ GlobTerm(t[3], z)
    BY <1>3, Zenon DEF Documented, t
  <2>2. x \in Text /\ y \in Text /\ z \in Text
    BY <2>1, KnownNames
  <2>3. /\ AbsName(listing[i]) = Prepended(x, Prepended(y, z)) /\ Prepended(y, z) \in Text
    BY <2>2, AbsNamePrepended
  <2> HIDE DEF x, y, z
  <2>4. Prepended(t[2], t[3]) \in Text /\ Prepended(t[1], Prepended(t[2], t[3])) \in Text
    BY <1>1, PrependedShape
  <2>5. Prepended(x, Prepended(y, z)) \in Text
    BY <2>2, <2>3, PrependedShape
  <2>6. Embeds(t[1], x) /\ Embeds(t[2], y) /\ Embeds(t[3], z)
    BY <1>1, <2>1, <2>2, GlobEmbeds
  <2>7. Embeds(Prepended(t[2], t[3]), Prepended(y, z))
    BY <1>1, <2>2, <2>6, EmbedsJoined
  <2>8. Embeds(NodePart(r), AbsName(listing[i]))
    <3>1. Embeds(Prepended(t[1], Prepended(t[2], t[3])), Prepended(x, Prepended(y, z)))
      BY <1>1, <2>2, <2>3, <2>4, <2>6, <2>7, EmbedsJoined
    <3> QED BY <1>2, <2>3, <3>1, Zenon
  <2>9. NodePart(r) \in Text /\ AbsName(listing[i]) \in Text
    BY <1>2, <2>3, <2>4, <2>5, Zenon
  <2>10. Found(NodePart(r), AbsName(listing[i]))
    <3>1. PICK p : Embedding(p, NodePart(r), AbsName(listing[i]))
      BY <2>8, Zenon DEF Embeds
    <3> QED BY <2>9, <3>1, EmbeddingFound
  <2> QED BY <2>1, <2>10, Zenon DEF Candidates
<1> QED BY <1>3, Zenon DEF r

(* With one candidate, a lookup that finds no binding names none.          *)
LEMMA OnlyCandidateAnswers ==
  ASSUME Known, NEW l \in Lookups, NEW answer,
         answer \in BLookup(listing, AddScope(Self, l)), answer = NoAnswer,
         Cardinality(Candidates(listing, NodePart(AddScope(Self, l)))) <= 1
  PROVE  DocumentedBindings(l) = {}
<1> DEFINE r == AddScope(Self, l)
           C == Candidates(listing, NodePart(r))
<1>1. SUFFICES ASSUME NEW i \in DocumentedBindings(l) PROVE FALSE
  OBVIOUS
<1>2. /\ i \in Documented(l) /\ NamedBindings(listing[i], FullTerms(l)[4]) # {}
  BY <1>1, Zenon DEF DocumentedBindings
<1>3. i \in C
  BY <1>2, DocumentedAreCandidates
<1>4. i \in 1..Len(listing) /\ Len(listing) \in Nat /\ i # Null
  <2>1. i \in DOMAIN listing
    BY <1>3, Zenon DEF Candidates
  <2> QED BY <2>1, KnownNames DEF Null
<1>5. LastDot(r) \in Nat /\ LastDot(r) >= 2 /\ BindingPart(r) = FullTerms(l)[4]
  BY ScopedTerms, FourTerms
<1>6. C = {i}
  <2>1. C \subseteq 1..Len(listing)
    BY KnownNames DEF Candidates
  <2>2. IsFiniteSet(C)
    <3>1. IsFiniteSet(1..Len(listing))
      BY <1>4, FS_Interval
    <3> QED BY <2>1, <3>1, FS_Subset
  <2>3. ASSUME NEW j \in C, j # i PROVE FALSE
    <3>1. Cardinality({i, j}) = 2
      <4>1. IsFiniteSet({j}) /\ Cardinality({j}) = 1
        BY FS_Singleton
      <4>2. {j} \cup {i} = {i, j} /\ i \notin {j}
        BY <2>3
      <4>3. Cardinality({j} \cup {i}) = Cardinality({j}) + 1
        BY <4>1, <4>2, FS_AddElement
      <4> QED BY <4>1, <4>2, <4>3
    <3>2. Cardinality({i, j}) <= Cardinality(C)
      <4>1. {i, j} \subseteq C
        BY <1>3, <2>3
      <4> QED BY <2>2, <4>1, FS_Subset
    <3>3. Cardinality(C) \in Nat
      BY <2>2, FS_CardinalityType
    <3> QED BY <3>1, <3>2, <3>3
  <2> QED BY <1>3, <2>3
<1> DEFINE named(j) == NamedBindings(listing[j], BindingPart(r))
           Answer(j) == IF named(j) = {} THEN <<Null, Null>>
                        ELSE <<j, CHOOSE k \in named(j) : \A k2 \in named(j) : k <= k2>>
<1>7. NLookup(listing, NodePart(r)) = {i} /\ {i} # {Null}
  <2>1. C # {}
    BY <1>6
  <2> HIDE DEF C
  <2>2. NLookup(listing, NodePart(r)) = C
    BY <2>1, Zenon DEF NLookup, C
  <2> QED BY <1>4, <1>6, <2>2
<1>8. answer = Answer(i)
  <2>1. ~(LastDot(r) < 2)
    <3> HIDE DEF r
    <3> QED BY <1>5
  <2> HIDE DEF C, r
  <2> QED BY <1>7, <2>1 DEF BLookup, r
<1>9. named(i) # {}
  BY <1>2, <1>5, Zenon
<1> HIDE DEF named
<1> QED BY <1>4, <1>8, <1>9 DEF NoAnswer

-----------------------------------------------------------------------------
(* The type of the directory a service has learnt, the lookup it resolves. *)
Typed == Known /\ lookup \in Lookups

LEMMA TypedInvariant == ResolverSpec => []Typed
<1>1. ResolverInit => Typed
  <2>1. <<>> \in Seq(ListedNode)
    OBVIOUS
  <2> QED BY <2>1 DEF ResolverInit, Typed, Known
<1>2. Typed /\ [ResolverNext]_resolverVars => Typed'
  <2> SUFFICES ASSUME Typed, [ResolverNext]_resolverVars PROVE Typed'
    OBVIOUS
  <2> USE DEF Typed, Known
  <2>1. ASSUME NEW node \in Nodes, NEW bname \in BindingNames, LearnNode(node, bname)
        PROVE  Typed'
    <3> DEFINE new == [namespace |-> node.namespace, class |-> node.class, name |-> node.name,
                       bindings |-> <<[name |-> bname, port |-> 1]>>]
    <3>1. node.namespace \in Text /\ node.class \in Text /\ node.name \in Text
      BY NamesAssumption DEF NodeNames
    <3>2. <<[name |-> bname, port |-> 1]>> \in Seq([name : BindingNames, port : Nat])
      OBVIOUS
    <3>3. new \in ListedNode
      BY <3>1, <3>2 DEF ListedNode
    <3> HIDE DEF new
    <3>4. Append(listing, new) \in Seq(ListedNode)
      BY <3>3, AppendProperties
    <3>5. listing' = Append(listing, new) /\ lookup' = lookup
      BY <2>1 DEF LearnNode, new
    <3> QED BY <3>4, <3>5
  <2>2. ASSUME NEW node \in Nodes, NEW bname \in BindingNames, LearnBinding(node, bname)
        PROVE  Typed'
    <3>1. PICK i \in DOMAIN listing :
            listing' = [listing EXCEPT ![i].bindings =
                       Append(@, [name |-> bname, port |-> Len(@) + 1])]
      BY <2>2 DEF LearnBinding, Listed
    <3> DEFINE old == listing[i].bindings
               more == Append(old, [name |-> bname, port |-> Len(old) + 1])
               new == [listing[i] EXCEPT !.bindings = more]
    <3>2. listing \in Seq(ListedNode) /\ i \in 1..Len(listing) /\ listing[i] \in ListedNode
      <4>1. i \in 1..Len(listing)
        BY KnownNames
      <4> QED BY <4>1, ElementOfSeq
    <3>3. old \in Seq([name : BindingNames, port : Nat])
      BY <3>2 DEF ListedNode
    <3>4. more \in Seq([name : BindingNames, port : Nat])
      <4> HIDE DEF old
      <4>1. Len(old) + 1 \in Nat
        BY <3>3, LenProperties
      <4>2. [name |-> bname, port |-> Len(old) + 1] \in [name : BindingNames, port : Nat]
        BY <4>1
      <4> QED BY <3>3, <4>2, AppendProperties
    <3>5. listing' = [listing EXCEPT ![i] = new]
      BY <3>1
    <3> HIDE DEF more, old
    <3>6. new \in ListedNode
      BY <3>2, <3>4 DEF ListedNode
    <3> HIDE DEF new
    <3>7. listing' \in Seq(ListedNode)
      BY <3>2, <3>5, <3>6, ExceptSeq
    <3> QED BY <2>2, <3>7 DEF LearnBinding
  <2>3. ASSUME NEW l \in Lookups, Resolve(l) PROVE Typed'
    BY <2>3 DEF Resolve
  <2>4. CASE UNCHANGED resolverVars
    BY <2>4 DEF resolverVars
  <2> QED BY <2>1, <2>2, <2>3, <2>4 DEF ResolverNext
<1> QED BY <1>1, <1>2, PTL DEF ResolverSpec

(* Whatever form connect() is called with, the address add_scope() makes   *)
(* of it has the terms it was given, and before them the service's own.    *)
THEOREM ScopeStaysTheCallers == ResolverSpec => []ScopeIsTheCallers
<1>1. Typed => ScopeIsTheCallers
  BY ScopedTerms DEF Typed, ScopeIsTheCallers
<1> QED BY <1>1, TypedInvariant, PTL

(* In every directory a service may have learnt, nlookup()'s regular       *)
(* expression finds each node the documentation says a lookup names.       *)
THEOREM DocumentedNodesAreFound == ResolverSpec => []DocumentedNodesAreCandidates
<1>1. Typed => DocumentedNodesAreCandidates
  BY DocumentedAreCandidates DEF Typed, DocumentedNodesAreCandidates
<1> QED BY <1>1, TypedInvariant, PTL

(* When one node is a candidate, blookup() answers with no binding only if *)
(* no node the lookup names lists such a binding.                          *)
THEOREM DeferredOnlyWhenUnlisted == ResolverSpec => NullOnlyWhenUnlisted
<1>1. Typed => MissIsRight
  <2> SUFFICES ASSUME Typed, NEW l \in Lookups, Resolve(l), resolved' = NoAnswer,
                      Cardinality(Candidates(listing, NodePart(AddScope(Self, l)))) <= 1
               PROVE  DocumentedBindings(l) = {}
    BY DEF MissIsRight
  <2>1. resolved' \in BLookup(listing, AddScope(Self, l))
    BY DEF Resolve
  <2> QED BY <2>1, OnlyCandidateAnswers DEF Typed
<1> QED BY <1>1, TypedInvariant, PTL DEF NullOnlyWhenUnlisted
=============================================================================
