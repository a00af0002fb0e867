---------------------------- MODULE Service_proofs --------------------------
(***************************************************************************)
(* Theorems about Service: for any handles, ports, names, topologies and   *)
(* programs of calls.                                                      *)
(***************************************************************************)
EXTENDS Service, FiniteSetTheorems, SequenceTheorems, Induction_proofs

-----------------------------------------------------------------------------
(* The keys of a map, in order: each key has its place.                    *)
Below(S, x) == {y \in S : y < x}

LEMMA BelowGrows ==
  ASSUME NEW S \in SUBSET Nat, IsFiniteSet(S), NEW x \in S
  PROVE  /\ Cardinality(Below(S, x)) \in 0..Cardinality(S) - 1
         /\ \A z \in S : x < z => Cardinality(Below(S, x)) < Cardinality(Below(S, z))
<1>1. \A z \in S : IsFiniteSet(Below(S, z)) /\ Cardinality(Below(S, z)) \in Nat
  <2> TAKE z \in S
  <2>1. Below(S, z) \subseteq S
    BY DEF Below
  <2> QED BY <2>1, FS_Subset, FS_CardinalityType
<1>2. Cardinality(Below(S, x)) \in 0..Cardinality(S) - 1
  <2>1. /\ IsFiniteSet(S \ {x}) /\ Cardinality(S \ {x}) = Cardinality(S) - 1
        /\ Cardinality(S) \in Nat
    BY FS_RemoveElement, FS_CardinalityType
  <2>2. Below(S, x) \subseteq S \ {x}
    BY DEF Below
  <2>3. Cardinality(Below(S, x)) <= Cardinality(S \ {x})
    BY <2>1, <2>2, FS_Subset
  <2> QED BY <1>1, <2>1, <2>3
<1>3. ASSUME NEW z \in S, x < z
      PROVE  Cardinality(Below(S, x)) < Cardinality(Below(S, z))
  <2>0. \A y \in S : y \in Nat
    OBVIOUS
  <2>1. x \notin Below(S, x) /\ Below(S, x) \cup {x} \subseteq Below(S, z)
    <3>1. x \notin Below(S, x)
      BY <2>0 DEF Below
    <3>2. \A y \in Below(S, x) : y \in Below(S, z)
      BY <1>3, <2>0 DEF Below
    <3>3. x \in Below(S, z)
      BY <1>3 DEF Below
    <3> QED BY <3>1, <3>2, <3>3
  <2>2. /\ IsFiniteSet(Below(S, x) \cup {x})
        /\ Cardinality(Below(S, x) \cup {x}) = Cardinality(Below(S, x)) + 1
    BY <1>1, <2>1, FS_AddElement
  <2>3. Cardinality(Below(S, x) \cup {x}) <= Cardinality(Below(S, z))
    BY <1>1, <2>1, FS_Subset
  <2> QED BY <1>1, <2>2, <2>3
<1> QED BY <1>2, <1>3

LEMMA SortedKeys ==
  ASSUME NEW S \in SUBSET Nat, IsFiniteSet(S)
  PROVE  /\ Sorted(S) \in Seq(S) /\ Len(Sorted(S)) = Cardinality(S)
         /\ \A x \in S : \E k \in DOMAIN Sorted(S) : Sorted(S)[k] = x
<1> DEFINE n == Cardinality(S)
           rank == [x \in S |-> Cardinality(Below(S, x))]
<1>1. n \in Nat
  BY FS_CardinalityType
<1>2. rank \in [S -> 0..n - 1]
  BY BelowGrows
<1>3. \A x, z \in S : rank[x] = rank[z] => x = z
  <2> TAKE x, z \in S
  <2>1. x < z \/ z < x \/ x = z
    OBVIOUS
  <2>2. rank[x] \in Int /\ rank[z] \in Int
    BY <1>2
  <2>3. x < z => rank[x] < rank[z]
    BY BelowGrows
  <2>4. z < x => rank[z] < rank[x]
    BY BelowGrows
  <2> HIDE DEF rank
  <2> QED BY <2>1, <2>2, <2>3, <2>4
<1>4. ASSUME NEW k \in 1..n
      PROVE  \E x \in S : rank[x] = k - 1
  <2> SUFFICES ASSUME \A x \in S : rank[x] # k - 1 PROVE FALSE
    OBVIOUS
  <2> DEFINE T == (0..n - 1) \ {k - 1}
  <2>1. IsFiniteSet(T) /\ Cardinality(T) = n - 1
    <3> HIDE DEF n
    <3>1. IsFiniteSet(0..n - 1) /\ Cardinality(0..n - 1) = n
      <4>1. n - 1 \in Int /\ (0 > n - 1 => n = 0) /\ (n - 1) - 0 + 1 = n
        BY <1>1
      <4> QED BY <4>1, FS_Interval
    <3>2. k - 1 \in 0..n - 1
      BY <1>1
    <3>3. /\ IsFiniteSet((0..n - 1) \ {k - 1})
          /\ Cardinality((0..n - 1) \ {k - 1}) = Cardinality(0..n - 1) - 1
      BY <3>1, <3>2, FS_RemoveElement
    <3> QED BY <3>1, <3>3
  <2>2. rank \in [S -> T]
    BY <1>2
  <2>3. Cardinality(T) < Cardinality(S)
    BY <1>1, <2>1
  <2> HIDE DEF T, rank
  <2>4. \E x, z \in S : x # z /\ rank[x] = rank[z]
    BY <2>1, <2>2, <2>3, FS_PigeonHole
  <2> QED BY <1>3, <2>4
<1>5. \A x \in S : rank[x] = Cardinality({y \in S : y < x})
  BY DEF Below
<1> HIDE DEF rank
<1>6. \A k \in 1..n : Sorted(S)[k] = CHOOSE x \in S : Cardinality({y \in S : y < x}) = k - 1
  BY Zenon DEF Sorted
<1>7. ASSUME NEW k \in 1..n
      PROVE  Sorted(S)[k] \in S /\ rank[Sorted(S)[k]] = k - 1
  <2>1. \E x \in S : Cardinality({y \in S : y < x}) = k - 1
    BY <1>4, <1>5
  <2> QED BY <1>5, <1>6, <2>1
<1>8. ASSUME NEW x \in S
      PROVE  rank[x] + 1 \in 1..n /\ Sorted(S)[rank[x] + 1] = x
  <2>1. rank[x] + 1 \in 1..n /\ (rank[x] + 1) - 1 = rank[x]
    BY <1>1, <1>2
  <2> QED BY <1>3, <1>7, <2>1
<1>9. Sorted(S) \in Seq(S) /\ Len(Sorted(S)) = n /\ DOMAIN Sorted(S) = 1..n
  <2>1. Sorted(S) \in [1..n -> S]
    BY <1>7, Zenon DEF Sorted
  <2> QED BY <1>1, <2>1
<1> QED BY <1>8, <1>9

-----------------------------------------------------------------------------
(* What check_deferred() leaves of its list are entries of it.             *)
LEMMA ErasedType ==
  ASSUME NEW D, NEW list \in Seq(D), NEW i \in Nat
  PROVE  Erased(list, i) \in Seq(D)
<1>0. Len(list) \in Nat
  OBVIOUS
<1>1. CASE i < Len(list)
  <2>1. /\ SubSeq(list, 1, i) \in Seq(D)
        /\ SubSeq(list, i + 2, Len(list)) \in Seq(D)
    BY <1>0, <1>1
  <2>2. (i + 1) - 1 = i /\ (i + 1) + 1 = i + 2
    OBVIOUS
  <2>3. Erased(list, i) = SubSeq(list, 1, (i + 1) - 1) \o SubSeq(list, (i + 1) + 1, Len(list))
    BY <1>1 DEF Erased, RemoveAt
  <2>4. Erased(list, i) = SubSeq(list, 1, i) \o SubSeq(list, i + 2, Len(list))
    BY <2>2, <2>3
  <2> QED BY <2>1, <2>4
<1>2. CASE ~(i < Len(list))
  <2>1. Erased(list, i) = SubSeq(list, 1, Len(list) - 1)
    BY <1>2 DEF Erased, Front
  <2>2. SubSeq(list, 1, Len(list) - 1) \in Seq(D)
    BY <1>0
  <2> QED BY <2>1, <2>2
<1> QED BY <1>1, <1>2

LEMMA RetriedType ==
  ASSUME NEW D, deferred \in Seq(D), NEW R
  PROVE  Retried(R) \in Seq(D)
<1> DEFINE A == Seq(D)
           n == Cardinality({i \in DOMAIN deferred : deferred[i] \in R})
           F == [x \in A \X Nat |-> IF x[2] = 0 THEN x[1] ELSE Erased(x[1], x[2] - 1)]
           Left(g) == [k \in 0..n |-> IF k = 0 THEN deferred ELSE Erased(g[k - 1], k - 1)]
<1>1. n \in Nat
  <2>1. {i \in DOMAIN deferred : deferred[i] \in R} \subseteq 1..Len(deferred) /\ Len(deferred) \in Nat
    OBVIOUS
  <2>2. IsFiniteSet(1..Len(deferred))
    BY <2>1, FS_Interval
  <2>3. IsFiniteSet({i \in DOMAIN deferred : deferred[i] \in R})
    BY <2>1, <2>2, FS_Subset
  <2> QED BY <2>3, FS_CardinalityType
<1> HIDE DEF n
<1>2. F \in [A \X Nat -> A]
  <2>1. ASSUME NEW x \in A \X Nat
        PROVE  (IF x[2] = 0 THEN x[1] ELSE Erased(x[1], x[2] - 1)) \in A
    <3>1. x[1] \in Seq(D) /\ x[2] \in Nat /\ (x[2] # 0 => x[2] - 1 \in Nat)
      OBVIOUS
    <3> QED BY <3>1, ErasedType
  <2> QED BY <2>1
<1> HIDE DEF A, F
<1>3. deferred \in A
  BY DEF A
<1>4. PICK f \in [0..n -> A] : Recurs(f, deferred, F, n)
  BY <1>1, <1>2, <1>3, RecursionExists
<1>5. ASSUME NEW k \in 0..n
      PROVE  f[k] = IF k = 0 THEN deferred ELSE Erased(f[k - 1], k - 1)
  <2>1. CASE k = 0
    BY <1>4, <2>1 DEF Recurs
  <2>2. CASE k # 0
    <3>1. k \in 1..n /\ k - 1 \in 0..n /\ k \in Nat
      BY <1>1, <2>2
    <3>2. f[k] = F[<<f[k - 1], k>>] /\ f[k - 1] \in A
      BY <1>4, <3>1 DEF Recurs
    <3> QED BY <2>2, <3>1, <3>2 DEF F
  <2> QED BY <2>1, <2>2
<1>6. f = Left(f)
  BY <1>4, <1>5
<1> DEFINE left == CHOOSE g : g = Left(g)
<1>7. left = Left(left)
  BY <1>6
<1>8. Retried(R) = left[n]
  BY DEF Retried, n
<1> HIDE DEF left
<1>9. left[0] = deferred
  BY <1>1, <1>7
<1>10. ASSUME NEW k \in Nat, k < n, left[k] \in A
       PROVE  left[k + 1] \in A
  <2>1. k + 1 \in 0..n /\ k + 1 # 0 /\ (k + 1) - 1 = k
    BY <1>1, <1>10
  <2>2. left[k + 1] = Erased(left[k], k)
    BY <1>7, <2>1
  <2> QED BY <1>10, <2>2, ErasedType DEF A
<1> DEFINE S == {k \in Nat : left[k] \in A}
<1>11. 0 \in S /\ \A k \in Nat : k < n /\ k \in S => k + 1 \in S
  BY <1>3, <1>9, <1>10
<1>12. 0..n \subseteq S
  <2> HIDE DEF S
  <2> QED BY <1>1, <1>11, BoundedInduction
<1> QED BY <1>1, <1>8, <1>12 DEF A

-----------------------------------------------------------------------------
(* The keys of the maps.  The connections map has an entry for the two     *)
(* channels and for handles given to the user, as has what the deferred    *)
(* list, load_topology() and bind() hold; few enough to be walked.         *)
Registered == {m \in MainId : mains[m] # "none"}

Keys ==
  /\ IsFiniteSet(made) /\ IsFiniteSet(Registered)
  /\ Entries \subseteq made \cup {Ch1, Ch2}
  /\ deferred \in Seq(made)
  /\ user = "bind" => hdl \in made

LEMMA InitKeys == Init => TypeOK /\ Keys
<1> SUFFICES ASSUME Init PROVE TypeOK /\ Keys
  OBVIOUS
<1>1. /\ conn \in [Handle -> Slot] /\ inbox \in [Handle -> BOOLEAN] /\ linger = {} /\ unsent = {}
      /\ chmap \in [Handle -> {"none", "directory", "user"}]
      /\ mains \in [MainId -> {"none", "null", "user"}]
  BY DEF Init, Slot
<1>2. /\ res \in [Name -> Handle \cup {NoHandle}] /\ ports \in [Port -> Handle \cup {NoHandle}]
      /\ hdl \in Handle \cup {NoHandle} /\ todo \in Seq(Call)
  BY ProgramAssumption DEF Init
<1>3. /\ made = {} /\ deferred = <<>> /\ items = <<>> /\ ready = {} /\ plan = <<>> /\ step = 0
      /\ failed = {} /\ advertised = {} /\ cur = 0
  BY DEF Init
<1>4. step \in 0..Len(plan) /\ deferred \in Seq(Handle) /\ deferred \in Seq(made)
      /\ items \in Seq(Handle \X {"open", "closed"}) /\ cur \in Nat
  BY <1>3
<1>5. TypeOK
  BY <1>1, <1>2, <1>3, <1>4 DEF Init, TypeOK, Inside
<1>6. Registered = {} /\ Entries \subseteq {Ch1, Ch2}
  BY DEF Init, Registered, Entries
<1> QED BY <1>3, <1>4, <1>5, <1>6, FS_EmptySet DEF Keys, Init

(* The walks over the maps.                                                *)
LEMMA EntriesWalk ==
  ASSUME TypeOK, Keys, NEW S \in SUBSET Entries
  PROVE  /\ S \in SUBSET Nat /\ IsFiniteSet(S)
         /\ Sorted(S) \in Seq(S) /\ Len(Sorted(S)) = Cardinality(S)
         /\ \A x \in S : \E k \in DOMAIN Sorted(S) : Sorted(S)[k] = x
<1>1. IsFiniteSet((made \cup {Ch1}) \cup {Ch2})
  BY FS_AddElement DEF Keys
<1>2. S \subseteq (made \cup {Ch1}) \cup {Ch2} /\ S \subseteq Handle
  BY DEF Keys, Entries
<1>3. IsFiniteSet(S) /\ S \in SUBSET Nat
  BY <1>1, <1>2, FS_Subset, HandleAssumption
<1> QED BY <1>3, SortedKeys

LEMMA MainsWalk ==
  ASSUME Keys, NEW S \in SUBSET Registered
  PROVE  Sorted(S) \in Seq(S) /\ S \subseteq Nat
<1>1. IsFiniteSet(S) /\ S \in SUBSET Nat
  BY FS_Subset, MainAssumption DEF Keys, Registered
<1> QED BY <1>1, SortedKeys

(* refresh_pollitems(): its bound leaves no entry with a socket out.       *)
LEMMA PollitemsType ==
  ASSUME TypeOK, Keys
  PROVE  /\ RefreshPollitems \in Seq(Handle \X {"open", "closed"})
         /\ \A k \in DOMAIN RefreshPollitems :
              LET h == RefreshPollitems[k][1] IN
              h \in Handle /\ conn[h] \in {"open", "closed"}
         /\ conn[Ch1] # "absent" =>
              \A h \in Entries \ {Ch1} : conn[h] # "null" =>
                 \E k \in DOMAIN RefreshPollitems : RefreshPollitems[k][1] = h
<1> DEFINE T == {h \in Entries : h # Ch1 /\ conn[h] # "null"}
           taken == Sorted(T)
           n == Cardinality(Entries) - 1
           len == IF Len(taken) < n THEN Len(taken) ELSE n
<1>1. /\ taken \in Seq(T) /\ Len(taken) = Cardinality(T) /\ T \subseteq Entries
      /\ \A x \in T : \E k \in DOMAIN taken : taken[k] = x
  BY EntriesWalk
<1>2. \A h \in T : h \in Handle /\ conn[h] \in {"open", "closed"}
  BY DEF Entries, TypeOK, Slot
<1>3. IsFiniteSet(Entries) /\ Cardinality(Entries) \in Nat /\ Len(taken) \in Nat
  BY <1>1, EntriesWalk, FS_CardinalityType
<1> HIDE DEF T, taken
<1>4. RefreshPollitems = [k \in 1..len |-> <<taken[k], conn[taken[k]]>>]
  BY DEF RefreshPollitems, T, taken
<1>5. \A k \in 1..len : taken[k] \in T
  <2> TAKE k \in 1..len
  <2>1. k \in 1..Len(taken)
    BY <1>3
  <2> QED BY <1>1, <2>1
<1>6. len \in Int /\ len <= Len(taken)
  BY <1>3
<1>7. RefreshPollitems \in Seq(Handle \X {"open", "closed"})
  <2>1. CASE len \in Nat
    <3> HIDE DEF len
    <3> QED BY <1>2, <1>4, <1>5, <2>1
  <2>2. CASE len \notin Nat
    <3>1. Cardinality(Entries) = 0
      BY <1>3, <2>2
    <3>2. Entries = {}
      BY <1>3, <3>1, FS_EmptySet
    <3>3. T = {} /\ len = -1
      BY <1>3, <3>1, <3>2 DEF T
    <3>4. 1..len = 1..0
      BY <3>3
    <3> HIDE DEF len
    <3>5. RefreshPollitems = [k \in 1..0 |-> <<taken[k], conn[taken[k]]>>]
      BY <1>4, <3>4, Zenon
    <3>6. RefreshPollitems \in [1..0 -> Handle \X {"open", "closed"}]
      BY <3>5
    <3>7. RefreshPollitems = <<>>
      BY <3>6
    <3> QED BY <3>7
  <2> QED BY <2>1, <2>2
<1>8. \A k \in DOMAIN RefreshPollitems :
         RefreshPollitems[k][1] \in Handle /\ conn[RefreshPollitems[k][1]] \in {"open", "closed"}
  <2> HIDE DEF len
  <2> QED BY <1>2, <1>4, <1>5
<1>9. ASSUME conn[Ch1] # "absent", NEW h \in Entries \ {Ch1}, conn[h] # "null"
      PROVE  \E k \in DOMAIN RefreshPollitems : RefreshPollitems[k][1] = h
  <2>1. Ch1 \in Entries
    BY <1>9, HandleAssumption DEF Entries
  <2>2. T \subseteq Entries \ {Ch1}
    BY DEF T
  <2>3. /\ IsFiniteSet(Entries \ {Ch1})
        /\ Cardinality(Entries \ {Ch1}) = Cardinality(Entries) - 1
    BY <1>3, <2>1, FS_RemoveElement
  <2>4. Len(taken) <= n
    BY <1>1, <2>2, <2>3, FS_Subset
  <2>5. len = Len(taken)
    BY <1>3, <2>4
  <2>6. h \in T
    BY <1>9 DEF T
  <2>7. PICK k \in 1..Len(taken) : taken[k] = h
    BY <1>1, <2>6
  <2> HIDE DEF len
  <2> QED BY <1>4, <2>5, <2>7
<1> QED BY <1>7, <1>8, <1>9


-----------------------------------------------------------------------------
(* What the parts of an action do to the types and to the keys.            *)
PlanSteps == [do : {"bind"}, name : Name, port : Port \cup {0}]
  \cup [do : {"connect", "attach"}, name : Name] \cup [do : {"main"}, id : MainId, known : BOOLEAN]

LEMMA PlanType == TypeOK => plan \in Seq(PlanSteps) /\ Len(plan) \in Nat
<1> SUFFICES ASSUME TypeOK PROVE plan \in Seq(PlanSteps)
  OBVIOUS
<1>1. Topology \subseteq Seq(PlanSteps)
  BY TopologyAssumption, Zenon DEF PlanSteps
<1>2. <<>> \in Seq(PlanSteps)
  OBVIOUS
<1> QED BY <1>1, <1>2 DEF TypeOK

LEMMA ReturnsType ==
  ASSUME TypeOK, NEW h \in Handle, Returns(h) \/ (NextStep /\ step # 0) \/ Ended
  PROVE  /\ Returns(h) => user' = "free"
         /\ plan' \in Topology \cup {<<>>} /\ step' \in 0..Len(plan')
         /\ res' \in [Name -> Handle \cup {NoHandle}]
<1>1. CASE Ended
  BY <1>1 DEF Ended, Returns
<1>2. CASE UNCHANGED <<plan, step, res>> /\ Returns(h)
  BY <1>2 DEF TypeOK, Returns
<1>3. CASE step # 0 /\ step # Len(plan) /\ step' = step + 1 /\ plan' = plan
           /\ res' \in {res, [res EXCEPT ![plan[step].name] = h]}
  <2>1. Len(plan) \in Nat
    BY PlanType
  <2>2. step' \in 0..Len(plan')
    <3>1. step \in 0..Len(plan)
      BY DEF TypeOK
    <3> QED BY <1>3, <2>1, <3>1
  <2>3. res' \in [Name -> Handle \cup {NoHandle}]
    BY <1>3 DEF TypeOK
  <2>4. Returns(h) => user' = "free"
    BY DEF Returns
  <2>5. plan' \in Topology \cup {<<>>}
    BY <1>3 DEF TypeOK
  <2> QED BY <2>2, <2>3, <2>4, <2>5
<1>4. \/ Ended
      \/ UNCHANGED <<plan, step, res>> /\ Returns(h)
      \/ /\ step # 0 /\ step # Len(plan) /\ step' = step + 1 /\ plan' = plan
         /\ res' \in {res, [res EXCEPT ![plan[step].name] = h]}
  BY DEF Returns, NextStep
<1> QED BY <1>1, <1>2, <1>3, <1>4, Zenon

LEMMA MadeGrows ==
  ASSUME TypeOK, Keys, NEW h \in Fresh, made' = made \cup {h},
         \/ conn' = conn
         \/ conn' = [conn EXCEPT ![h] = "open"]
  PROVE  /\ h \in Handle /\ h \notin made /\ h \in made'
         /\ conn' \in [Handle -> Slot] /\ made' \subseteq Handle
         /\ IsFiniteSet(made') /\ Entries' \subseteq made' \cup {Ch1, Ch2}
         /\ deferred \in Seq(made') /\ Append(deferred, h) \in Seq(made')
<1>1. h \in Handle /\ h \notin made
  BY DEF Fresh
<1>2. conn' \in [Handle -> Slot]
  BY DEF TypeOK, Slot
<1>3. IsFiniteSet(made')
  BY FS_AddElement DEF Keys
<1>4. Entries' \subseteq made' \cup {Ch1, Ch2}
  BY DEF Entries, Keys, TypeOK
<1>5. deferred \in Seq(made')
  <2>1. deferred \in [1..Len(deferred) -> made] /\ Len(deferred) \in Nat
    BY DEF Keys
  <2>2. deferred \in [1..Len(deferred) -> made']
    BY <2>1
  <2> QED BY <2>1, <2>2
<1>6. Append(deferred, h) \in Seq(made')
  BY <1>5
<1>7. made' \subseteq Handle
  BY <1>1 DEF TypeOK
<1> QED BY <1>1, <1>2, <1>3, <1>4, <1>5, <1>6, <1>7

LEMMA OpensKeys ==
  ASSUME TypeOK, Keys, NEW h \in Fresh, Opens(h)
  PROVE  /\ h \in Handle /\ h \notin made /\ hdl' = h /\ hdl' \in made'
         /\ conn' \in [Handle -> Slot] /\ made' \subseteq Handle
         /\ IsFiniteSet(made') /\ Entries' \subseteq made' \cup {Ch1, Ch2}
         /\ deferred \in Seq(made')
  BY MadeGrows DEF Opens

LEMMA RegisteredFinite ==
  ASSUME Keys, NEW m, Registered' \subseteq Registered \cup {m}
  PROVE  IsFiniteSet(Registered')
  BY FS_AddElement, FS_Subset DEF Keys

LEMMA PlanStep ==
  ASSUME TypeOK, NEW what, Loading(what)
  PROVE  /\ step \in 1..Len(plan) /\ plan \in Topology /\ plan[step].do = what
         /\ what \in {"bind", "connect", "attach"} => plan[step].name \in Name
         /\ what = "bind" => plan[step].port \in Port \cup {0}
         /\ what = "main" => plan[step].id \in MainId
<1>1. step \in 1..Len(plan) /\ plan \in Topology
  <2>1. step # 0 /\ step \in 0..Len(plan)
    BY DEF Loading, TypeOK
  <2>2. plan # <<>>
    BY <2>1
  <2>3. plan \in Topology
    BY <2>2 DEF TypeOK
  <2>4. Len(plan) \in Nat
    BY PlanType
  <2> QED BY <2>1, <2>3, <2>4
<1>2. \/ plan[step] \in [do : {"bind"}, name : Name, port : Port \cup {0}]
      \/ plan[step] \in [do : {"connect", "attach"}, name : Name]
      \/ plan[step] \in [do : {"main"}, id : MainId, known : BOOLEAN]
  <2>1. plan[step] \in PlanSteps
    BY <1>1, PlanType
  <2> QED BY <2>1 DEF PlanSteps
<1>3. plan[step].do = what
  BY DEF Loading
<1> QED BY <1>1, <1>2, <1>3

-----------------------------------------------------------------------------
(* The types by the group of variables, since an action touches few.       *)
MapTypes  == conn \in [Handle -> Slot] /\ made \subseteq Handle /\ deferred \in Seq(Handle)
BackTypes == /\ inbox \in [Handle -> BOOLEAN] /\ chmap \in [Handle -> {"none", "directory", "user"}]
             /\ mains \in [MainId -> {"none", "null", "user"}]
LoopTypes == /\ running \in BOOLEAN /\ at \in {"idle", "starting", "returned"} \cup Inside
             /\ items \in Seq(Handle \X {"open", "closed"}) /\ ready \subseteq DOMAIN items
             /\ cur \in Nat /\ stale \in BOOLEAN
UserTypes == /\ user \in {"free", "bind", "terminate", "terminated", "destroy", "context", "destroyed"}
             /\ hdl \in Handle \cup {NoHandle} /\ todo \in Seq(Call)
PlanTypes == /\ plan \in Topology \cup {<<>>} /\ step \in 0..Len(plan)
             /\ res \in [Name -> Handle \cup {NoHandle}]
PortTypes == /\ ports \in [Port -> Handle \cup {NoHandle}]
             /\ failed \subseteq Handle /\ advertised \subseteq Handle \X Port
SendTypes == linger \subseteq Handle /\ unsent \subseteq linger
Ways      == {"none", "closed socket", "null socket", "null callback", "stale iterator",
              "null handle", "freed object"}

LEMMA TypeParts ==
  /\ TypeOK <=> /\ MapTypes /\ BackTypes /\ LoopTypes /\ UserTypes /\ PlanTypes /\ PortTypes
                /\ SendTypes /\ fault \in Ways
  /\ TypeOK' <=> /\ MapTypes' /\ BackTypes' /\ LoopTypes' /\ UserTypes' /\ PlanTypes' /\ PortTypes'
                 /\ SendTypes' /\ fault' \in Ways
  BY Zenon DEF TypeOK, MapTypes, BackTypes, LoopTypes, UserTypes, PlanTypes, PortTypes, SendTypes, Ways

LEMMA PartsKept ==
  /\ MapTypes /\ UNCHANGED <<conn, made, deferred>> => MapTypes'
  /\ BackTypes /\ UNCHANGED <<inbox, chmap, mains>> => BackTypes'
  /\ LoopTypes /\ UNCHANGED <<running, at, items, ready, cur, stale>> => LoopTypes'
  /\ UserTypes /\ UNCHANGED <<user, hdl, todo>> => UserTypes'
  /\ PlanTypes /\ UNCHANGED <<plan, step, res>> => PlanTypes'
  /\ PortTypes /\ UNCHANGED <<ports, failed, advertised>> => PortTypes'
  /\ SendTypes /\ UNCHANGED <<linger, unsent>> => SendTypes'
<1>1. MapTypes /\ UNCHANGED <<conn, made, deferred>> => MapTypes'
  BY DEF MapTypes
<1>2. BackTypes /\ UNCHANGED <<inbox, chmap, mains>> => BackTypes'
  BY DEF BackTypes
<1>3. LoopTypes /\ UNCHANGED <<running, at, items, ready, cur, stale>> => LoopTypes'
  BY DEF LoopTypes
<1>4. UserTypes /\ UNCHANGED <<user, hdl, todo>> => UserTypes'
  BY DEF UserTypes
<1>5. PlanTypes /\ UNCHANGED <<plan, step, res>> => PlanTypes'
  BY Zenon DEF PlanTypes
<1>6. PortTypes /\ UNCHANGED <<ports, failed, advertised>> => PortTypes'
  BY DEF PortTypes
<1>7. SendTypes /\ UNCHANGED <<linger, unsent>> => SendTypes'
  BY DEF SendTypes
<1> QED BY <1>1, <1>2, <1>3, <1>4, <1>5, <1>6, <1>7

(* Types are kept.                                                         *)
LEMMA NextTypeOK == TypeOK /\ Keys /\ [Next]_vars => TypeOK'
<1> SUFFICES ASSUME TypeOK, Keys, [Next]_vars PROVE TypeOK'
  OBVIOUS
<1> USE DEF mapVars, portVars, loopVars, workVars, sendVars
<1>0. /\ MapTypes /\ BackTypes /\ LoopTypes /\ UserTypes /\ PlanTypes /\ PortTypes
      /\ SendTypes /\ fault \in Ways
  BY TypeParts
<1>1. CASE BeginRun
  <2>1. LoopTypes'
    BY <1>0, <1>1 DEF BeginRun, LoopTypes, Inside
  <2> QED BY <1>0, <1>1, <2>1, TypeParts, PartsKept DEF BeginRun
<1>2. CASE TestRunning
  <2>1. items' \in Seq(Handle \X {"open", "closed"})
    <3>1. items' = RefreshPollitems \/ items' = <<>>
      BY <1>2 DEF TestRunning
    <3>2. <<>> \in Seq(Handle \X {"open", "closed"})
      OBVIOUS
    <3> QED BY <3>1, <3>2, PollitemsType
  <2>2. LoopTypes'
    BY <1>0, <1>2, <2>1 DEF TestRunning, LoopTypes, Inside
  <2> QED BY <1>0, <1>2, <2>1, <2>2, TypeParts, PartsKept DEF TestRunning
<1>3. CASE Poll
  <2>1. ready' \subseteq DOMAIN items
    BY <1>3 DEF Poll, Polled
  <2>2. LoopTypes'
    BY <1>0, <1>3, <2>1 DEF Poll, LoopTypes, Inside
  <2> QED BY <1>0, <1>3, <2>1, <2>2, TypeParts, PartsKept DEF Poll
<1>4. CASE Dispatch
  <2>1. LoopTypes'
    <3>1. cur' = cur + 1 /\ UNCHANGED <<running, at, items, ready, stale>>
      BY <1>4, Zenon DEF Dispatch
    <3> QED BY <1>0, <3>1 DEF LoopTypes
  <2>2. MapTypes' /\ BackTypes' /\ fault' \in Ways
    <3>1. CASE UNCHANGED <<mapVars, inbox, fault>>
      BY <1>0, <1>4, <3>1, PartsKept DEF Dispatch
    <3>2. CASE (\E why \in {"closed socket", "null socket"} : Dies(why)) /\ UNCHANGED <<mapVars, inbox>>
      BY <1>0, <1>4, <3>2, PartsKept DEF Dispatch, Dies, Ways
    <3>3. CASE Receive(items[cur][1]) /\ UNCHANGED <<conn, deferred, fault>>
      <4>1. BackTypes'
        BY <1>0, <1>4, <3>3 DEF Dispatch, Receive, BackTypes
      <4> QED BY <1>0, <3>3, <4>1, PartsKept DEF Receive
    <3>4. CASE Receive(items[cur][1]) /\ DirectoryUpdate
      <4>1. BackTypes' /\ made' = made
        BY <1>0, <1>4, <3>4 DEF Dispatch, Receive, BackTypes
      <4>2. CASE Dies("closed socket") /\ UNCHANGED <<conn, deferred>>
        BY <1>0, <4>1, <4>2, PartsKept DEF Dies, Ways
      <4>3. ASSUME NEW R \in SUBSET ToSet(deferred), deferred' = Retried(R), UNCHANGED fault,
                   conn' = [h \in Handle |-> IF h \in R THEN "open" ELSE conn[h]]
            PROVE  MapTypes'
        <5>1. deferred' \in Seq(Handle)
          BY <1>0, <4>3, RetriedType DEF MapTypes
        <5> QED BY <1>0, <4>1, <4>3, <5>1 DEF MapTypes, Slot
      <4> QED BY <1>0, <3>4, <4>1, <4>2, <4>3 DEF DirectoryUpdate
    <3> QED BY <1>4, <3>1, <3>2, <3>3, <3>4 DEF Dispatch, Receive
  <2> QED BY <1>0, <1>4, <2>1, <2>2, TypeParts, PartsKept DEF Dispatch
<1>5. CASE DispatchDone
  <2>1. items' \in Seq(Handle \X {"open", "closed"}) /\ ready' \subseteq DOMAIN items'
    BY <1>5 DEF DispatchDone
  <2>2. LoopTypes'
    BY <1>0, <1>5, <2>1 DEF DispatchDone, LoopTypes, Inside
  <2> QED BY <1>0, <1>5, <2>1, <2>2, TypeParts, PartsKept DEF DispatchDone
<1>6. ASSUME NEW S \in SUBSET Registered, StandsOn(Sorted(S))
      PROVE  cur' \in Nat /\ at' \in Inside
  <2>1. Sorted(S) \in Seq(S) /\ S \subseteq Nat
    BY MainsWalk
  <2>2. Sorted(S) # <<>> => Head(Sorted(S)) \in S
    BY <2>1
  <2>3. Sorted(S) # <<>> => Head(Sorted(S)) \in Nat
    BY <2>1, <2>2, Zenon
  <2> QED BY <1>6, <2>3 DEF StandsOn, Inside
<1>7. CASE HookDone
  <2>1. StandsOn(Sorted(Registered))
    BY <1>7 DEF HookDone, Registered
  <2>2. cur' \in Nat /\ at' \in Inside
    BY <1>6, <2>1
  <2>3. LoopTypes'
    BY <1>0, <1>7, <2>2 DEF HookDone, LoopTypes
  <2> QED BY <1>0, <1>7, <2>1, <2>2, <2>3, TypeParts, PartsKept DEF HookDone
<1>8. CASE CallMain
  <2>1. at' \in {at, "advance"} /\ fault' \in Ways
    BY <1>0, <1>8 DEF CallMain, Dies, Ways
  <2>2. LoopTypes'
    BY <1>0, <1>8, <2>1 DEF CallMain, LoopTypes, Inside
  <2> QED BY <1>0, <1>8, <2>1, <2>2, TypeParts, PartsKept DEF CallMain
<1>9. CASE Advance
  <2>1. \A i \in Nat : After(i) = Sorted({m \in Registered : m > i})
    <3> TAKE i \in Nat
    <3>1. {m \in MainId : m > i /\ mains[m] # "none"} = {m \in Registered : m > i}
      BY DEF Registered
    <3> QED BY <3>1 DEF After
  <2>2. cur' \in Nat /\ at' \in Inside \cup {at}
    <3>0. cur \in Nat /\ MainId \subseteq Nat
      BY <1>0, MainAssumption DEF LoopTypes
    <3>1. CASE \E i \in Nat : StandsOn(After(i))
      <4>1. PICK i \in Nat : StandsOn(Sorted({m \in Registered : m > i}))
        BY <2>1, <3>1
      <4> QED BY <1>6, <4>1
    <3>2. CASE UNCHANGED <<at, cur>>
      BY <3>0, <3>2
    <3> QED BY <1>9, <3>0, <3>1, <3>2 DEF Advance
  <2>3. stale' \in BOOLEAN /\ fault' \in Ways
    BY <1>0, <1>9 DEF Advance, Dies, LoopTypes, Ways
  <2>4. LoopTypes'
    BY <1>0, <1>9, <2>2, <2>3 DEF Advance, LoopTypes
  <2> QED BY <1>0, <1>9, <2>1, <2>2, <2>3, <2>4, TypeParts, PartsKept DEF Advance
<1>10. ASSUME \/ \E call \in Call : Calls(call) \/ Ends(call)
      PROVE  todo' \in Seq(Call)
  BY <1>0, <1>10 DEF Calls, Ends, UserTypes
<1>11. CASE CallConnect
  <2>1. todo' \in Seq(Call)
    BY <1>10, <1>11 DEF CallConnect, Call
  <2>2. UserTypes'
    BY <1>0, <1>11, <2>1 DEF CallConnect, Calls, UserTypes
  <2>3. MapTypes'
    <3>1. PICK h \in Fresh : Connect(h)
      BY <1>11 DEF CallConnect
    <3>2. conn' \in [Handle -> Slot] /\ made' \subseteq Handle /\ h \in Handle
      BY <3>1, MadeGrows DEF Connect
    <3> QED BY <1>0, <3>1, <3>2 DEF Connect, MapTypes
  <2>4. SendTypes'
    BY <1>0, <1>11 DEF CallConnect, Connect, Fresh, SendTypes
  <2> QED BY <1>0, <1>11, <2>1, <2>2, <2>3, <2>4, TypeParts, PartsKept DEF CallConnect
<1>12. CASE CallBind
  <2>1. todo' \in Seq(Call)
    BY <1>10, <1>12 DEF CallBind, Call
  <2>2. MapTypes' /\ hdl' \in Handle
    <3>1. PICK h \in Fresh : Opens(h)
      BY <1>12 DEF CallBind
    <3>2. conn' \in [Handle -> Slot] /\ made' \subseteq Handle /\ hdl' \in Handle
      BY <3>1, OpensKeys
    <3> QED BY <1>0, <1>12, <3>2 DEF CallBind, MapTypes
  <2>3. UserTypes'
    BY <1>0, <1>12, <2>1, <2>2 DEF CallBind, UserTypes
  <2> QED BY <1>0, <1>12, <2>1, <2>2, <2>3, TypeParts, PartsKept DEF CallBind
<1>13. CASE RunAsync
  <2>1. todo' \in Seq(Call)
    BY <1>10, <1>13 DEF RunAsync, Call
  <2>2. UserTypes'
    BY <1>0, <1>13, <2>1 DEF RunAsync, UserTypes
  <2>3. LoopTypes'
    BY <1>0, <1>13 DEF RunAsync, LoopTypes
  <2> QED BY <1>0, <1>13, <2>1, <2>2, <2>3, TypeParts, PartsKept DEF RunAsync
<1>14. CASE Stop
  <2>1. todo' \in Seq(Call)
    BY <1>10, <1>14 DEF Stop, Call
  <2>2. UserTypes'
    BY <1>0, <1>14, <2>1 DEF Stop, UserTypes
  <2>3. LoopTypes'
    BY <1>0, <1>14 DEF Stop, LoopTypes
  <2> QED BY <1>0, <1>14, <2>1, <2>2, <2>3, TypeParts, PartsKept DEF Stop
<1>15. CASE LoadTopology
  <2>1. todo' \in Seq(Call)
    BY <1>10, <1>15 DEF LoadTopology, Call
  <2>2. UserTypes'
    BY <1>0, <1>15, <2>1 DEF LoadTopology, UserTypes
  <2>3. PlanTypes'
    <3>1. plan' \in Topology /\ step' = IF plan' = <<>> THEN 0 ELSE 1
      BY <1>15 DEF LoadTopology
    <3>2. plan' \in Seq(PlanSteps)
      BY <3>1, TopologyAssumption, Zenon DEF PlanSteps
    <3>3. Len(plan') \in Nat /\ (plan' # <<>> => Len(plan') > 0)
      BY <3>2
    <3> QED BY <1>0, <1>15, <3>1, <3>3 DEF LoadTopology, PlanTypes
  <2>4. BackTypes'
    BY <1>0, <1>15 DEF LoadTopology, BackTypes
  <2>5. LoopTypes'
    BY <1>0, <1>15 DEF LoadTopology, Erases, LoopTypes
  <2> QED BY <1>0, <1>15, <2>1, <2>2, <2>3, <2>4, <2>5, TypeParts, PartsKept DEF LoadTopology
<1>16. CASE LoadBindRandom
  <2>1. MapTypes' /\ hdl' \in Handle
    <3>1. PICK h \in Fresh : Opens(h)
      BY <1>16 DEF LoadBindRandom
    <3>2. conn' \in [Handle -> Slot] /\ made' \subseteq Handle /\ hdl' \in Handle
      BY <3>1, OpensKeys
    <3> QED BY <1>0, <1>16, <3>2 DEF LoadBindRandom, MapTypes
  <2>2. UserTypes'
    BY <1>0, <1>16, <2>1 DEF LoadBindRandom, UserTypes
  <2> QED BY <1>0, <1>16, <2>1, <2>2, TypeParts, PartsKept DEF LoadBindRandom
<1>17. ASSUME NEW h \in Handle, Returns(h) \/ (NextStep /\ step # 0) \/ Ended
      PROVE  PlanTypes'
  BY <1>17, ReturnsType, Zenon DEF PlanTypes
<1>18. CASE LoadBind
  <2>1. PICK h \in Fresh : /\ Opens(h)
                           /\ LET p == plan[step].port IN
                              \/ /\ ports[p] = NoHandle /\ ports' = [ports EXCEPT ![p] = h]
                                 /\ Subscribed(h, p)
                              \/ Ended /\ UNCHANGED <<ports, advertised, user>>
    BY <1>18 DEF LoadBind
  <2>2. h \in Handle /\ conn' \in [Handle -> Slot] /\ made' \subseteq Handle /\ hdl' \in Handle
    BY <2>1, OpensKeys
  <2>3. plan[step].port \in Port
    BY <1>18, PlanStep DEF LoadBind
  <2>4. MapTypes'
    BY <1>0, <1>18, <2>2 DEF LoadBind, MapTypes
  <2>5. PlanTypes'
    BY <1>17, <2>1, <2>2 DEF Subscribed
  <2>6. user' \in {"free", user}
    BY <2>1 DEF Subscribed, Returns
  <2>7. UserTypes'
    BY <1>0, <1>18, <2>2, <2>6 DEF LoadBind, UserTypes
  <2>8. ports' \in [Port -> Handle \cup {NoHandle}]
    BY <1>0, <2>1, <2>2, <2>3 DEF PortTypes
  <2>9. advertised' \subseteq Handle \X Port
    BY <1>0, <2>1, <2>2, <2>3 DEF Subscribed, PortTypes
  <2>10. PortTypes'
    BY <1>0, <1>18, <2>8, <2>9 DEF LoadBind, PortTypes
  <2> QED BY <1>0, <1>18, <2>1, <2>2, <2>3, <2>4, <2>5, <2>6, <2>7, <2>8, <2>9, <2>10, TypeParts, PartsKept DEF LoadBind
<1>19. CASE LoadConnect
  <2>1. PICK h \in Fresh : Connect(h) /\ Returns(h)
    BY <1>19 DEF LoadConnect
  <2>2. conn' \in [Handle -> Slot] /\ made' \subseteq Handle /\ h \in Handle
    BY <2>1, MadeGrows DEF Connect
  <2>3. MapTypes'
    BY <1>0, <2>1, <2>2 DEF Connect, MapTypes
  <2>4. PlanTypes'
    BY <1>17, <2>1, <2>2
  <2>5. UserTypes'
    BY <1>0, <1>19, <2>1 DEF LoadConnect, Returns, UserTypes
  <2>6. SendTypes'
    BY <1>0, <1>19, <2>1, <2>2 DEF LoadConnect, Connect, SendTypes
  <2> QED BY <1>0, <1>19, <2>1, <2>2, <2>3, <2>4, <2>5, <2>6, TypeParts, PartsKept DEF LoadConnect
<1>20. CASE LoadAttach
  <2>1. step # 0 /\ Ch1 \in Handle
    BY <1>20, HandleAssumption DEF LoadAttach, Loading
  <2>2. PlanTypes'
    <3>1. CASE UNCHANGED <<plan, step, res>>
      BY <1>0, <3>1, PartsKept
    <3>2. CASE NextStep
      BY <1>17, <2>1, <3>2
    <3> QED BY <1>20, <3>1, <3>2 DEF LoadAttach
  <2>3. BackTypes'
    BY <1>0, <1>20 DEF LoadAttach, BackTypes
  <2>4. fault' \in Ways
    BY <1>0, <1>20 DEF LoadAttach, Dies, Ways
  <2> QED BY <1>0, <1>20, <2>1, <2>2, <2>3, <2>4, TypeParts, PartsKept DEF LoadAttach
<1>21. CASE LoadMain
  <2>1. step # 0 /\ Ch1 \in Handle
    BY <1>21, HandleAssumption DEF LoadMain, Loading
  <2>2. PlanTypes'
    BY <1>17, <1>21, <2>1 DEF LoadMain
  <2>3. BackTypes'
    BY <1>0, <1>21 DEF LoadMain, BackTypes
  <2> QED BY <1>0, <1>21, <2>1, <2>2, <2>3, TypeParts, PartsKept DEF LoadMain
<1>22. CASE CallTerminate
  <2>1. todo' \in Seq(Call)
    BY <1>10, <1>22 DEF CallTerminate, Call
  <2>2. UserTypes'
    BY <1>0, <1>22, <2>1 DEF CallTerminate, UserTypes
  <2> QED BY <1>0, <1>22, <2>1, <2>2, TypeParts, PartsKept DEF CallTerminate
<1>23. CASE Destroy
  <2>1. todo' \in Seq(Call)
    BY <1>10, <1>23 DEF Destroy, Call
  <2>2. UserTypes'
    BY <1>0, <1>23, <2>1 DEF Destroy, UserTypes
  <2>3. LoopTypes'
    BY <1>0, <1>23 DEF Destroy, LoopTypes
  <2> QED BY <1>0, <1>23, <2>1, <2>2, <2>3, TypeParts, PartsKept DEF Destroy
<1>24. CASE CloseNext
  <2>1. Head(Remaining) \in Handle
    <3> DEFINE S == {h \in Entries : h > hdl}
    <3>1. Remaining \in Seq(S) /\ Remaining # <<>> /\ S \subseteq Handle
      BY <1>24, EntriesWalk DEF Remaining, CloseNext, Entries
    <3> HIDE DEF S
    <3> QED BY <3>1
  <2>2. MapTypes'
    BY <1>0, <1>24 DEF CloseNext, MapTypes, Slot
  <2>3. PortTypes'
    BY <1>0, <1>24 DEF CloseNext, PortTypes
  <2>4. fault' \in Ways
    BY <1>0, <1>24 DEF CloseNext, Dies, Ways
  <2>5. UserTypes'
    BY <1>0, <1>24, <2>1 DEF CloseNext, UserTypes
  <2> QED BY <1>0, <1>24, <2>1, <2>2, <2>3, <2>4, <2>5, TypeParts, PartsKept DEF CloseNext
<1>25. CASE AllClosed
  <2>1. UserTypes'
    BY <1>0, <1>25 DEF AllClosed, UserTypes
  <2> QED BY <1>0, <1>25, <2>1, TypeParts, PartsKept DEF AllClosed
<1>26. CASE ContextDestroyed
  <2>1. UserTypes'
    BY <1>0, <1>26 DEF ContextDestroyed, UserTypes
  <2> QED BY <1>0, <1>26, <2>1, TypeParts, PartsKept DEF ContextDestroyed
<1>27. CASE UseAfterDestroy
  <2>1. fault' \in Ways
    BY <1>27 DEF UseAfterDestroy, Dies, Ways
  <2> QED BY <1>0, <1>27, <2>1, TypeParts, PartsKept DEF UseAfterDestroy
<1>28. ASSUME NEW h \in Handle, Touch(h)
      PROVE  TypeOK'
  <2>1. todo' \in Seq(Call)
    BY <1>10, <1>28 DEF Touch, Call
  <2>2. UserTypes'
    BY <1>0, <1>28, <2>1 DEF Touch, Calls, UserTypes
  <2>3. MapTypes'
    BY <1>0, <1>28 DEF Touch, MapTypes, Slot
  <2> QED BY <1>0, <1>28, <2>1, <2>2, <2>3, TypeParts, PartsKept DEF Touch
<1>29. ASSUME NEW h \in Handle, Send(h)
      PROVE  TypeOK'
  <2>1. todo' \in Seq(Call)
    BY <1>10, <1>29 DEF Send, Call
  <2>2. UserTypes'
    BY <1>0, <1>29, <2>1 DEF Send, Calls, UserTypes
  <2>3. fault' \in Ways
    BY <1>0, <1>29 DEF Send, Dies, Ways
  <2>4. SendTypes'
    BY <1>0, <1>29 DEF Send, SendTypes
  <2> QED BY <1>0, <1>29, <2>1, <2>2, <2>3, <2>4, TypeParts, PartsKept DEF Send
<1>30. ASSUME NEW h \in Handle, Attach(h)
      PROVE  TypeOK'
  <2>1. todo' \in Seq(Call)
    BY <1>10, <1>30 DEF Attach, Call
  <2>2. UserTypes'
    BY <1>0, <1>30, <2>1 DEF Attach, Calls, UserTypes
  <2>3. BackTypes'
    BY <1>0, <1>30 DEF Attach, BackTypes
  <2> QED BY <1>0, <1>30, <2>1, <2>2, <2>3, TypeParts, PartsKept DEF Attach
<1>31. ASSUME NEW h \in Handle, Arrive(h)
      PROVE  TypeOK'
  <2>1. BackTypes'
    BY <1>0, <1>31 DEF Arrive, BackTypes
  <2> QED BY <1>0, <1>31, <2>1, TypeParts, PartsKept DEF Arrive
<1>32. ASSUME NEW m \in MainId, RegisterMain(m)
      PROVE  TypeOK'
  <2>1. todo' \in Seq(Call)
    BY <1>10, <1>32 DEF RegisterMain, Call
  <2>2. UserTypes'
    BY <1>0, <1>32, <2>1 DEF RegisterMain, Calls, UserTypes
  <2>3. BackTypes'
    BY <1>0, <1>32 DEF RegisterMain, BackTypes
  <2> QED BY <1>0, <1>32, <2>1, <2>2, <2>3, TypeParts, PartsKept DEF RegisterMain
<1>33. ASSUME NEW m \in MainId, UnregisterMain(m)
      PROVE  TypeOK'
  <2>1. todo' \in Seq(Call)
    BY <1>10, <1>33 DEF UnregisterMain, Call
  <2>2. UserTypes'
    BY <1>0, <1>33, <2>1 DEF UnregisterMain, Calls, UserTypes
  <2>3. BackTypes'
    BY <1>0, <1>33 DEF UnregisterMain, BackTypes
  <2>4. LoopTypes'
    BY <1>0, <1>33 DEF UnregisterMain, Erases, LoopTypes
  <2> QED BY <1>0, <1>33, <2>1, <2>2, <2>3, <2>4, TypeParts, PartsKept DEF UnregisterMain
<1>34. ASSUME NEW p \in Port, Subscribed(hdl, p), user = "bind"
      PROVE  /\ PlanTypes' /\ user' = "free" /\ hdl \in Handle
             /\ advertised' \subseteq Handle \X Port
  <2>1. hdl \in Handle
    BY <1>0, <1>34 DEF Keys, MapTypes
  <2>2. Returns(hdl) /\ advertised' \subseteq Handle \X Port
    BY <1>0, <1>34, <2>1 DEF Subscribed, PortTypes
  <2> QED BY <1>17, <2>1, <2>2 DEF Returns
<1>35. ASSUME NEW p \in Port, BindRandom(p)
      PROVE  TypeOK'
  <2>1. PlanTypes' /\ user' = "free" /\ hdl \in Handle /\ advertised' \subseteq Handle \X Port
    BY <1>34, <1>35 DEF BindRandom
  <2>2. UserTypes'
    BY <1>0, <1>35, <2>1 DEF BindRandom, UserTypes
  <2>3. PortTypes'
    BY <1>0, <1>35, <2>1 DEF BindRandom, PortTypes
  <2> QED BY <1>0, <1>35, <2>1, <2>2, <2>3, TypeParts, PartsKept DEF BindRandom
<1>36. ASSUME NEW p \in Port, RetryOtherPort(p)
      PROVE  TypeOK'
  <2>1. MapTypes' /\ hdl' \in Handle
    <3>1. PICK h \in Fresh : Opens(h)
      BY <1>36 DEF RetryOtherPort
    <3>2. conn' \in [Handle -> Slot] /\ made' \subseteq Handle /\ hdl' \in Handle
      BY <3>1, OpensKeys
    <3> QED BY <1>0, <1>36, <3>2 DEF RetryOtherPort, MapTypes
  <2>2. UserTypes'
    BY <1>0, <1>36, <2>1 DEF RetryOtherPort, UserTypes
  <2> QED BY <1>0, <1>36, <2>1, <2>2, TypeParts, PartsKept DEF RetryOtherPort
<1>37. ASSUME NEW p \in Port, BindErrorDropped(p)
      PROVE  TypeOK'
  <2>1. PlanTypes' /\ user' = "free" /\ hdl \in Handle /\ advertised' \subseteq Handle \X Port
    BY <1>34, <1>37 DEF BindErrorDropped
  <2>2. UserTypes'
    BY <1>0, <1>37, <2>1 DEF BindErrorDropped, UserTypes
  <2>3. PortTypes'
    BY <1>0, <1>37, <2>1 DEF BindErrorDropped, PortTypes
  <2> QED BY <1>0, <1>37, <2>1, <2>2, <2>3, TypeParts, PartsKept DEF BindErrorDropped
<1>38. ASSUME NEW p \in Port, CallBindAt(p) \/ CallZbind(p)
      PROVE  TypeOK'
  <2>1. PICK tell \in BOOLEAN : BindAt(p, tell)
    BY <1>38 DEF CallBindAt, CallZbind
  <2>2. PICK h \in Fresh :
          /\ Opens(h)
          /\ \/ /\ ports[p] = NoHandle /\ ports' = [ports EXCEPT ![p] = h]
                /\ advertised' = IF tell THEN advertised \cup {<<h, p>>} ELSE advertised
             \/ UNCHANGED <<ports, advertised>>
    BY <2>1 DEF BindAt
  <2>3. h \in Handle /\ conn' \in [Handle -> Slot] /\ made' \subseteq Handle /\ hdl' \in Handle
    BY <2>2, OpensKeys
  <2>4. ports' \in [Port -> Handle \cup {NoHandle}]
    BY <1>0, <2>2, <2>3 DEF PortTypes
  <2>5. advertised' \subseteq Handle \X Port
    BY <1>0, <2>2, <2>3 DEF PortTypes
  <2>6. PortTypes'
    BY <1>0, <2>1, <2>4, <2>5 DEF BindAt, PortTypes
  <2>7. todo' \in Seq(Call)
    BY <1>10, <1>38 DEF CallBindAt, CallZbind, Call
  <2>8. UserTypes'
    BY <1>0, <2>1, <2>3, <2>7 DEF BindAt, UserTypes
  <2>9. MapTypes'
    BY <1>0, <2>1, <2>3 DEF BindAt, MapTypes
  <2> QED BY <1>0, <1>38, <2>1, <2>2, <2>3, <2>4, <2>5, <2>6, <2>7, <2>8, <2>9, TypeParts, PartsKept DEF CallBindAt, CallZbind, BindAt
<1>39. CASE UNCHANGED vars
  BY <1>0, <1>39, TypeParts, PartsKept DEF vars
<1>40. ASSUME NEW h \in Handle, Taken(h)
       PROVE  TypeOK'
  <2>1. SendTypes'
    BY <1>0, <1>40 DEF Taken, SendTypes
  <2> QED BY <1>0, <1>40, <2>1, TypeParts, PartsKept DEF Taken
<1> QED
  BY <1>1, <1>2, <1>3, <1>4, <1>5, <1>7, <1>8, <1>9, <1>11, <1>12, <1>13, <1>14, <1>15,
     <1>16, <1>18, <1>19, <1>20, <1>21, <1>22, <1>23, <1>24, <1>25, <1>26, <1>27, <1>28,
     <1>29, <1>30, <1>31, <1>32, <1>33, <1>35, <1>36, <1>37, <1>38, <1>39, <1>40 DEF Next

-----------------------------------------------------------------------------
(* Keys is inductive.                                                      *)

(* One update of the directory, for the handles R that resolve.            *)
Resolved(R) ==
  /\ deferred' = Retried(R) /\ UNCHANGED <<made, fault>>
  /\ conn' = [h \in Handle |-> IF h \in R THEN "open" ELSE conn[h]]

LEMMA DispatchCases ==
  ASSUME Dispatch
  PROVE  \/ UNCHANGED mapVars
         \/ \E R \in SUBSET ToSet(deferred) : Resolved(R) /\ \A h \in R : conn[h] # "closed"
  BY DEF Dispatch, Receive, DirectoryUpdate, Resolved, mapVars

LEMMA ResolvedKeys ==
  ASSUME TypeOK, Keys, NEW R \in SUBSET ToSet(deferred), Resolved(R)
  PROVE  /\ R \subseteq made /\ Entries' \subseteq made' \cup {Ch1, Ch2}
         /\ deferred' \in Seq(made')
         /\ deferred' \in Seq(ToSet(deferred))
<1>1. ToSet(deferred) \subseteq made
  BY DEF ToSet, Keys
<1>2. deferred' \in Seq(made')
  BY RetriedType DEF Resolved, Keys
<1>3. deferred \in Seq(ToSet(deferred))
  <2>1. Len(deferred) \in Nat /\ deferred \in [1..Len(deferred) -> made]
    BY DEF Keys
  <2>2. deferred \in [1..Len(deferred) -> ToSet(deferred)]
    BY <2>1 DEF ToSet
  <2> QED BY <2>1, <2>2
<1>4. deferred' \in Seq(ToSet(deferred))
  BY <1>3, RetriedType DEF Resolved
<1> QED BY <1>1, <1>2, <1>4 DEF Resolved, Entries, Keys

LEMMA NextKeys == TypeOK /\ Keys /\ [Next]_vars => Keys'
<1> SUFFICES ASSUME TypeOK, Keys, [Next]_vars PROVE Keys'
  OBVIOUS
<1> USE DEF mapVars, loopVars, workVars, portVars, sendVars
<1>1. ASSUME UNCHANGED <<conn, made, deferred, mains>>, user' = "bind" => UNCHANGED <<user, hdl>>
      PROVE  Keys'
  BY <1>1 DEF Keys, Entries, Registered
<1>2. CASE \/ BeginRun \/ TestRunning \/ Poll \/ DispatchDone \/ HookDone \/ CallMain \/ Advance
           \/ RunAsync \/ Stop \/ LoadAttach \/ UseAfterDestroy
           \/ \E h \in Handle : Send(h) \/ Taken(h) \/ Attach(h) \/ Arrive(h)
  <2>1. UNCHANGED <<conn, made, deferred, mains, user, hdl>>
    BY <1>2 DEF BeginRun, TestRunning, Poll, DispatchDone, HookDone, CallMain, Advance, RunAsync,
                Stop, LoadAttach, UseAfterDestroy, Send, Taken, Attach, Arrive
  <2> QED BY <1>1, <2>1
<1>3. CASE CallTerminate \/ Destroy \/ AllClosed \/ ContextDestroyed
  <2>1. UNCHANGED <<conn, made, deferred, mains>> /\ user' # "bind"
    BY <1>3 DEF CallTerminate, Destroy, AllClosed, ContextDestroyed
  <2> QED BY <1>1, <2>1
<1>4. CASE \E p \in Port : BindRandom(p) \/ BindErrorDropped(p)
  <2>1. UNCHANGED <<conn, made, deferred, mains>> /\ user' = "free"
    BY <1>4 DEF BindRandom, BindErrorDropped, Subscribed, Returns
  <2> QED BY <1>1, <2>1
<1>5. ASSUME UNCHANGED <<conn, made, deferred, user, hdl>>,
             \E m : Registered' \subseteq Registered \cup {m}
      PROVE  Keys'
  BY <1>5, RegisteredFinite DEF Keys, Entries
<1>6. CASE LoadMain \/ \E m \in MainId : RegisterMain(m) \/ UnregisterMain(m)
  <2>1. ASSUME NEW m, NEW f, mains' = [mains EXCEPT ![m] = f]
        PROVE  Registered' \subseteq Registered \cup {m}
    BY <2>1 DEF Registered, TypeOK
  <2>2. /\ UNCHANGED <<conn, made, deferred, user, hdl>>
        /\ \E m, f : mains' = [mains EXCEPT ![m] = f]
    BY <1>6 DEF LoadMain, RegisterMain, UnregisterMain
  <2> QED BY <1>5, <2>1, <2>2
<1>7. CASE LoadTopology
  <2>1. UNCHANGED <<conn, made, deferred, user, hdl>> /\ Registered' = {}
    BY <1>7 DEF LoadTopology, Registered
  <2> QED BY <1>5, <2>1
<1>8. CASE Dispatch
  <2>1. UNCHANGED <<mains, user, hdl>>
    BY <1>8 DEF Dispatch
  <2>2. CASE UNCHANGED mapVars
    BY <1>1, <2>1, <2>2
  <2>3. ASSUME NEW R \in SUBSET ToSet(deferred), Resolved(R)
        PROVE  Keys'
    BY <2>1, <2>3, ResolvedKeys DEF Keys, Registered, Resolved
  <2> QED BY <1>8, <2>2, <2>3, DispatchCases
<1>9. ASSUME NEW h \in Fresh, made' = made \cup {h}, UNCHANGED mains,
             \/ conn' = [conn EXCEPT ![h] = "open"] /\ UNCHANGED deferred
             \/ deferred' = Append(deferred, h) /\ UNCHANGED conn,
             user' = "bind" => hdl' = h \/ UNCHANGED <<user, hdl>>
      PROVE  Keys'
  <2>1. /\ h \in made' /\ IsFiniteSet(made') /\ Entries' \subseteq made' \cup {Ch1, Ch2}
        /\ deferred' \in Seq(made')
    BY <1>9, MadeGrows
  <2>2. user' = "bind" => hdl' \in made'
    BY <1>9, <2>1 DEF Keys
  <2> QED BY <1>9, <2>1, <2>2 DEF Keys, Registered
<1>10. CASE CallConnect \/ LoadConnect
  <2>1. PICK h \in Fresh : Connect(h)
    BY <1>10 DEF CallConnect, LoadConnect
  <2>2. UNCHANGED mains /\ (user' = "bind" => UNCHANGED <<user, hdl>>)
    BY <1>10 DEF CallConnect, LoadConnect, Returns
  <2> QED BY <1>9, <2>1, <2>2 DEF Connect
<1>11. CASE \/ CallBind \/ LoadBindRandom \/ LoadBind
            \/ \E p \in Port : RetryOtherPort(p) \/ CallBindAt(p) \/ CallZbind(p)
  <2>1. PICK h \in Fresh : Opens(h)
    BY <1>11 DEF CallBind, LoadBindRandom, LoadBind, RetryOtherPort, CallBindAt, CallZbind, BindAt
  <2>2. UNCHANGED <<deferred, mains>>
    BY <1>11 DEF CallBind, LoadBindRandom, LoadBind, RetryOtherPort, CallBindAt, CallZbind, BindAt
  <2> QED BY <1>9, <2>1, <2>2 DEF Opens
<1>12. CASE CloseNext
  <2>1. UNCHANGED <<made, deferred, mains>> /\ user' # "bind"
    BY <1>12 DEF CloseNext, Closing
  <2>2. Head(Remaining) \in Entries
    <3> DEFINE S == {h \in Entries : h > hdl}
    <3>1. Remaining \in Seq(S) /\ Remaining # <<>> /\ S \subseteq Entries
      BY <1>12, EntriesWalk DEF Remaining, CloseNext
    <3> HIDE DEF S
    <3> QED BY <3>1
  <2>3. conn' = conn \/ conn' = [conn EXCEPT ![Head(Remaining)] = "closed"]
    BY <1>12 DEF CloseNext
  <2>4. Entries' \subseteq Entries
    BY <2>2, <2>3 DEF Entries, TypeOK
  <2> QED BY <2>1, <2>4 DEF Keys, Registered
<1>13. ASSUME NEW h \in Handle, Touch(h)
       PROVE  Keys'
  <2>1. UNCHANGED <<made, deferred, mains, user, hdl>> /\ h \in made
    BY <1>13 DEF Touch
  <2>2. Entries' \subseteq Entries \cup {h}
    BY <1>13 DEF Touch, Entries, TypeOK
  <2> QED BY <2>1, <2>2 DEF Keys, Registered
<1>14. CASE UNCHANGED vars
  BY <1>1, <1>14 DEF vars
<1> QED
  BY <1>2, <1>3, <1>4, <1>6, <1>7, <1>8, <1>10, <1>11, <1>12, <1>13, <1>14 DEF Next

LEMMA Types == Spec => [](TypeOK /\ Keys)
<1>1. Init => TypeOK /\ Keys
  BY InitKeys
<1>2. TypeOK /\ Keys /\ [Next]_vars => (TypeOK /\ Keys)'
  BY NextTypeOK, NextKeys
<1> QED BY <1>1, <1>2, PTL DEF Spec

(* The variables of a service keep their types: the maps never hold a      *)
(* handle that was not given out, and the walk of load_topology() stays    *)
(* within its steps.                                                       *)
THEOREM TypeCorrect == Spec => []TypeOK
  BY Types, PTL

-----------------------------------------------------------------------------
(* ReceivesFromSockets: what was taken for a poll keeps its socket, and    *)
(* only the calls that end the service close one.                          *)
SocketsTaken ==
  /\ \A k \in DOMAIN items : conn[items[k][1]] \in {"open", "closed"}
  /\ \A h \in Handle : conn[h] = "closed" => user \in Closes

LEMMA ItemTypes == TypeOK => \A k \in DOMAIN items : items[k][1] \in Handle
<1> SUFFICES ASSUME TypeOK, NEW k \in DOMAIN items PROVE items[k][1] \in Handle
  OBVIOUS
<1>1. items \in Seq(Handle \X {"open", "closed"})
  BY DEF TypeOK
<1>2. items[k] \in Handle \X {"open", "closed"}
  BY <1>1
<1> QED BY <1>2

LEMMA NextSocketsTaken == TypeOK /\ Keys /\ SocketsTaken /\ [Next]_vars => SocketsTaken'
<1> SUFFICES ASSUME TypeOK, Keys, SocketsTaken, [Next]_vars PROVE SocketsTaken'
  OBVIOUS
<1> USE DEF mapVars, loopVars, workVars, portVars, sendVars
<1>0. /\ \A k \in DOMAIN items : items[k][1] \in Handle
      /\ conn \in [Handle -> Slot]
  BY ItemTypes DEF TypeOK
<1>1. ASSUME items' \in {items, <<>>}, user \in Closes => user' \in Closes,
             \A h \in Handle : /\ conn[h] \in {"open", "closed"} => conn'[h] \in {"open", "closed"}
                               /\ conn'[h] = "closed" => conn[h] = "closed" \/ user' \in Closes
      PROVE  SocketsTaken'
  BY <1>0, <1>1 DEF SocketsTaken
<1>2. CASE \/ BeginRun \/ Poll \/ DispatchDone \/ HookDone \/ CallMain \/ Advance
           \/ RunAsync \/ Stop \/ LoadTopology \/ LoadAttach \/ LoadMain \/ UseAfterDestroy
           \/ \E h \in Handle : Send(h) \/ Taken(h) \/ Attach(h) \/ Arrive(h)
           \/ \E m \in MainId : RegisterMain(m) \/ UnregisterMain(m)
  <2>1. UNCHANGED <<conn, user>> /\ items' \in {items, <<>>}
    BY <1>2 DEF BeginRun, Poll, DispatchDone, HookDone, CallMain, Advance, RunAsync, Stop,
                LoadTopology, LoadAttach, LoadMain, UseAfterDestroy, Send, Taken, Attach, Arrive,
                RegisterMain, UnregisterMain
  <2> QED BY <1>1, <2>1
<1>3. CASE TestRunning
  <2>1. UNCHANGED <<conn, user>> /\ items' \in {RefreshPollitems, <<>>}
    BY <1>3 DEF TestRunning
  <2>2. CASE items' = RefreshPollitems
    BY <2>1, <2>2, PollitemsType DEF SocketsTaken
  <2> QED BY <1>1, <2>1, <2>2
<1>4. CASE CallTerminate \/ Destroy \/ AllClosed \/ ContextDestroyed
  <2>1. UNCHANGED <<conn, items>> /\ user' \in Closes
    BY <1>4 DEF CallTerminate, Destroy, AllClosed, ContextDestroyed, Closes, Closing
  <2> QED BY <1>1, <2>1
<1>5. CASE \E p \in Port : BindRandom(p) \/ BindErrorDropped(p)
  <2>1. UNCHANGED <<conn, items>> /\ user \notin Closes
    BY <1>5 DEF BindRandom, BindErrorDropped, Closes
  <2> QED BY <1>1, <2>1
<1>6. CASE Dispatch
  <2>1. UNCHANGED <<user, items>>
    BY <1>6 DEF Dispatch
  <2>2. UNCHANGED conn \/ \E R : conn' = [h \in Handle |-> IF h \in R THEN "open" ELSE conn[h]]
    BY <1>6, DispatchCases DEF Resolved
  <2> QED BY <1>0, <1>1, <2>1, <2>2
<1>7. CASE CallConnect \/ LoadConnect
  <2>1. UNCHANGED items /\ user \notin Closes
    BY <1>7 DEF CallConnect, LoadConnect, Calls, Loading, Closes
  <2>2. \E h \in Fresh : conn' = [conn EXCEPT ![h] = "open"] \/ conn' = conn
    BY <1>7 DEF CallConnect, LoadConnect, Connect
  <2> QED BY <1>0, <1>1, <2>1, <2>2
<1>8. CASE \/ CallBind \/ LoadBindRandom \/ LoadBind
           \/ \E p \in Port : RetryOtherPort(p) \/ CallBindAt(p) \/ CallZbind(p)
  <2>1. UNCHANGED items /\ user \notin Closes
    BY <1>8 DEF CallBind, LoadBindRandom, LoadBind, RetryOtherPort, CallBindAt, CallZbind, BindAt,
                Calls, Loading, Closes
  <2>2. \E h \in Fresh : conn' = [conn EXCEPT ![h] = "open"]
    BY <1>8 DEF CallBind, LoadBindRandom, LoadBind, RetryOtherPort, CallBindAt, CallZbind, BindAt,
                Opens
  <2> QED BY <1>0, <1>1, <2>1, <2>2
<1>9. CASE CloseNext
  <2>1. UNCHANGED <<items, user>> /\ user \in Closes
    BY <1>9 DEF CloseNext, Closing, Closes
  <2>2. conn' = conn \/ conn' = [conn EXCEPT ![Head(Remaining)] = "closed"]
    BY <1>9 DEF CloseNext
  <2> QED BY <1>0, <1>1, <2>1, <2>2
<1>10. ASSUME NEW h \in Handle, Touch(h)
       PROVE  SocketsTaken'
  <2>1. UNCHANGED <<items, user>>
    BY <1>10 DEF Touch
  <2>2. conn' = [conn EXCEPT ![h] = IF @ = "absent" THEN "null" ELSE @]
    BY <1>10 DEF Touch
  <2> QED BY <1>0, <1>1, <2>1, <2>2
<1>11. CASE UNCHANGED vars
  BY <1>1, <1>11 DEF vars
<1> QED
  BY <1>2, <1>3, <1>4, <1>5, <1>6, <1>7, <1>8, <1>9, <1>10, <1>11 DEF Next

(* However the calls of the user's thread fall between the steps of the    *)
(* loop: what Dispatch is about to receive from is an open socket, or one  *)
(* that a call that ends the service closed after the poll.                *)
THEOREM OnlySocketsReceivedFrom == Spec => []ReceivesFromSockets
<1>1. Init => SocketsTaken
  BY DEF Init, SocketsTaken, Slot
<1>2. TypeOK /\ SocketsTaken => ReceivesFromSockets
  <2> SUFFICES ASSUME TypeOK, SocketsTaken, NEW k \in ready
               PROVE  \/ conn[items[k][1]] = "open"
                      \/ conn[items[k][1]] = "closed" /\ user \in Closes
    BY DEF ReceivesFromSockets
  <2>1. k \in DOMAIN items
    BY DEF TypeOK
  <2>2. items[k][1] \in Handle
    BY <2>1, ItemTypes
  <2> QED BY <2>1, <2>2 DEF SocketsTaken
<1> QED BY <1>1, <1>2, NextSocketsTaken, Types, PTL DEF Spec

-----------------------------------------------------------------------------
(* AdvertisedIsBound: a handle the controller was told is one the user     *)
(* has, and its connect() never waits, so no directory update opens a      *)
(* socket under it; nor under the one that bind() is about to tell.        *)
Waits(h) == h \in ToSet(deferred)

Told ==
  /\ \A a \in advertised : a[1] \in made /\ ~Waits(a[1])
  /\ user = "bind" => ~Waits(hdl)
  /\ AdvertisedIsBound

LEMMA NextTold == TypeOK /\ Keys /\ Told /\ [Next]_vars => Told'
<1> SUFFICES ASSUME TypeOK, Keys, Told, [Next]_vars PROVE Told'
  OBVIOUS
<1> USE DEF mapVars, loopVars, workVars, portVars, sendVars
<1>0. /\ conn \in [Handle -> Slot] /\ ports \in [Port -> Handle \cup {NoHandle}]
      /\ \A a \in advertised : a = <<a[1], a[2]>> /\ a[1] \in Handle /\ a[2] \in Port
      /\ NoHandle \notin Handle /\ made \subseteq Handle
  <2>1. NoHandle \notin Handle
    BY HandleAssumption DEF NoHandle
  <2>2. \A a \in Handle \X Port : a = <<a[1], a[2]>> /\ a[1] \in Handle /\ a[2] \in Port
    OBVIOUS
  <2> QED BY <2>1, <2>2 DEF TypeOK
<1>1. ASSUME UNCHANGED <<failed, ports, advertised>>, made \subseteq made',
             \A h \in made : ~Waits(h) => ~Waits(h)',
             \A h \in made : ~Waits(h) /\ conn'[h] = "open" => conn[h] = "open",
             user' = "bind" => ~Waits(hdl)'
      PROVE  Told'
  BY <1>1 DEF Told, AdvertisedIsBound
<1>2. ASSUME UNCHANGED <<conn, deferred, made, failed, ports, advertised>>,
             user' = "bind" => UNCHANGED <<user, hdl>>
      PROVE  Told'
  <2>1. \A h : Waits(h)' = Waits(h)
    BY <1>2 DEF Waits
  <2> QED BY <1>1, <1>2, <2>1 DEF Told
<1>3. CASE \/ BeginRun \/ TestRunning \/ Poll \/ DispatchDone \/ HookDone \/ CallMain \/ Advance
           \/ RunAsync \/ Stop \/ LoadTopology \/ LoadAttach \/ LoadMain \/ UseAfterDestroy
           \/ CallTerminate \/ Destroy \/ AllClosed \/ ContextDestroyed
           \/ \E h \in Handle : Send(h) \/ Taken(h) \/ Attach(h) \/ Arrive(h)
           \/ \E m \in MainId : RegisterMain(m) \/ UnregisterMain(m)
  <2>1. CASE \/ BeginRun \/ TestRunning \/ Poll \/ DispatchDone \/ HookDone \/ CallMain \/ Advance
             \/ RunAsync \/ Stop \/ LoadTopology \/ LoadAttach \/ LoadMain \/ UseAfterDestroy
    BY <1>2, <2>1 DEF BeginRun, TestRunning, Poll, DispatchDone, HookDone, CallMain, Advance,
                RunAsync, Stop, LoadTopology, LoadAttach, LoadMain, UseAfterDestroy
  <2>2. CASE CallTerminate \/ Destroy \/ AllClosed \/ ContextDestroyed
    BY <1>2, <2>2 DEF CallTerminate, Destroy, AllClosed, ContextDestroyed
  <2>3. CASE \/ \E h \in Handle : Send(h) \/ Taken(h) \/ Attach(h) \/ Arrive(h)
             \/ \E m \in MainId : RegisterMain(m) \/ UnregisterMain(m)
    BY <1>2, <2>3 DEF Send, Taken, Attach, Arrive, RegisterMain, UnregisterMain
  <2> QED BY <1>3, <2>1, <2>2, <2>3
<1>4. CASE Dispatch
  <2>1. UNCHANGED <<user, hdl, failed, ports, advertised>>
    BY <1>4 DEF Dispatch
  <2>2. CASE UNCHANGED mapVars
    BY <1>2, <2>1, <2>2
  <2>3. ASSUME NEW R \in SUBSET ToSet(deferred), Resolved(R)
        PROVE  Told'
    <3>1. deferred' \in Seq(ToSet(deferred))
      BY <2>3, ResolvedKeys
    <3>2. \A h : ~Waits(h) => ~Waits(h)'
      BY <3>1 DEF Waits, ToSet
    <3>3. \A h \in made : ~Waits(h) /\ conn'[h] = "open" => conn[h] = "open"
      BY <2>3 DEF Resolved, Waits, TypeOK
    <3>4. made' = made
      BY <2>3 DEF Resolved
    <3> QED BY <1>1, <2>1, <3>2, <3>3, <3>4 DEF Told
  <2> QED BY <1>4, <2>2, <2>3, DispatchCases
<1>5. ASSUME NEW h \in Fresh
      PROVE  /\ h \notin made /\ ~Waits(h) /\ h \in Handle
             /\ \A x \in made : x # h /\ (deferred' = Append(deferred, h) /\ ~Waits(x) => ~Waits(x)')
  <2>1. h \notin made /\ h \in Handle
    BY DEF Fresh
  <2>2. ToSet(deferred) \subseteq made
    BY DEF ToSet, Keys
  <2>3. ASSUME NEW x \in made, deferred' = Append(deferred, h), ~Waits(x)
        PROVE  ~Waits(x)'
    <3>1. \A i \in 1..Len(deferred) + 1 :
             (i = Len(deferred) + 1 /\ deferred'[i] = h)
               \/ (i \in 1..Len(deferred) /\ deferred'[i] = deferred[i])
      BY <2>3 DEF Keys
    <3>2. DOMAIN deferred' = 1..Len(deferred) + 1 /\ DOMAIN deferred = 1..Len(deferred)
      BY <2>3 DEF Keys
    <3> QED BY <2>1, <2>3, <3>1, <3>2 DEF Waits, ToSet
  <2> QED BY <2>1, <2>2, <2>3 DEF Waits
<1>6. CASE CallConnect \/ LoadConnect
  <2>1. PICK h \in Fresh : Connect(h)
    BY <1>6 DEF CallConnect, LoadConnect
  <2>2. UNCHANGED <<failed, ports, advertised>> /\ user' # "bind"
    BY <1>6 DEF CallConnect, LoadConnect, Calls, Returns
  <2>3. made \subseteq made' /\ \A x \in made : conn'[x] = conn[x]
    BY <1>0, <1>5, <2>1 DEF Connect
  <2>4. \A x \in made : ~Waits(x) => ~Waits(x)'
    BY <1>5, <2>1 DEF Connect, Waits
  <2> QED BY <1>1, <2>2, <2>3, <2>4
<1>7. ASSUME NEW h \in Fresh, Opens(h), UNCHANGED deferred
      PROVE  /\ made \subseteq made' /\ hdl' \in made' /\ ~Waits(hdl)' /\ hdl' = h
             /\ \A x \in made : x # h /\ conn'[x] = conn[x] /\ (Waits(x)' = Waits(x))
  BY <1>0, <1>5, <1>7 DEF Opens, Waits
<1>8. CASE CallBind \/ LoadBindRandom \/ \E p \in Port : RetryOtherPort(p)
  <2>1. PICK h \in Fresh : Opens(h)
    BY <1>8 DEF CallBind, LoadBindRandom, RetryOtherPort
  <2>2. UNCHANGED <<deferred, failed, ports, advertised>>
    BY <1>8 DEF CallBind, LoadBindRandom, RetryOtherPort
  <2> QED BY <1>1, <1>7, <2>1, <2>2
(* A port is told with the handle that has just taken it.                  *)
<1>9. ASSUME NEW h \in Fresh, Opens(h), UNCHANGED <<deferred, failed>>, user' # "bind",
             NEW p \in Port, ports[p] = NoHandle, ports' = [ports EXCEPT ![p] = h],
             advertised' \in {advertised, advertised \cup {<<h, p>>}}
      PROVE  Told'
  <2>1. ASSUME NEW a \in advertised'
        PROVE  a[1] \in made' /\ ~Waits(a[1])' /\ (conn'[a[1]] = "open" => a[1] \in failed' \/ ports'[a[2]] = a[1])
    <3>1. CASE a = <<h, p>>
      BY <1>0, <1>7, <1>9, <3>1
    <3>2. CASE a \in advertised
      BY <1>0, <1>7, <1>9, <3>2 DEF Told, AdvertisedIsBound
    <3> QED BY <1>9, <3>1, <3>2
  <2> QED BY <1>9, <2>1 DEF Told, AdvertisedIsBound
<1>10. CASE LoadBind
  <2>1. PICK h \in Fresh : /\ Opens(h)
                           /\ LET p == plan[step].port IN
                              \/ /\ ports[p] = NoHandle /\ ports' = [ports EXCEPT ![p] = h]
                                 /\ Subscribed(h, p)
                              \/ Ended /\ UNCHANGED <<ports, advertised, user>>
    BY <1>10 DEF LoadBind
  <2>2. UNCHANGED <<deferred, failed>> /\ plan[step].port \in Port /\ user # "bind"
    BY <1>10, PlanStep DEF LoadBind, Loading
  <2>3. CASE UNCHANGED <<ports, advertised, user>>
    BY <1>1, <1>7, <2>1, <2>2, <2>3
  <2>4. CASE /\ ports[plan[step].port] = NoHandle
             /\ ports' = [ports EXCEPT ![plan[step].port] = h] /\ Subscribed(h, plan[step].port)
    BY <1>9, <2>1, <2>2, <2>4 DEF Subscribed, Returns
  <2> QED BY <2>1, <2>3, <2>4
<1>11. ASSUME NEW p \in Port, CallBindAt(p) \/ CallZbind(p)
       PROVE  Told'
  <2>1. PICK h \in Fresh :
          /\ Opens(h)
          /\ \/ /\ ports[p] = NoHandle /\ ports' = [ports EXCEPT ![p] = h]
                /\ advertised' \in {advertised, advertised \cup {<<h, p>>}}
             \/ UNCHANGED <<ports, advertised>>
    BY <1>11 DEF CallBindAt, CallZbind, BindAt
  <2>2. UNCHANGED <<deferred, failed, user>> /\ user # "bind"
    BY <1>11 DEF CallBindAt, CallZbind, BindAt, Calls
  <2> QED BY <1>1, <1>7, <1>9, <2>1, <2>2
<1>12. ASSUME NEW p \in Port, BindRandom(p) \/ BindErrorDropped(p)
       PROVE  Told'
  <2>1. /\ UNCHANGED <<conn, made, deferred>> /\ user' # "bind" /\ hdl \in made /\ ~Waits(hdl)
        /\ advertised' = advertised \cup {<<hdl, p>>}
        /\ \/ ports[p] = NoHandle /\ ports' = [ports EXCEPT ![p] = hdl] /\ UNCHANGED failed
           \/ failed' = failed \cup {hdl} /\ UNCHANGED ports
    BY <1>12 DEF BindRandom, BindErrorDropped, Subscribed, Returns, Told, Keys
  <2>2. ASSUME NEW a \in advertised'
        PROVE  a[1] \in made' /\ ~Waits(a[1])' /\ (conn'[a[1]] = "open" => a[1] \in failed' \/ ports'[a[2]] = a[1])
    <3>1. CASE a = <<hdl, p>>
      BY <1>0, <2>1, <3>1 DEF Waits
    <3>2. CASE a \in advertised
      BY <1>0, <2>1, <3>2 DEF Told, AdvertisedIsBound, Waits
    <3> QED BY <2>1, <3>1, <3>2
  <2> QED BY <2>1, <2>2 DEF Told, AdvertisedIsBound
<1>13. CASE CloseNext
  <2> DEFINE h == Head(Remaining)
  <2>1. /\ UNCHANGED <<made, deferred, failed, advertised>> /\ user' # "bind"
        /\ \/ UNCHANGED <<conn, ports>>
           \/ /\ conn' = [conn EXCEPT ![h] = "closed"]
              /\ ports' = [p \in Port |-> IF ports[p] = h THEN NoHandle ELSE ports[p]]
    BY <1>13 DEF CloseNext, Closing
  <2> HIDE DEF h
  <2>2. ASSUME NEW a \in advertised
        PROVE  conn'[a[1]] = "open" => a[1] \in failed \/ ports'[a[2]] = a[1]
    BY <1>0, <2>1 DEF Told, AdvertisedIsBound
  <2> QED BY <2>1, <2>2 DEF Told, AdvertisedIsBound, Waits
<1>14. ASSUME NEW h \in Handle, Touch(h)
       PROVE  Told'
  <2>1. /\ UNCHANGED <<made, deferred, user, hdl, failed, ports, advertised>>
        /\ conn' = [conn EXCEPT ![h] = IF @ = "absent" THEN "null" ELSE @]
    BY <1>14 DEF Touch
  <2>2. \A x \in Handle : conn'[x] = "open" => conn[x] = "open"
    BY <1>0, <2>1
  <2> QED BY <1>0, <2>1, <2>2 DEF Told, AdvertisedIsBound, Waits
<1>15. CASE UNCHANGED vars
  BY <1>2, <1>15 DEF vars
<1> QED
  BY <1>3, <1>4, <1>6, <1>8, <1>10, <1>11, <1>12, <1>13, <1>14, <1>15 DEF Next

(* However many ports bind() tries, and whatever is bound, connected or    *)
(* loaded meanwhile: a port the controller was told belongs to the open    *)
(* socket of that handle, unless bind() dropped an error.                  *)
THEOREM AdvertisedPortsAreBound == Spec => []AdvertisedIsBound
<1>1. Init => Told
  BY DEF Init, Told, AdvertisedIsBound
<1>2. Told => AdvertisedIsBound
  BY DEF Told
<1> QED BY <1>1, <1>2, NextTold, Types, PTL DEF Spec

-----------------------------------------------------------------------------
(* StaysOnDirectory: the user is never given the handle of a channel, nor  *)
(* does a topology name one, and the channels keep their sockets.          *)
ChannelsKept ==
  /\ Ch1 \notin made /\ Ch2 \notin made
  /\ conn[Ch1] \in {"open", "closed"} /\ conn[Ch2] \in {"open", "closed"}
  /\ \A n \in Name : res[n] \in made \cup {NoHandle}
  /\ StaysOnDirectory

LEMMA NextChannelsKept == TypeOK /\ Keys /\ ChannelsKept /\ [Next]_vars => ChannelsKept'
<1> SUFFICES ASSUME TypeOK, Keys, ChannelsKept, [Next]_vars PROVE ChannelsKept'
  OBVIOUS
<1> USE DEF mapVars, loopVars, workVars, portVars, sendVars
<1>0. /\ Ch1 \in Handle /\ Ch2 \in Handle /\ Ch1 # Ch2 /\ Ch2 # NoHandle
      /\ conn \in [Handle -> Slot] /\ chmap \in [Handle -> {"none", "directory", "user"}]
      /\ res \in [Name -> Handle \cup {NoHandle}]
  BY HandleAssumption DEF TypeOK, NoHandle
<1>1. ASSUME conn'[Ch1] \in {conn[Ch1], "open", "closed"}, conn'[Ch2] \in {conn[Ch2], "open", "closed"},
             made \subseteq made', Ch1 \notin made', Ch2 \notin made',
             chmap'[Ch2] = chmap[Ch2], at' = "poll" => UNCHANGED <<at, items>>,
             \A n \in Name : res'[n] \in made' \cup {NoHandle}
      PROVE  ChannelsKept'
  BY <1>1 DEF ChannelsKept, StaysOnDirectory
<1>2. ASSUME UNCHANGED <<conn, made, res, chmap>>, at' = "poll" => UNCHANGED <<at, items>>
      PROVE  ChannelsKept'
  BY <1>1, <1>2 DEF ChannelsKept
<1>3. CASE \/ BeginRun \/ Poll \/ DispatchDone \/ CallMain \/ RunAsync \/ Stop \/ UseAfterDestroy
           \/ CallTerminate \/ Destroy \/ AllClosed \/ ContextDestroyed
           \/ \E h \in Handle : Send(h) \/ Taken(h) \/ Arrive(h)
           \/ \E m \in MainId : RegisterMain(m) \/ UnregisterMain(m)
  <2>1. CASE BeginRun \/ Poll \/ DispatchDone \/ CallMain \/ RunAsync \/ Stop \/ UseAfterDestroy
    BY <1>2, <2>1 DEF BeginRun, Poll, DispatchDone, CallMain, RunAsync, Stop, UseAfterDestroy
  <2>2. CASE CallTerminate \/ Destroy \/ AllClosed \/ ContextDestroyed
    BY <1>2, <2>2 DEF CallTerminate, Destroy, AllClosed, ContextDestroyed
  <2>3. CASE \/ \E h \in Handle : Send(h) \/ Taken(h) \/ Arrive(h)
             \/ \E m \in MainId : RegisterMain(m) \/ UnregisterMain(m)
    BY <1>2, <2>3 DEF Send, Taken, Arrive, RegisterMain, UnregisterMain
  <2> QED BY <1>3, <2>1, <2>2, <2>3
<1>4. CASE HookDone \/ Advance
  <2>1. UNCHANGED <<conn, made, res, chmap, items>> /\ at' # "poll"
    BY <1>4 DEF HookDone, Advance, StandsOn
  <2> QED BY <1>2, <2>1
(* The poll items are taken with a place for every socket but channel 1's. *)
<1>5. CASE TestRunning
  <2>1. UNCHANGED <<conn, made, res, chmap>>
    BY <1>5 DEF TestRunning
  <2>2. CASE at' = "poll" /\ items' = RefreshPollitems
    <3>1. Ch2 \in Entries \ {Ch1} /\ conn[Ch1] # "absent" /\ conn[Ch2] # "null"
      BY <1>0 DEF ChannelsKept, Entries
    <3>2. \E k \in DOMAIN items' : items'[k][1] = Ch2
      BY <2>2, <3>1, PollitemsType
    <3> QED BY <2>1, <3>2 DEF ChannelsKept, StaysOnDirectory
  <2>3. CASE at' = "returned"
    BY <1>2, <2>1, <2>3
  <2> QED BY <1>5, <2>2, <2>3 DEF TestRunning
<1>6. CASE Dispatch
  <2>1. UNCHANGED <<chmap, at, items, res>>
    BY <1>6 DEF Dispatch
  <2>2. CASE UNCHANGED mapVars
    BY <1>2, <2>1, <2>2
  <2>3. ASSUME NEW R \in SUBSET ToSet(deferred), Resolved(R)
        PROVE  ChannelsKept'
    <3>1. made' = made /\ conn'[Ch1] \in {conn[Ch1], "open"} /\ conn'[Ch2] \in {conn[Ch2], "open"}
      BY <1>0, <2>3 DEF Resolved
    <3> QED BY <1>1, <2>1, <3>1 DEF ChannelsKept
  <2> QED BY <1>6, <2>2, <2>3, DispatchCases
<1>7. ASSUME NEW h \in Fresh
      PROVE  h # Ch1 /\ h # Ch2 /\ h \in Handle
  BY DEF Fresh
<1>8. ASSUME NEW h \in made', made \subseteq made', res' \in {res, [res EXCEPT ![plan[step].name] = h],
                                                              [n \in Name |-> NoHandle]}
      PROVE  \A n \in Name : res'[n] \in made' \cup {NoHandle}
  BY <1>0, <1>8 DEF ChannelsKept
<1>9. ASSUME NEW h, Returns(h) \/ Ended \/ UNCHANGED <<plan, step, res>>
      PROVE  res' \in {res, [res EXCEPT ![plan[step].name] = h], [n \in Name |-> NoHandle]}
  BY <1>9 DEF Returns, Ended
<1>10. ASSUME NEW h \in Fresh, made' = made \cup {h}, UNCHANGED <<chmap, at, items>>,
              conn' = conn \/ conn' = [conn EXCEPT ![h] = "open"],
              Returns(h) \/ Ended \/ UNCHANGED <<plan, step, res>>
       PROVE  ChannelsKept'
  <2>1. Ch1 \notin made' /\ Ch2 \notin made' /\ made \subseteq made' /\ h \in made'
    BY <1>7, <1>10 DEF ChannelsKept
  <2>2. conn'[Ch1] = conn[Ch1] /\ conn'[Ch2] = conn[Ch2]
    BY <1>0, <1>7, <1>10
  <2> QED BY <1>1, <1>8, <1>9, <1>10, <2>1, <2>2
<1>11. CASE CallConnect \/ LoadConnect
  <2>1. PICK h \in Fresh : Connect(h) /\ (Returns(h) \/ UNCHANGED <<plan, step, res>>)
    BY <1>11 DEF CallConnect, LoadConnect
  <2>2. UNCHANGED <<chmap, at, items>>
    BY <1>11 DEF CallConnect, LoadConnect
  <2> QED BY <1>10, <2>1, <2>2 DEF Connect
<1>12. CASE CallBind \/ LoadBindRandom \/ \E p \in Port : RetryOtherPort(p) \/ CallBindAt(p) \/ CallZbind(p)
  <2>1. PICK h \in Fresh : Opens(h)
    BY <1>12 DEF CallBind, LoadBindRandom, RetryOtherPort, CallBindAt, CallZbind, BindAt
  <2>2. UNCHANGED <<chmap, at, items, plan, step, res>>
    BY <1>12 DEF CallBind, LoadBindRandom, RetryOtherPort, CallBindAt, CallZbind, BindAt
  <2> QED BY <1>10, <2>1, <2>2 DEF Opens
<1>13. CASE LoadBind
  <2>1. PICK h \in Fresh : Opens(h) /\ (Returns(h) \/ Ended)
    BY <1>13 DEF LoadBind, Subscribed
  <2>2. UNCHANGED <<chmap, at, items>>
    BY <1>13 DEF LoadBind
  <2> QED BY <1>10, <2>1, <2>2 DEF Opens
<1>14. CASE \E p \in Port : BindRandom(p) \/ BindErrorDropped(p)
  <2>1. UNCHANGED <<conn, made, chmap, at, items>> /\ Returns(hdl) /\ hdl \in made
    BY <1>14 DEF BindRandom, BindErrorDropped, Subscribed, Keys
  <2>2. \A n \in Name : res'[n] \in made' \cup {NoHandle}
    BY <1>8, <1>9, <2>1
  <2> QED BY <1>1, <2>1, <2>2 DEF ChannelsKept
(* The callbacks of the channels are left, whatever the topology says.     *)
<1>15. CASE LoadTopology
  <2>1. UNCHANGED <<conn, made, res, at, items>> /\ chmap'[Ch2] = chmap[Ch2]
    BY <1>0, <1>15 DEF LoadTopology
  <2> QED BY <1>1, <2>1 DEF ChannelsKept
<1>16. CASE LoadAttach
  <2>1. /\ UNCHANGED <<conn, made, at, items>>
        /\ \/ UNCHANGED <<chmap, plan, step, res>>
           \/ /\ res[plan[step].name] # NoHandle /\ NextStep
              /\ chmap' = [chmap EXCEPT ![res[plan[step].name]] = "user"]
    BY <1>16 DEF LoadAttach
  <2>2. plan[step].name \in Name
    BY <1>16, PlanStep DEF LoadAttach
  <2>3. chmap'[Ch2] = chmap[Ch2]
    BY <1>0, <2>1, <2>2 DEF ChannelsKept
  <2>4. \A n \in Name : res'[n] \in made' \cup {NoHandle}
    BY <2>1 DEF NextStep, Ended, ChannelsKept
  <2> QED BY <1>1, <2>1, <2>3, <2>4 DEF ChannelsKept
<1>17. CASE LoadMain
  <2>1. UNCHANGED <<conn, made, chmap, at, items>> /\ NextStep
    BY <1>17 DEF LoadMain
  <2>2. \A n \in Name : res'[n] \in made' \cup {NoHandle}
    BY <2>1 DEF NextStep, Ended, ChannelsKept
  <2> QED BY <1>1, <2>1, <2>2 DEF ChannelsKept
<1>18. CASE CloseNext
  <2>1. UNCHANGED <<made, res, chmap, at, items>>
    BY <1>18 DEF CloseNext
  <2>2. conn' = conn \/ conn' = [conn EXCEPT ![Head(Remaining)] = "closed"]
    BY <1>18 DEF CloseNext
  <2>3. conn'[Ch1] \in {conn[Ch1], "closed"} /\ conn'[Ch2] \in {conn[Ch2], "closed"}
    BY <1>0, <2>2
  <2> QED BY <1>1, <2>1, <2>3 DEF ChannelsKept
<1>19. ASSUME NEW h \in Handle, Touch(h) \/ Attach(h)
       PROVE  ChannelsKept'
  <2>1. UNCHANGED <<made, res, at, items>> /\ h \in made
    BY <1>19 DEF Touch, Attach
  <2>2. conn'[Ch1] = conn[Ch1] /\ conn'[Ch2] = conn[Ch2] /\ chmap'[Ch2] = chmap[Ch2]
    BY <1>0, <1>19, <2>1 DEF Touch, Attach, ChannelsKept
  <2> QED BY <1>1, <2>1, <2>2 DEF ChannelsKept
<1>20. CASE UNCHANGED vars
  BY <1>2, <1>20 DEF vars
<1> QED
  BY <1>3, <1>4, <1>5, <1>6, <1>11, <1>12, <1>13, <1>14, <1>15, <1>16, <1>17, <1>18, <1>19,
     <1>20 DEF Next

(* Whatever topologies replace and whatever is attached or bound: channel  *)
(* 2 keeps the callback that updates the directory and its place in every  *)
(* poll.                                                                   *)
THEOREM DirectoryStaysReachable == Spec => []StaysOnDirectory
<1>1. Init => ChannelsKept
  BY HandleAssumption DEF Init, ChannelsKept, StaysOnDirectory
<1>2. ChannelsKept => StaysOnDirectory
  BY DEF ChannelsKept
<1> QED BY <1>1, <1>2, NextChannelsKept, Types, PTL DEF Spec
=============================================================================
