---------------------- MODULE ServiceController_proofs ----------------------
(***************************************************************************)
(* Theorems about Directory and ServiceController for any nodes, names,    *)
(* ports, lookup relation, queue length and number of restarts.            *)
(***************************************************************************)
EXTENDS ServiceController, SequenceTheorems, TLAPS

-----------------------------------------------------------------------------
(* Directory: what the two updates of the controller do to the type, the   *)
(* records and the entries of a directory; GrowsInto is a partial order    *)
(* along which entries are kept.                                           *)

(* A prefix agrees with the longer sequence at each of its positions.      *)
LEMMA PrefixPointwise ==
  ASSUME NEW S, NEW s \in Seq(S), NEW t \in Seq(S)
  PROVE  IsPrefix(s, t) <=> Len(s) <= Len(t) /\ \A i \in 1..Len(s) : s[i] = t[i]
<1>1. ASSUME Len(s) <= Len(t)
      PROVE  /\ SubSeq(s, 1, Len(s)) = s
             /\ SubSeq(t, 1, Len(s)) \in Seq(S)
             /\ Len(SubSeq(t, 1, Len(s))) = Len(s)
             /\ \A i \in 1..Len(s) : SubSeq(t, 1, Len(s))[i] = t[i]
  BY <1>1
<1>2. ASSUME Len(s) <= Len(t), \A i \in 1..Len(s) : s[i] = t[i]
      PROVE  SubSeq(s, 1, Len(s)) = SubSeq(t, 1, Len(s))
  BY <1>1, <1>2
<1> QED BY <1>1, <1>2 DEF IsPrefix

(* The record a subscription appends to is in place, with one binding more. *)
LEMMA AddBindingType ==
  ASSUME NEW dir \in Directory, NEW i \in DOMAIN dir, NEW b \in Binding
  PROVE  /\ AddBinding(dir, i, b) \in Directory
         /\ DOMAIN AddBinding(dir, i, b) = DOMAIN dir
         /\ Len(AddBinding(dir, i, b)) = Len(dir)
         /\ \A j \in DOMAIN dir :
              /\ AddBinding(dir, i, b)[j].node = dir[j].node
              /\ AddBinding(dir, i, b)[j].ip = dir[j].ip
              /\ AddBinding(dir, i, b)[j].bindings
                   = IF i = j THEN Append(dir[i].bindings, b) ELSE dir[j].bindings
<1> DEFINE bs  == Append(dir[i].bindings, b)
           rec == [dir[i] EXCEPT !.bindings = bs]
<1>1. \A j \in DOMAIN dir : dir[j] \in Qserv
  BY DEF Directory
<1>2. bs \in Seq(Binding)
  BY <1>1 DEF Qserv
<1> HIDE DEF bs
<1>3. rec \in Qserv /\ rec.node = dir[i].node /\ rec.ip = dir[i].ip /\ rec.bindings = bs
  BY <1>1, <1>2 DEF Qserv
<1>4. AddBinding(dir, i, b) = [dir EXCEPT ![i] = rec]
  BY DEF AddBinding, bs
<1> HIDE DEF rec
<1>5. /\ [dir EXCEPT ![i] = rec] \in Directory
      /\ Len([dir EXCEPT ![i] = rec]) = Len(dir)
      /\ DOMAIN [dir EXCEPT ![i] = rec] = DOMAIN dir
  BY <1>3, ExceptSeq DEF Directory
<1>6. \A j \in DOMAIN dir : [dir EXCEPT ![i] = rec][j] = IF i = j THEN rec ELSE dir[j]
  BY DEF Directory
<1> QED BY <1>3, <1>4, <1>5, <1>6 DEF bs

(* A new record is put after the others, with one binding.                 *)
LEMMA AddNodeType ==
  ASSUME NEW dir \in Directory, NEW n \in Node, NEW ip \in AnyIp, NEW b \in Binding
  PROVE  /\ AddNode(dir, n, ip, b) \in Directory
         /\ Len(AddNode(dir, n, ip, b)) = Len(dir) + 1
         /\ DOMAIN AddNode(dir, n, ip, b) = DOMAIN dir \cup {Len(dir) + 1}
         /\ \A j \in DOMAIN dir : AddNode(dir, n, ip, b)[j] = dir[j]
<1> DEFINE rec == [node |-> n, ip |-> ip, bindings |-> <<b>>]
<1>1. rec \in Qserv /\ rec.node = n /\ rec.ip = ip /\ rec.bindings = <<b>>
  BY DEF Qserv
<1> HIDE DEF rec
<1>2. AddNode(dir, n, ip, b) = Append(dir, rec)
  BY DEF AddNode, rec
<1>3. /\ Append(dir, rec) \in Directory
      /\ Len(Append(dir, rec)) = Len(dir) + 1
      /\ DOMAIN Append(dir, rec) = DOMAIN dir \cup {Len(dir) + 1}
      /\ \A j \in DOMAIN dir : Append(dir, rec)[j] = dir[j]
  BY <1>1 DEF Directory
<1> QED BY <1>2, <1>3

LEMMA AddNodeLast ==
  ASSUME NEW dir \in Directory, NEW n \in Node, NEW ip \in AnyIp, NEW b \in Binding
  PROVE  /\ AddNode(dir, n, ip, b)[Len(dir) + 1].node = n
         /\ AddNode(dir, n, ip, b)[Len(dir) + 1].ip = ip
         /\ AddNode(dir, n, ip, b)[Len(dir) + 1].bindings = <<b>>
<1> DEFINE rec == [node |-> n, ip |-> ip, bindings |-> <<b>>]
<1>1. rec \in Qserv /\ rec.node = n /\ rec.ip = ip /\ rec.bindings = <<b>>
  BY DEF Qserv
<1> HIDE DEF rec
<1>2. AddNode(dir, n, ip, b) = Append(dir, rec)
  BY DEF AddNode, rec
<1>3. Append(dir, rec)[Len(dir) + 1] = rec
  BY <1>1 DEF Directory
<1> QED BY <1>1, <1>2, <1>3
-----------------------------------------------------------------------------
(* GrowsInto is a partial order on directories, and both updates of the    *)
(* controller follow it.                                                   *)
LEMMA RecordType ==
  ASSUME NEW dir \in Directory, NEW i \in DOMAIN dir
  PROVE  dir[i].node \in Node /\ dir[i].ip \in AnyIp /\ dir[i].bindings \in Seq(Binding)
<1>1. dir[i] \in Qserv
  BY DEF Directory
<1> QED BY <1>1 DEF Qserv

(* GrowsInto, position by position.                                        *)
LEMMA GrowsPointwise ==
  ASSUME NEW d \in Directory, NEW e \in Directory
  PROVE  GrowsInto(d, e) <=>
           /\ DOMAIN d \subseteq DOMAIN e
           /\ \A i \in DOMAIN d :
                /\ d[i].node = e[i].node /\ d[i].ip = e[i].ip
                /\ Len(d[i].bindings) <= Len(e[i].bindings)
                /\ \A k \in 1..Len(d[i].bindings) : d[i].bindings[k] = e[i].bindings[k]
<1>1. Len(d) <= Len(e) <=> DOMAIN d \subseteq DOMAIN e
  BY DEF Directory
<1>2. ASSUME DOMAIN d \subseteq DOMAIN e, NEW i \in DOMAIN d
      PROVE  IsPrefix(d[i].bindings, e[i].bindings) <=>
               /\ Len(d[i].bindings) <= Len(e[i].bindings)
               /\ \A k \in 1..Len(d[i].bindings) : d[i].bindings[k] = e[i].bindings[k]
  BY <1>2, RecordType, PrefixPointwise
<1> QED BY <1>1, <1>2 DEF GrowsInto

LEMMA GrowsReflexive == \A d \in Directory : GrowsInto(d, d)
BY GrowsPointwise, RecordType

LEMMA GrowsTransitive ==
  ASSUME NEW d \in Directory, NEW e \in Directory, NEW f \in Directory,
         GrowsInto(d, e), GrowsInto(e, f)
  PROVE  GrowsInto(d, f)
<1>1. \A i \in DOMAIN d : i \in DOMAIN e /\ i \in DOMAIN f
  BY GrowsPointwise
<1>2. \A i \in DOMAIN d : d[i].node = f[i].node /\ d[i].ip = f[i].ip
  BY GrowsPointwise, <1>1
<1>3. ASSUME NEW i \in DOMAIN d
      PROVE  /\ Len(d[i].bindings) <= Len(f[i].bindings)
             /\ \A k \in 1..Len(d[i].bindings) : d[i].bindings[k] = f[i].bindings[k]
  <2>1. /\ Len(d[i].bindings) <= Len(e[i].bindings)
        /\ \A k \in 1..Len(d[i].bindings) : d[i].bindings[k] = e[i].bindings[k]
    BY GrowsPointwise
  <2>2. /\ Len(e[i].bindings) <= Len(f[i].bindings)
        /\ \A k \in 1..Len(e[i].bindings) : e[i].bindings[k] = f[i].bindings[k]
    BY <1>1, GrowsPointwise
  <2>3. /\ Len(d[i].bindings) \in Nat /\ Len(e[i].bindings) \in Nat
        /\ Len(f[i].bindings) \in Nat
    BY <1>1, RecordType
  <2> QED BY <2>1, <2>2, <2>3
<1> QED BY <1>1, <1>2, <1>3, GrowsPointwise

LEMMA AddBindingGrows ==
  ASSUME NEW dir \in Directory, NEW i \in DOMAIN dir, NEW b \in Binding
  PROVE  GrowsInto(dir, AddBinding(dir, i, b))
<1> DEFINE new == AddBinding(dir, i, b)
<1>1. /\ new \in Directory /\ DOMAIN new = DOMAIN dir
      /\ \A j \in DOMAIN dir : new[j].node = dir[j].node /\ new[j].ip = dir[j].ip
  BY AddBindingType
<1>2. ASSUME NEW j \in DOMAIN dir
      PROVE  /\ Len(dir[j].bindings) <= Len(new[j].bindings)
             /\ \A k \in 1..Len(dir[j].bindings) : dir[j].bindings[k] = new[j].bindings[k]
  <2> DEFINE bs == dir[j].bindings
  <2>1. bs \in Seq(Binding)
    BY RecordType
  <2>2. new[j].bindings = IF i = j THEN Append(dir[i].bindings, b) ELSE dir[j].bindings
    BY AddBindingType
  <2>3. new[j].bindings = Append(bs, b) \/ new[j].bindings = bs
    BY <2>2
  <2> HIDE DEF new, bs
  <2>4. /\ Len(bs) <= Len(new[j].bindings)
        /\ \A k \in 1..Len(bs) : bs[k] = new[j].bindings[k]
    BY <2>1, <2>3
  <2> QED BY <2>4 DEF bs
<1> HIDE DEF new
<1>3. GrowsInto(dir, new)
  BY <1>1, <1>2, GrowsPointwise
<1> QED BY <1>3 DEF new

LEMMA AddNodeGrows ==
  ASSUME NEW dir \in Directory, NEW n \in Node, NEW ip \in AnyIp, NEW b \in Binding
  PROVE  GrowsInto(dir, AddNode(dir, n, ip, b))
<1> DEFINE new == AddNode(dir, n, ip, b)
<1>1. /\ new \in Directory /\ DOMAIN dir \subseteq DOMAIN new
      /\ \A j \in DOMAIN dir : new[j] = dir[j]
  BY AddNodeType
<1> HIDE DEF new
<1>2. \A j \in DOMAIN dir : Len(dir[j].bindings) \in Nat
  BY RecordType
<1>3. ASSUME NEW j \in DOMAIN dir
      PROVE  Len(dir[j].bindings) <= Len(new[j].bindings)
  BY <1>1, <1>2
<1>4. GrowsInto(dir, new)
  BY <1>1, <1>3, GrowsPointwise
<1> QED BY <1>4 DEF new

(* Every endpoint of a directory is an endpoint of the later ones.         *)
LEMMA GrowsKeepsEntries ==
  ASSUME NEW d \in Directory, NEW e \in Directory, GrowsInto(d, e)
  PROVE  Entries(d) \subseteq Entries(e)
<1>1. ASSUME NEW x \in Entries(d)
      PROVE  x \in Entries(e)
  <2>1. PICK i \in DOMAIN d : \E k \in DOMAIN d[i].bindings : x = EntryAt(d, i, k)
    BY <1>1 DEF Entries
  <2>2. PICK k \in DOMAIN d[i].bindings : x = EntryAt(d, i, k)
    BY <2>1
  <2>3. /\ i \in DOMAIN e /\ d[i].node = e[i].node /\ d[i].ip = e[i].ip
        /\ Len(d[i].bindings) <= Len(e[i].bindings)
        /\ \A l \in 1..Len(d[i].bindings) : d[i].bindings[l] = e[i].bindings[l]
    BY GrowsPointwise
  <2>4. d[i].bindings \in Seq(Binding) /\ e[i].bindings \in Seq(Binding)
    BY <2>3, RecordType
  <2>5. k \in DOMAIN e[i].bindings /\ d[i].bindings[k] = e[i].bindings[k]
    BY <2>3, <2>4
  <2>6. x = EntryAt(e, i, k)
    BY <2>2, <2>3, <2>5 DEF EntryAt
  <2> QED BY <2>3, <2>5, <2>6 DEF Entries
<1> QED BY <1>1
-----------------------------------------------------------------------------
(* Each update of the controller lists exactly one endpoint more (or one   *)
(* that is listed already).                                                *)
LEMMA EntryType ==
  ASSUME NEW dir \in Directory, NEW i \in DOMAIN dir, NEW k \in DOMAIN dir[i].bindings
  PROVE  EntryAt(dir, i, k) \in Entry
<1>1. dir[i].bindings[k] \in Binding
  BY RecordType
<1>2. dir[i].bindings[k].name \in BindName /\ dir[i].bindings[k].port \in Port
  BY <1>1 DEF Binding
<1> QED BY <1>2, RecordType DEF EntryAt, Entry

LEMMA AddBindingEntries ==
  ASSUME NEW dir \in Directory, NEW i \in DOMAIN dir, NEW b \in Binding
  PROVE  \E e \in Entry : Entries(AddBinding(dir, i, b)) = Entries(dir) \cup {e}
<1>0. PICK new \in Directory : new = AddBinding(dir, i, b)
  BY AddBindingType
<1> DEFINE bs == dir[i].bindings
           last == Len(bs) + 1
           e == EntryAt(new, i, last)
<1>1. DOMAIN new = DOMAIN dir /\ bs \in Seq(Binding)
  BY <1>0, AddBindingType, RecordType
<1>2. \A j \in DOMAIN dir : new[j].node = dir[j].node /\ new[j].ip = dir[j].ip
  BY <1>0, AddBindingType
<1>3. /\ new[i].bindings = Append(bs, b)
      /\ \A j \in DOMAIN dir : j # i => new[j].bindings = dir[j].bindings
  <2>1. \A j \in DOMAIN dir :
           new[j].bindings = IF i = j THEN Append(dir[i].bindings, b) ELSE dir[j].bindings
    BY <1>0, AddBindingType
  <2>2. new[i].bindings = Append(dir[i].bindings, b)
    BY <2>1
  <2>3. ASSUME NEW j \in DOMAIN dir, j # i
        PROVE  new[j].bindings = dir[j].bindings
    BY <2>1, <2>3
  <2> QED BY <2>2, <2>3
<1>4. /\ DOMAIN new[i].bindings = DOMAIN bs \cup {last}
      /\ \A k \in DOMAIN bs : new[i].bindings[k] = bs[k]
  BY <1>1, <1>3
<1>5. \A j \in DOMAIN dir : \A k \in DOMAIN dir[j].bindings :
         k \in DOMAIN new[j].bindings /\ EntryAt(new, j, k) = EntryAt(dir, j, k)
  BY <1>2, <1>3, <1>4 DEF EntryAt
<1>6. \A j \in DOMAIN dir : \A k \in DOMAIN new[j].bindings :
         k \in DOMAIN dir[j].bindings \/ (j = i /\ k = last)
  BY <1>3, <1>4
<1>7. e \in Entry
  BY <1>1, <1>4, EntryType
<1>8. Entries(new) \subseteq Entries(dir) \cup {e}
  <2>1. SUFFICES ASSUME NEW x \in Entries(new) PROVE x \in Entries(dir) \cup {e}
    OBVIOUS
  <2>2. PICK j \in DOMAIN new : \E k \in DOMAIN new[j].bindings : x = EntryAt(new, j, k)
    BY DEF Entries
  <2>3. PICK k \in DOMAIN new[j].bindings : x = EntryAt(new, j, k)
    BY <2>2
  <2>4. CASE k \in DOMAIN dir[j].bindings
    BY <1>1, <1>5, <2>3, <2>4 DEF Entries
  <2>5. CASE j = i /\ k = last
    BY <2>3, <2>5
  <2> QED BY <1>1, <1>6, <2>4, <2>5
<1>9. Entries(dir) \cup {e} \subseteq Entries(new)
  <2>1. e \in Entries(new)
    BY <1>1, <1>4 DEF Entries
  <2>2. ASSUME NEW x \in Entries(dir) PROVE x \in Entries(new)
    <3>1. PICK j \in DOMAIN dir : \E k \in DOMAIN dir[j].bindings : x = EntryAt(dir, j, k)
      BY DEF Entries
    <3>2. PICK k \in DOMAIN dir[j].bindings : x = EntryAt(dir, j, k)
      BY <3>1
    <3> QED BY <1>1, <1>5, <3>2 DEF Entries
  <2> QED BY <2>1, <2>2
<1> HIDE DEF e
<1> QED BY <1>0, <1>7, <1>8, <1>9

LEMMA AddNodeEntries ==
  ASSUME NEW dir \in Directory, NEW n \in Node, NEW ip \in AnyIp, NEW b \in Binding
  PROVE  \E e \in Entry : Entries(AddNode(dir, n, ip, b)) = Entries(dir) \cup {e}
<1>0. PICK new \in Directory : new = AddNode(dir, n, ip, b)
  BY AddNodeType
<1> DEFINE last == Len(dir) + 1
           e == EntryAt(new, last, 1)
<1>1. Len(new) = last
  BY <1>0, AddNodeType
<1>2. DOMAIN new = DOMAIN dir \cup {last}
  BY <1>1 DEF Directory
<1>3. \A j \in DOMAIN dir : new[j] = dir[j]
  BY <1>0, AddNodeType
<1>4. new[last].bindings = <<b>>
  BY <1>0, AddNodeLast
<1>5. DOMAIN new[last].bindings = {1}
  BY <1>4
<1>6. e \in Entry
  BY <1>2, <1>5, EntryType
<1>7. Entries(new) \subseteq Entries(dir) \cup {e}
  <2>1. SUFFICES ASSUME NEW x \in Entries(new) PROVE x \in Entries(dir) \cup {e}
    OBVIOUS
  <2>2. PICK j \in DOMAIN new : \E k \in DOMAIN new[j].bindings : x = EntryAt(new, j, k)
    BY DEF Entries
  <2>3. PICK k \in DOMAIN new[j].bindings : x = EntryAt(new, j, k)
    BY <2>2
  <2>4. CASE j \in DOMAIN dir
    BY <1>3, <2>3, <2>4 DEF Entries, EntryAt
  <2>5. CASE j = last
    BY <1>5, <2>3, <2>5
  <2> QED BY <1>2, <2>4, <2>5
<1>8. Entries(dir) \cup {e} \subseteq Entries(new)
  <2>1. e \in Entries(new)
    BY <1>2, <1>5 DEF Entries
  <2>2. ASSUME NEW x \in Entries(dir) PROVE x \in Entries(new)
    <3>1. PICK j \in DOMAIN dir : \E k \in DOMAIN dir[j].bindings : x = EntryAt(dir, j, k)
      BY DEF Entries
    <3>2. PICK k \in DOMAIN dir[j].bindings : x = EntryAt(dir, j, k)
      BY <3>1
    <3> QED BY <1>2, <1>3, <3>2 DEF Entries, EntryAt
  <2> QED BY <2>1, <2>2
<1> HIDE DEF e
<1> QED BY <1>0, <1>6, <1>7, <1>8

-----------------------------------------------------------------------------
(* ServiceController.                                                      *)

LEMMA RequestType ==
  ASSUME TypeOK, NEW m \in requests
  PROVE  /\ m.from \in Node
         /\ m.life \in Life
         /\ m.action = "subscribe" => m.binding \in Binding
<1>1. m \in Request
  BY DEF TypeOK
<1>2. CASE m \in Subscribe
  BY <1>2 DEF Subscribe
<1>3. CASE m \in Topology
  BY <1>3 DEF Topology
<1> QED BY <1>1, <1>2, <1>3 DEF Request

(* What the controller's directory becomes: the old one with one binding   *)
(* more, in a candidate's record or in a new one of the sender's.          *)
LEMMA RecordBindingCases ==
  ASSUME TypeOK, NEW m \in requests, m.action = "subscribe", RecordBinding(m)
  PROVE  \/ \E i \in Candidates(directory, m.from) :
              directory' = AddBinding(directory, i, m.binding)
         \/ /\ Candidates(directory, m.from) = {}
            /\ \E ip \in AnyIp : directory' = AddNode(directory, m.from, ip, m.binding)
<1>1. PeerIp(m) \subseteq AnyIp
  BY RequestType, HomeAssumption DEF PeerIp, AnyIp
<1> QED BY <1>1 DEF RecordBinding

LEMMA RecordBindingGrows ==
  ASSUME TypeOK, NEW m \in requests, m.action = "subscribe", RecordBinding(m)
  PROVE  directory' \in Directory /\ GrowsInto(directory, directory')
<1>1. directory \in Directory /\ m.binding \in Binding /\ m.from \in Node
  BY RequestType DEF TypeOK
<1>2. CASE \E i \in Candidates(directory, m.from) :
             directory' = AddBinding(directory, i, m.binding)
  BY <1>1, <1>2, AddBindingType, AddBindingGrows DEF Candidates
<1>3. CASE \E ip \in AnyIp : directory' = AddNode(directory, m.from, ip, m.binding)
  <2>1. PICK ip \in AnyIp : directory' = AddNode(directory, m.from, ip, m.binding)
    BY <1>3
  <2> QED BY <1>1, <2>1, AddNodeType, AddNodeGrows
<1> QED BY <1>2, <1>3, RecordBindingCases

LEMMA InitTypeOK == Init => TypeOK
<1>1. <<>> \in Directory /\ <<>> \in Seq(Directory) /\ 1 \in Life
  BY DEF Directory, Life
<1>2. "none" \in Answers \cup {"none"} /\ {} \in SUBSET Binding
  OBVIOUS
<1> QED BY <1>1, <1>2 DEF Init, TypeOK

LEMMA NextTypeOK == TypeOK /\ [Next]_vars => TypeOK'
<1> SUFFICES ASSUME TypeOK, [Next]_vars PROVE TypeOK'
  OBVIOUS
<1> USE DEF ctlVars, wireVars, svcVars
<1>1. CASE PublishDirectory
  <2>1. \A s \in Node : inbox'[s] \in Seq(Directory)
    BY <1>1 DEF PublishDirectory, TypeOK
  <2> QED BY <1>1, <2>1 DEF PublishDirectory, TypeOK
<1>2. CASE \E m \in requests : HandleSubscribe(m)
  <2>1. PICK m \in requests : HandleSubscribe(m)
    BY <1>2
  <2>2. directory' \in Directory
    BY <2>1, RecordBindingGrows DEF HandleSubscribe
  <2>3. reply' \in [Node -> Answers \cup {"none"}] /\ requests' \subseteq Request
    BY <2>1 DEF HandleSubscribe, Answer, TypeOK, Answers
  <2> QED BY <2>1, <2>2, <2>3 DEF HandleSubscribe, TypeOK
<1>3. CASE \E m \in requests : HandleTopology(m)
  <2>1. PICK m \in requests : HandleTopology(m)
    BY <1>3
  <2>2. reply' \in [Node -> Answers \cup {"none"}] /\ requests' \subseteq Request
    BY <2>1 DEF HandleTopology, Answer, TypeOK, Answers
  <2> QED BY <2>1, <2>2 DEF HandleTopology, TypeOK
<1>4. ASSUME NEW s \in Node, NEW b \in Binding, Bind(s, b)
      PROVE  TypeOK'
  <2>1. [from |-> s, life |-> life[s], action |-> "subscribe", binding |-> b] \in Request
    BY DEF Request, Subscribe, TypeOK
  <2>2. requests' \subseteq Request
    BY <1>4, <2>1 DEF Bind, TypeOK
  <2> QED BY <1>4, <2>2 DEF Bind, TypeOK
<1>5. ASSUME NEW s \in Node, FetchTopology(s)
      PROVE  TypeOK'
  <2>1. [from |-> s, life |-> life[s], action |-> "topology"] \in Request
    BY DEF Request, Topology, TypeOK
  <2>2. requests' \subseteq Request
    BY <1>5, <2>1 DEF FetchTopology, TypeOK
  <2> QED BY <1>5, <2>2 DEF FetchTopology, TypeOK
<1>6. ASSUME NEW s \in Node, CallReturns(s)
      PROVE  TypeOK'
  BY <1>6 DEF CallReturns, TypeOK
<1>7. ASSUME NEW s \in Node, Run(s)
      PROVE  TypeOK'
  BY <1>7 DEF Run, TypeOK
<1>8. ASSUME NEW s \in Node, DirectoryUpdate(s)
      PROVE  TypeOK'
  <2>1. Head(inbox[s]) \in Directory /\ Tail(inbox[s]) \in Seq(Directory)
    BY <1>8 DEF DirectoryUpdate, TypeOK
  <2> QED BY <1>8, <2>1 DEF DirectoryUpdate, TypeOK
<1>9. ASSUME NEW s \in Node, Restart(s)
      PROVE  TypeOK'
  <2>1. requests' \subseteq Request
    BY <1>9 DEF Restart, TypeOK
  <2>2. life[s] + 1 \in Life /\ <<>> \in Directory /\ <<>> \in Seq(Directory)
    BY DEF TypeOK, Life, Directory
  <2> QED BY <1>9, <2>1, <2>2 DEF Restart, TypeOK
<1>10. ASSUME NEW s \in Node, Join(s)
       PROVE  TypeOK'
  BY <1>10 DEF Join, TypeOK
<1>11. CASE UNCHANGED vars
  BY <1>11 DEF vars, TypeOK
<1> QED
  BY <1>1, <1>2, <1>3, <1>4, <1>5, <1>6, <1>7, <1>8, <1>9, <1>10, <1>11 DEF Next

(* Every variable keeps its type, directories in flight included.          *)
THEOREM TypeCorrect == Spec => []TypeOK
BY InitTypeOK, NextTypeOK, PTL DEF Spec
-----------------------------------------------------------------------------
LEMMA EmptyGrows == \A d \in Directory : <<>> \in Directory /\ GrowsInto(<<>>, d)
BY DEF Directory, GrowsInto

LEMMA InitSnapshots == Init => ViewsAreSnapshots
<1> SUFFICES ASSUME Init, NEW s \in Node PROVE SnapshotsOf(s)
  BY DEF ViewsAreSnapshots
<1>1. directory = <<>> /\ view[s] = <<>> /\ inbox[s] = <<>>
  BY DEF Init
<1>2. GrowsInto(<<>>, <<>>)
  <2>1. <<>> \in Directory
    BY DEF Directory
  <2> QED BY <2>1, EmptyGrows
<1> QED BY <1>1, <1>2 DEF SnapshotsOf

(* The directories involved in one service's copies are well typed.        *)
LEMMA CopiesType ==
  ASSUME TypeOK, NEW s \in Node
  PROVE  /\ directory \in Directory /\ view[s] \in Directory
         /\ inbox[s] \in Seq(Directory)
         /\ \A i \in DOMAIN inbox[s] : inbox[s][i] \in Directory
BY DEF TypeOK

LEMMA SubscribeSnapshots ==
  ASSUME TypeOK, ViewsAreSnapshots, NEW m \in requests, HandleSubscribe(m)
  PROVE  ViewsAreSnapshots'
<1>1. directory' \in Directory /\ GrowsInto(directory, directory')
  BY RecordBindingGrows DEF HandleSubscribe
<1>2. UNCHANGED <<inbox, view>>
  BY DEF HandleSubscribe, svcVars
<1>3. ASSUME NEW s \in Node
      PROVE  SnapshotsOf(s)'
  <2>1. GrowsInto(view[s], directory')
    BY <1>1, CopiesType, GrowsTransitive DEF ViewsAreSnapshots, SnapshotsOf
  <2>2. \A i \in DOMAIN inbox[s] : GrowsInto(inbox[s][i], directory')
    BY <1>1, CopiesType, GrowsTransitive DEF ViewsAreSnapshots, SnapshotsOf
  <2> QED BY <1>2, <2>1, <2>2 DEF ViewsAreSnapshots, SnapshotsOf
<1> QED BY <1>3 DEF ViewsAreSnapshots

LEMMA PublishSnapshots ==
  ASSUME TypeOK, ViewsAreSnapshots, PublishDirectory
  PROVE  ViewsAreSnapshots'
<1>1. UNCHANGED <<directory, view>>
  BY DEF PublishDirectory, svcVars
<1>2. ASSUME NEW s \in Node
      PROVE  SnapshotsOf(s)'
  <2> DEFINE q == inbox[s]
  <2>1. q \in Seq(Directory) /\ directory \in Directory
    BY CopiesType
  <2>2. inbox'[s] = q \/ inbox'[s] = Append(q, directory)
    BY DEF PublishDirectory
  <2>3. /\ GrowsInto(view[s], directory) /\ GrowsInto(directory, directory)
        /\ \A i \in DOMAIN q : GrowsInto(view[s], q[i]) /\ GrowsInto(q[i], directory)
        /\ \A i, j \in DOMAIN q : i <= j => GrowsInto(q[i], q[j])
    BY <2>1, GrowsReflexive DEF ViewsAreSnapshots, SnapshotsOf
  <2>4. CASE inbox'[s] = q
    BY <1>1, <2>3, <2>4 DEF SnapshotsOf
  <2>5. CASE inbox'[s] = Append(q, directory)
    <3>1. /\ DOMAIN inbox'[s] = DOMAIN q \cup {Len(q) + 1}
          /\ inbox'[s][Len(q) + 1] = directory
          /\ \A i \in DOMAIN q : inbox'[s][i] = q[i] /\ i < Len(q) + 1
      BY <2>1, <2>5
    <3>2. \A i \in DOMAIN inbox'[s] : /\ GrowsInto(view[s], inbox'[s][i])
                                      /\ GrowsInto(inbox'[s][i], directory)
      BY <2>3, <3>1
    <3>3. \A i, j \in DOMAIN inbox'[s] : i <= j => GrowsInto(inbox'[s][i], inbox'[s][j])
      <4>1. TAKE i, j \in DOMAIN inbox'[s]
      <4>2. CASE j = Len(q) + 1
        BY <3>1, <3>2, <4>2
      <4>3. CASE j \in DOMAIN q /\ i \in DOMAIN q
        BY <2>3, <3>1, <4>3
      <4>4. CASE j \in DOMAIN q /\ i = Len(q) + 1
        BY <2>1, <3>1, <4>4
      <4> QED BY <3>1, <4>2, <4>3, <4>4
    <3> QED BY <1>1, <2>3, <3>2, <3>3 DEF SnapshotsOf
  <2> QED BY <2>2, <2>4, <2>5
<1> QED BY <1>2 DEF ViewsAreSnapshots

LEMMA UpdateSnapshots ==
  ASSUME TypeOK, ViewsAreSnapshots, NEW s \in Node, DirectoryUpdate(s)
  PROVE  ViewsAreSnapshots' /\ GrowsInto(view[s], view'[s])
<1> DEFINE q == inbox[s]
<1>1. /\ q \in Seq(Directory) /\ q # <<>>
      /\ view'[s] = Head(q) /\ inbox'[s] = Tail(q)
      /\ UNCHANGED directory
      /\ \A t \in Node \ {s} : view'[t] = view[t] /\ inbox'[t] = inbox[t]
  BY DEF DirectoryUpdate, TypeOK, ctlVars
<1>2. /\ 1 \in DOMAIN q /\ Head(q) = q[1]
      /\ \A i \in DOMAIN Tail(q) : i + 1 \in DOMAIN q /\ Tail(q)[i] = q[i + 1] /\ 1 <= i + 1
      /\ \A i, j \in DOMAIN Tail(q) : i <= j => i + 1 <= j + 1
  BY <1>1
<1>3. /\ \A i \in DOMAIN q : GrowsInto(view[s], q[i]) /\ GrowsInto(q[i], directory)
      /\ \A i, j \in DOMAIN q : i <= j => GrowsInto(q[i], q[j])
  BY DEF ViewsAreSnapshots, SnapshotsOf
<1> HIDE DEF q
<1>4. SnapshotsOf(s)'
  BY <1>1, <1>2, <1>3 DEF SnapshotsOf
<1>5. \A t \in Node \ {s} : SnapshotsOf(t)'
  BY <1>1 DEF ViewsAreSnapshots, SnapshotsOf
<1> QED BY <1>1, <1>2, <1>3, <1>4, <1>5 DEF ViewsAreSnapshots

LEMMA RestartSnapshots ==
  ASSUME TypeOK, ViewsAreSnapshots, NEW s \in Node, Restart(s)
  PROVE  ViewsAreSnapshots' /\ life'[s] # life[s]
<1>1. /\ view'[s] = <<>> /\ inbox'[s] = <<>> /\ life'[s] = life[s] + 1
      /\ UNCHANGED directory
      /\ \A t \in Node \ {s} : view'[t] = view[t] /\ inbox'[t] = inbox[t]
  BY DEF Restart, TypeOK, ctlVars
<1>2. SnapshotsOf(s)'
  BY <1>1, EmptyGrows, CopiesType DEF SnapshotsOf
<1>3. \A t \in Node \ {s} : SnapshotsOf(t)'
  BY <1>1 DEF ViewsAreSnapshots, SnapshotsOf
<1>4. life[s] \in Nat
  BY DEF TypeOK, Life
<1> QED BY <1>1, <1>2, <1>3, <1>4 DEF ViewsAreSnapshots

(* What the steps do to the copies: every other step leaves them alone.    *)
LEMMA OtherStepsKeepCopies ==
  ASSUME [Next]_vars,
         ~PublishDirectory,
         \A m \in requests : ~HandleSubscribe(m),
         \A s \in Node : ~DirectoryUpdate(s) /\ ~Restart(s)
  PROVE  UNCHANGED <<directory, inbox, view, life>>
BY DEF Next, vars, HandleTopology, Bind, FetchTopology, CallReturns, Run, Join,
       ctlVars, wireVars, svcVars

LEMMA NextSnapshots ==
  ASSUME TypeOK, ViewsAreSnapshots, [Next]_vars
  PROVE  /\ ViewsAreSnapshots'
         /\ \A s \in Node : life'[s] = life[s] => GrowsInto(view[s], view'[s])
<1>1. \A s \in Node : GrowsInto(view[s], view[s])
  BY CopiesType, GrowsReflexive
<1>2. CASE PublishDirectory
  BY <1>1, <1>2, PublishSnapshots DEF PublishDirectory, svcVars
<1>3. CASE \E m \in requests : HandleSubscribe(m)
  BY <1>1, <1>3, SubscribeSnapshots DEF HandleSubscribe, svcVars
<1>4. ASSUME NEW s \in Node, DirectoryUpdate(s)
      PROVE  /\ ViewsAreSnapshots'
             /\ \A t \in Node : life'[t] = life[t] => GrowsInto(view[t], view'[t])
  <2>1. \A t \in Node \ {s} : view'[t] = view[t]
    BY <1>4 DEF DirectoryUpdate, TypeOK
  <2> QED BY <1>1, <1>4, <2>1, UpdateSnapshots
<1>5. ASSUME NEW s \in Node, Restart(s)
      PROVE  /\ ViewsAreSnapshots'
             /\ \A t \in Node : life'[t] = life[t] => GrowsInto(view[t], view'[t])
  <2>1. \A t \in Node \ {s} : view'[t] = view[t]
    BY <1>5 DEF Restart, TypeOK
  <2> QED BY <1>1, <1>5, <2>1, RestartSnapshots
<1>6. CASE UNCHANGED <<directory, inbox, view, life>>
  BY <1>1, <1>6 DEF ViewsAreSnapshots, SnapshotsOf
<1> QED BY <1>2, <1>3, <1>4, <1>5, <1>6, OtherStepsKeepCopies

(* Every copy of the directory is an earlier state of the controller's.    *)
THEOREM CopiesAreSnapshots == Spec => []ViewsAreSnapshots
<1>1. TypeOK /\ ViewsAreSnapshots /\ [Next]_vars => ViewsAreSnapshots'
  BY NextSnapshots
<1> QED BY <1>1, InitSnapshots, TypeCorrect, PTL DEF Spec

(* A service's directory never loses an endpoint while the service lives.  *)
THEOREM ViewsGrow == Spec => ViewsOnlyGrow
<1>1. ASSUME TypeOK, ViewsAreSnapshots, [Next]_vars
      PROVE  [\A s \in Node : life'[s] = life[s] => GrowsInto(view[s], view'[s])]_vars
  BY <1>1, NextSnapshots
<1> QED BY <1>1, TypeCorrect, CopiesAreSnapshots, PTL DEF Spec, ViewsOnlyGrow
-----------------------------------------------------------------------------
(* Channel 1.  A step of one service, or an answer to one, leaves what the *)
(* others have outstanding as it was.                                      *)
LEMMA OthersInStep ==
  ASSUME LockStep, NEW s \in Node,
         \A t \in Node \ {s} : /\ call'[t] = call[t] /\ reply'[t] = reply[t]
                               /\ bound'[t] = bound[t] /\ advertised'[t] = advertised[t]
                               /\ life'[t] = life[t],
         {m \in requests' : m.from # s} = {m \in requests : m.from # s},
         InStep(s)'
  PROVE  LockStep'
<1>1. ASSUME NEW t \in Node, t # s
      PROVE  InStep(t)'
  <2>1. Outstanding(t)' = Outstanding(t)
    BY <1>1 DEF Outstanding, Live
  <2>2. InStep(t)
    BY DEF LockStep
  <2>3. \A m : m \in requests' /\ m.from = t <=> m \in requests /\ m.from = t
    BY <1>1
  <2>4. \A m : m \in Outstanding(t) => m \in requests'
    BY <2>3 DEF Outstanding
  <2>5. \A m : Asks(t, m)' <=> Asks(t, m)
    BY <1>1 DEF Asks
  <2> QED BY <1>1, <2>1, <2>2, <2>3, <2>4, <2>5 DEF InStep
<1> QED BY <1>1 DEF LockStep

LEMMA AskInStep ==
  ASSUME TypeOK, LockStep, NEW s \in Node, NEW m,
         m.from = s, m.life = life[s],
         call[s] = "idle", requests' = requests \cup {m},
         reply' = reply, advertised' = advertised, life' = life,
         call'[s] # "idle", Asks(s, m)', call'[s] # "subscribe" => bound' = bound,
         \A t \in Node \ {s} : call'[t] = call[t] /\ bound'[t] = bound[t]
  PROVE  LockStep'
<1>1. InStep(s) /\ life[s] \in Nat
  BY DEF LockStep, TypeOK, Life
<1>2. Outstanding(s)' = {m}
  BY <1>1 DEF InStep, Outstanding, Live
<1>3. InStep(s)'
  BY <1>1, <1>2 DEF InStep
<1>4. {n \in requests' : n.from # s} = {n \in requests : n.from # s}
  OBVIOUS
<1> QED BY <1>3, <1>4, OthersInStep

(* An answer goes to the one request its receiver has outstanding, or, if  *)
(* the request is of an earlier life, to nobody.                           *)
LEMMA AnswerInStep ==
  ASSUME TypeOK, LockStep, NEW m \in requests, NEW text \in Answers,
         m.action = "subscribe" <=> text = "OK", Answer(m, text),
         UNCHANGED svcVars
  PROVE  LockStep'
<1> DEFINE s == m.from
<1>1. /\ s \in Node /\ InStep(s) /\ requests' = requests \ {m}
      /\ UNCHANGED <<life, call, bound, advertised>>
  BY RequestType DEF LockStep, Answer, svcVars
<1>2. {n \in requests' : n.from # s} = {n \in requests : n.from # s}
  BY <1>1
<1>3. CASE Live(m)
  <2>1. m \in Outstanding(s)
    BY <1>3 DEF Outstanding
  <2>2. call[s] # "idle" /\ reply[s] = "none" /\ Outstanding(s) = {m} /\ Asks(s, m)
    BY <1>1, <2>1 DEF InStep
  <2>3. reply' = [reply EXCEPT ![s] = text] /\ text # "none"
    BY <1>3 DEF Answer, Answers
  <2>4. Outstanding(s)' = {}
    BY <1>1, <2>2 DEF Outstanding, Live
  <2>5. reply'[s] = text /\ \A t \in Node \ {s} : reply'[t] = reply[t]
    BY <1>1, <2>3 DEF TypeOK
  <2>6. call[s] = "subscribe" <=> text = "OK"
    BY <2>2 DEF Asks
  <2>7. InStep(s)'
    BY <1>1, <2>2, <2>3, <2>4, <2>5, <2>6 DEF InStep
  <2> QED BY <1>1, <1>2, <2>5, <2>7, OthersInStep
<1>4. CASE ~Live(m)
  <2>1. reply' = reply
    BY <1>4 DEF Answer
  <2>2. m \notin Outstanding(s)
    BY <1>4 DEF Outstanding
  <2>3. Outstanding(s)' = Outstanding(s)
    BY <1>1, <1>4 DEF Outstanding, Live
  <2>4. \A n : Asks(s, n)' <=> Asks(s, n)
    BY <1>1 DEF Asks
  <2>5. InStep(s)'
    BY <1>1, <2>1, <2>2, <2>3, <2>4 DEF InStep
  <2> QED BY <1>1, <1>2, <2>1, <2>5, OthersInStep
<1> QED BY <1>3, <1>4

LEMMA NextLockStep == TypeOK /\ LockStep /\ [Next]_vars => LockStep'
<1> SUFFICES ASSUME TypeOK, LockStep, [Next]_vars PROVE LockStep'
  OBVIOUS
<1>1. CASE UNCHANGED <<requests, reply, life, call, bound, advertised>>
  BY <1>1 DEF LockStep, InStep, Outstanding, Asks, Live
<1>2. CASE \E m \in requests : HandleSubscribe(m)
  BY <1>2, AnswerInStep DEF HandleSubscribe, Answers
<1>3. CASE \E m \in requests : HandleTopology(m)
  BY <1>3, AnswerInStep DEF HandleTopology, Answers
<1>4. ASSUME NEW s \in Node, NEW b \in Binding, Bind(s, b)
      PROVE  LockStep'
  <2>0. PICK m : m = [from |-> s, life |-> life[s], action |-> "subscribe", binding |-> b]
    OBVIOUS
  <2>1. InStep(s)
    BY DEF LockStep
  <2>2. /\ call[s] = "idle" /\ b \notin bound[s] /\ bound[s] = advertised[s]
        /\ requests' = requests \cup {m}
        /\ UNCHANGED <<reply, advertised, life>>
        /\ call'[s] = "subscribe" /\ bound'[s] = bound[s] \cup {b}
        /\ \A t \in Node \ {s} : call'[t] = call[t] /\ bound'[t] = bound[t]
    BY <1>4, <2>0, <2>1 DEF Bind, TypeOK, InStep
  <2>3. Asks(s, m)'
    BY <2>0, <2>2 DEF Asks
  <2>4. m.from = s /\ m.life = life[s]
    BY <2>0
  <2> QED BY <2>2, <2>3, <2>4, AskInStep
<1>5. ASSUME NEW s \in Node, FetchTopology(s)
      PROVE  LockStep'
  <2>0. PICK m : m = [from |-> s, life |-> life[s], action |-> "topology"]
    OBVIOUS
  <2>2. /\ call[s] = "idle"
        /\ requests' = requests \cup {m}
        /\ UNCHANGED <<reply, advertised, life, bound>>
        /\ call'[s] = "topology"
        /\ \A t \in Node \ {s} : call'[t] = call[t] /\ bound'[t] = bound[t]
    BY <1>5, <2>0 DEF FetchTopology, TypeOK
  <2>3. Asks(s, m)'
    BY <2>0, <2>2 DEF Asks
  <2>4. m.from = s /\ m.life = life[s]
    BY <2>0
  <2> QED BY <2>2, <2>3, <2>4, AskInStep
<1>6. ASSUME NEW s \in Node, CallReturns(s)
      PROVE  LockStep'
  <2>1. /\ call[s] # "idle" /\ reply[s] # "none"
        /\ reply'[s] = "none" /\ call'[s] = "idle" /\ advertised'[s] = bound[s]
        /\ UNCHANGED <<requests, life, bound>>
        /\ \A t \in Node \ {s} : /\ call'[t] = call[t] /\ reply'[t] = reply[t]
                                 /\ advertised'[t] = advertised[t]
    BY <1>6 DEF CallReturns, TypeOK
  <2>2. InStep(s) /\ Outstanding(s)' = Outstanding(s)
    BY <2>1 DEF LockStep, Outstanding, Live
  <2>3. InStep(s)'
    BY <2>1, <2>2 DEF InStep
  <2> QED BY <2>1, <2>3, OthersInStep
<1>7. ASSUME NEW s \in Node, Restart(s)
      PROVE  LockStep'
  <2>1. /\ reply'[s] = "none" /\ call'[s] = "idle"
        /\ advertised'[s] = {} /\ bound'[s] = {} /\ life'[s] = life[s] + 1
        /\ \A t \in Node \ {s} : /\ call'[t] = call[t] /\ reply'[t] = reply[t]
                                 /\ bound'[t] = bound[t] /\ advertised'[t] = advertised[t]
                                 /\ life'[t] = life[t]
    BY <1>7 DEF Restart, TypeOK
  <2>2. /\ requests' \subseteq requests
        /\ {m \in requests' : m.from # s} = {m \in requests : m.from # s}
    BY <1>7 DEF Restart
  <2>3. \A m \in requests' : m.from = s => m.life <= life[s]
    BY <2>2 DEF LockStep, InStep
  <2>4. life[s] \in Nat /\ \A m \in requests' : m.life \in Nat
    BY <2>2, RequestType DEF TypeOK, Life
  <2>5. Outstanding(s)' = {}
    BY <2>1, <2>3, <2>4 DEF Outstanding, Live
  <2>6. InStep(s)'
    BY <2>1, <2>3, <2>4, <2>5 DEF InStep
  <2> QED BY <2>1, <2>2, <2>6, OthersInStep
<1> QED
  BY <1>1, <1>2, <1>3, <1>4, <1>5, <1>6, <1>7
  DEF Next, vars, ctlVars, wireVars, svcVars, PublishDirectory, Run, Join, DirectoryUpdate

(* REQ and REP stay in lock step, restarts with stale requests included.   *)
THEOREM ChannelsInStep == Spec => []LockStep
<1>1. Init => LockStep
  BY DEF Init, LockStep, InStep, Outstanding
<1> QED BY <1>1, NextLockStep, TypeCorrect, PTL DEF Spec
-----------------------------------------------------------------------------
(* What bind() is told is in the directory.                                *)
LEMMA GrowsKeepsListed ==
  ASSUME NEW d \in Directory, NEW e \in Directory, GrowsInto(d, e),
         NEW s, NEW i \in Candidates(d, s), NEW b, ListsUnder(d, i, b)
  PROVE  i \in Candidates(e, s) /\ ListsUnder(e, i, b)
<1>1. i \in DOMAIN d /\ i \in DOMAIN e /\ d[i].node = e[i].node
  BY GrowsPointwise DEF Candidates
<1>2. d[i].bindings \in Seq(Binding) /\ e[i].bindings \in Seq(Binding)
  BY <1>1, RecordType
<1>3. /\ Len(d[i].bindings) <= Len(e[i].bindings)
      /\ \A k \in 1..Len(d[i].bindings) : d[i].bindings[k] = e[i].bindings[k]
  BY <1>1, GrowsPointwise
<1>4. PICK k \in DOMAIN d[i].bindings : d[i].bindings[k] = b
  BY DEF ListsUnder
<1>5. k \in DOMAIN e[i].bindings /\ e[i].bindings[k] = b
  BY <1>2, <1>3, <1>4
<1> QED BY <1>1, <1>5 DEF Candidates, ListsUnder

LEMMA RecordBindingLists ==
  ASSUME TypeOK, NEW m \in requests, m.action = "subscribe", RecordBinding(m)
  PROVE  \E i \in Candidates(directory', m.from) : ListsUnder(directory', i, m.binding)
<1>1. directory \in Directory /\ m.binding \in Binding /\ m.from \in Node
  BY RequestType DEF TypeOK
<1>2. CASE \E i \in Candidates(directory, m.from) :
             directory' = AddBinding(directory, i, m.binding)
  <2>1. PICK i \in Candidates(directory, m.from) :
               directory' = AddBinding(directory, i, m.binding)
    BY <1>2
  <2>2. /\ i \in DOMAIN directory /\ i \in DOMAIN directory'
        /\ directory'[i].node = directory[i].node
        /\ directory'[i].bindings = Append(directory[i].bindings, m.binding)
        /\ directory[i].bindings \in Seq(Binding)
    <3>1. i \in DOMAIN directory
      BY <2>1 DEF Candidates
    <3>2. directory[i].bindings \in Seq(Binding)
      BY <1>1, <3>1, RecordType
    <3>3. DOMAIN directory' = DOMAIN directory
      BY <1>1, <2>1, <3>1, AddBindingType
    <3>4. directory'[i].node = directory[i].node
      BY <1>1, <2>1, <3>1, AddBindingType
    <3>5. directory'[i].bindings = Append(directory[i].bindings, m.binding)
      BY <1>1, <2>1, <3>1, AddBindingType
    <3> QED BY <3>1, <3>2, <3>3, <3>4, <3>5
  <2>3. /\ Len(directory[i].bindings) + 1 \in DOMAIN directory'[i].bindings
        /\ directory'[i].bindings[Len(directory[i].bindings) + 1] = m.binding
    BY <1>1, <2>2, AppendProperties
  <2> QED BY <2>1, <2>2, <2>3 DEF Candidates, ListsUnder
<1>3. CASE \E ip \in AnyIp : directory' = AddNode(directory, m.from, ip, m.binding)
  <2>1. PICK ip \in AnyIp : directory' = AddNode(directory, m.from, ip, m.binding)
    BY <1>3
  <2> DEFINE last == Len(directory) + 1
  <2>2. /\ directory'[last].node = m.from
        /\ directory'[last].bindings = <<m.binding>>
    BY <1>1, <2>1, AddNodeLast
  <2>3. last \in DOMAIN directory'
    <3>1. directory' \in Directory /\ Len(directory') = Len(directory) + 1
      BY <1>1, <2>1, AddNodeType
    <3> QED BY <1>1, <3>1 DEF Directory
  <2>4. last \in Candidates(directory', m.from)
    BY <1>1, <2>2, <2>3, HitAssumption DEF Candidates
  <2>5. ListsUnder(directory', last, m.binding)
    BY <2>2 DEF ListsUnder
  <2> QED BY <2>4, <2>5
<1> QED BY <1>2, <1>3, RecordBindingCases

LEMMA NextAcknowledged ==
  TypeOK /\ LockStep /\ AcknowledgedIsListed /\ [Next]_vars => AcknowledgedIsListed'
<1> SUFFICES ASSUME TypeOK, LockStep, AcknowledgedIsListed, [Next]_vars
             PROVE  AcknowledgedIsListed'
  OBVIOUS
<1> USE DEF ctlVars, wireVars, svcVars
<1>1. CASE UNCHANGED directory /\ \A s \in Node : Acknowledged(s)' \subseteq Acknowledged(s)
  BY <1>1 DEF AcknowledgedIsListed
<1>2. CASE \E m \in requests : HandleSubscribe(m)
  <2>1. PICK m \in requests : HandleSubscribe(m)
    BY <1>2
  <2>2. /\ m.from \in Node /\ m.action = "subscribe" /\ RecordBinding(m)
        /\ directory \in Directory
        /\ directory' \in Directory /\ GrowsInto(directory, directory')
        /\ UNCHANGED <<bound, advertised, call, life>>
    BY <2>1, RequestType, RecordBindingGrows DEF HandleSubscribe, TypeOK
  <2>3. ASSUME NEW s \in Node, NEW b \in Acknowledged(s)'
        PROVE  \E i \in Candidates(directory', s) : ListsUnder(directory', i, b)
    <3>1. CASE b \in Acknowledged(s)
      BY <2>2, <3>1, GrowsKeepsListed DEF AcknowledgedIsListed
    <3>2. CASE b \notin Acknowledged(s)
      <4>1. reply'[s] = "OK" /\ reply[s] # "OK" /\ b \in bound[s] /\ b \notin advertised[s]
        BY <2>2, <2>3, <3>2 DEF Acknowledged
      <4>2. s = m.from /\ Live(m)
        BY <2>1, <2>2, <4>1 DEF HandleSubscribe, Answer, TypeOK
      <4>3. InStep(s) /\ m \in Outstanding(s)
        BY <4>2 DEF LockStep, Outstanding
      <4>4. Asks(s, m)
        BY <4>3 DEF InStep
      <4>5. b = m.binding
        BY <2>2, <4>1, <4>4 DEF Asks
      <4> QED BY <2>2, <4>2, <4>5, RecordBindingLists
    <3> QED BY <3>1, <3>2
  <2> QED BY <2>3 DEF AcknowledgedIsListed
<1>3. CASE \E m \in requests : HandleTopology(m)
  <2>1. PICK m \in requests : HandleTopology(m)
    BY <1>3
  <2>2. \A s \in Node : reply'[s] = "OK" => reply[s] = "OK"
    BY <2>1, RequestType DEF HandleTopology, Answer, TypeOK
  <2> QED BY <1>1, <2>1, <2>2 DEF HandleTopology, Acknowledged
<1>4. ASSUME NEW s \in Node, NEW b \in Binding, Bind(s, b)
      PROVE  AcknowledgedIsListed'
  <2>1. InStep(s) /\ call[s] = "idle"
    BY <1>4 DEF LockStep, Bind
  <2>2. reply[s] = "none"
    BY <2>1 DEF InStep
  <2>3. \A t \in Node : Acknowledged(t)' \subseteq Acknowledged(t)
    BY <1>4, <2>2 DEF Bind, Acknowledged, TypeOK
  <2> QED BY <1>1, <1>4, <2>3 DEF Bind
<1>5. ASSUME NEW s \in Node, FetchTopology(s)
      PROVE  AcknowledgedIsListed'
  BY <1>1, <1>5 DEF FetchTopology, Acknowledged
<1>6. ASSUME NEW s \in Node, CallReturns(s)
      PROVE  AcknowledgedIsListed'
  <2>1. InStep(s) /\ call[s] # "idle" /\ reply[s] # "none"
    BY <1>6 DEF LockStep, CallReturns
  <2>2. reply[s] = "OK" \/ bound[s] = advertised[s]
    BY <2>1 DEF InStep
  <2>3. Acknowledged(s)' \subseteq Acknowledged(s)
    BY <1>6, <2>2 DEF CallReturns, Acknowledged, TypeOK
  <2>4. \A t \in Node \ {s} : Acknowledged(t)' \subseteq Acknowledged(t)
    BY <1>6 DEF CallReturns, Acknowledged, TypeOK
  <2> QED BY <1>1, <1>6, <2>3, <2>4 DEF CallReturns
<1>7. ASSUME NEW s \in Node, Restart(s)
      PROVE  AcknowledgedIsListed'
  <2>1. \A t \in Node : Acknowledged(t)' \subseteq Acknowledged(t)
    BY <1>7 DEF Restart, Acknowledged, TypeOK
  <2> QED BY <1>1, <1>7, <2>1 DEF Restart
<1>8. CASE UNCHANGED <<directory, reply, bound, advertised>>
  BY <1>1, <1>8 DEF Acknowledged
<1> QED
  BY <1>2, <1>3, <1>4, <1>5, <1>6, <1>7, <1>8
  DEF Next, vars, PublishDirectory, Run, Join, DirectoryUpdate

(* Once bind() has returned, the controller's directory lists the binding  *)
(* under a record that a lookup of the node finds, and goes on listing it. *)
THEOREM BindIsListed == Spec => []AcknowledgedIsListed
<1>1. Init => AcknowledgedIsListed
  BY DEF Init, AcknowledgedIsListed, Acknowledged
<1> QED BY <1>1, NextAcknowledged, TypeCorrect, ChannelsInStep, PTL DEF Spec
-----------------------------------------------------------------------------
LEMMA NextOneRecord == TypeOK /\ OneRecordPerNode /\ [Next]_vars => OneRecordPerNode'
<1> SUFFICES ASSUME TypeOK, OneRecordPerNode, [Next]_vars PROVE OneRecordPerNode'
  OBVIOUS
<1>1. CASE UNCHANGED directory
  BY <1>1 DEF OneRecordPerNode
<1>2. CASE \E m \in requests : HandleSubscribe(m)
  <2>1. PICK m \in requests : HandleSubscribe(m)
    BY <1>2
  <2>2. /\ m.from \in Node /\ m.binding \in Binding /\ directory \in Directory
        /\ RecordBinding(m) /\ m.action = "subscribe"
    BY <2>1, RequestType DEF HandleSubscribe, TypeOK
  <2>3. CASE \E i \in Candidates(directory, m.from) :
               directory' = AddBinding(directory, i, m.binding)
    <3>1. PICK i \in DOMAIN directory : directory' = AddBinding(directory, i, m.binding)
      BY <2>3 DEF Candidates
    <3>2. /\ DOMAIN directory' = DOMAIN directory
          /\ \A j \in DOMAIN directory : directory'[j].node = directory[j].node
      BY <2>2, <3>1, AddBindingType
    <3> QED BY <3>2 DEF OneRecordPerNode
  <2>4. CASE /\ Candidates(directory, m.from) = {}
             /\ \E ip \in AnyIp : directory' = AddNode(directory, m.from, ip, m.binding)
    <3>1. \A i \in DOMAIN directory : directory[i].node # m.from
      BY <2>2, <2>4, HitAssumption DEF Candidates
    <3>2. PICK ip \in AnyIp : directory' = AddNode(directory, m.from, ip, m.binding)
      BY <2>4
    <3>3. directory' \in Directory /\ Len(directory') = Len(directory) + 1
      BY <2>2, <3>2, AddNodeType
    <3>4. \A j \in DOMAIN directory : directory'[j] = directory[j]
      BY <2>2, <3>2, AddNodeType
    <3>5. DOMAIN directory' = DOMAIN directory \cup {Len(directory) + 1}
      BY <2>2, <3>3 DEF Directory
    <3>6. directory'[Len(directory) + 1].node = m.from
      BY <2>2, <3>2, AddNodeLast
    <3> QED BY <3>1, <3>4, <3>5, <3>6 DEF OneRecordPerNode
  <2> QED BY <2>1, <2>2, <2>3, <2>4, RecordBindingCases
<1> QED
  BY <1>1, <1>2 DEF Next, vars, ctlVars, PublishDirectory, HandleTopology, Bind,
     FetchTopology, CallReturns, Run, DirectoryUpdate, Restart, Join

(* The directory never holds two records of one node.                      *)
THEOREM OneRecord == Spec => []OneRecordPerNode
<1>1. Init => OneRecordPerNode
  BY DEF Init, OneRecordPerNode
<1> QED BY <1>1, NextOneRecord, TypeCorrect, PTL DEF Spec

-----------------------------------------------------------------------------
(* What the controller's directory means: with the services' copies it     *)
(* implements the abstract DirectoryService, and, if its lookup compared   *)
(* names exactly, every record would hold its own node's bindings.         *)

(* Each step of the directory or of a copy is a step of DirectoryService.  *)
Known == [s \in Node |-> Entries(view[s])]

LEMMA EmptyHasNoEntries == Entries(<<>>) = {}
BY DEF Entries

LEMMA InitImplements == Init => Promise!Init
BY EmptyHasNoEntries DEF Init, Promise!Init

LEMMA SubscribeRegisters ==
  ASSUME TypeOK, NEW m \in requests, HandleSubscribe(m)
  PROVE  \E e \in Entry : Promise!Register(e)
<1>1. /\ directory \in Directory /\ m.binding \in Binding /\ m.from \in Node
      /\ m.action = "subscribe" /\ RecordBinding(m) /\ view' = view
  BY RequestType DEF TypeOK, HandleSubscribe, svcVars
<1>2. \E e \in Entry : Entries(directory') = Entries(directory) \cup {e}
  <2>1. CASE \E i \in Candidates(directory, m.from) :
               directory' = AddBinding(directory, i, m.binding)
    <3>1. PICK i \in DOMAIN directory : directory' = AddBinding(directory, i, m.binding)
      BY <2>1 DEF Candidates
    <3> QED BY <1>1, <3>1, AddBindingEntries
  <2>2. CASE \E ip \in AnyIp : directory' = AddNode(directory, m.from, ip, m.binding)
    <3>1. PICK ip \in AnyIp : directory' = AddNode(directory, m.from, ip, m.binding)
      BY <2>2
    <3> QED BY <1>1, <3>1, AddNodeEntries
  <2> QED BY <1>1, <2>1, <2>2, RecordBindingCases
<1> QED BY <1>1, <1>2 DEF Promise!Register

LEMMA UpdateLearns ==
  ASSUME TypeOK, ViewsAreSnapshots, NEW s \in Node, DirectoryUpdate(s)
  PROVE  \E es \in SUBSET Entries(directory) : Promise!Learn(s, es)
<1>1. /\ view' \in [Node -> Directory] /\ directory \in Directory
      /\ directory' = directory
      /\ \A t \in Node \ {s} : view'[t] = view[t]
  BY NextTypeOK DEF DirectoryUpdate, TypeOK, ctlVars, Next
<1>2. GrowsInto(view[s], view'[s]) /\ GrowsInto(view'[s], directory')
  BY UpdateSnapshots DEF ViewsAreSnapshots, SnapshotsOf
<1>3. Entries(view[s]) \subseteq Entries(view'[s])
  BY <1>1, <1>2, CopiesType, GrowsKeepsEntries
<1>4. Entries(view'[s]) \subseteq Entries(directory)
  BY <1>1, <1>2, GrowsKeepsEntries
<1>5. Known' = [Known EXCEPT ![s] = Entries(view'[s])]
  BY <1>1 DEF Known
<1>6. Promise!Learn(s, Entries(view'[s]))
  BY <1>1, <1>3, <1>4, <1>5 DEF Promise!Learn, Known
<1> QED BY <1>4, <1>6

LEMMA RestartForgets ==
  ASSUME TypeOK, NEW s \in Node, Restart(s)
  PROVE  Promise!Forget(s)
<1>1. /\ view'[s] = <<>> /\ directory' = directory
      /\ \A t \in Node \ {s} : view'[t] = view[t]
  BY DEF Restart, TypeOK, ctlVars
<1>2. Known' = [Known EXCEPT ![s] = {}]
  BY <1>1, EmptyHasNoEntries DEF Known
<1> QED BY <1>1, <1>2 DEF Promise!Forget, Known

LEMMA NextImplements ==
  ASSUME TypeOK, ViewsAreSnapshots, [Next]_vars
  PROVE  Promise!Next \/ UNCHANGED <<Entries(directory), Known>>
<1>1. CASE \E m \in requests : HandleSubscribe(m)
  BY <1>1, SubscribeRegisters DEF Promise!Next
<1>2. CASE \E s \in Node : DirectoryUpdate(s)
  BY <1>2, UpdateLearns DEF Promise!Next
<1>3. CASE \E s \in Node : Restart(s)
  BY <1>3, RestartForgets DEF Promise!Next
<1>4. CASE UNCHANGED <<directory, view>>
  BY <1>4 DEF Known
<1> QED
  BY <1>1, <1>2, <1>3, <1>4, OtherStepsKeepCopies DEF PublishDirectory, svcVars

(* The controller's directory and the services' copies implement the       *)
(* abstract directory service: an endpoint once registered stays, and a    *)
(* service that lives only ever learns registered endpoints and forgets    *)
(* none.                                                                   *)
THEOREM Implements == Spec => ImplementsDirectoryService
<1>1. ASSUME TypeOK, ViewsAreSnapshots, [Next]_vars
      PROVE  [Promise!Next]_<<Entries(directory), Known>>
  BY <1>1, NextImplements
<1>2. TypeOK /\ ViewsAreSnapshots /\ [Next]_vars
        => [Promise!Next]_<<Entries(directory), [s \in Node |-> Entries(view[s])]>>
  BY <1>1 DEF Known
<1> QED
  BY <1>2, InitImplements, TypeCorrect, CopiesAreSnapshots, PTL
  DEF Spec, ImplementsDirectoryService, Promise!Spec
-----------------------------------------------------------------------------
(* RecordIsTheNodes fails for the code's lookup, which takes a node for    *)
(* another whose name contains it.  With a lookup that compares names it   *)
(* holds; the strengthening says which of the node's bindings are listed:  *)
(* no more than those acknowledged, so the one being subscribed is new.    *)
ExactLookup == \A n, m \in Node : <<n, m>> \in Hit => n = m

OwnRecord(i) ==
  LET s == directory[i].node
  IN  life[s] = 1 => /\ directory[i].ip = Home[s]
                     /\ \A k \in DOMAIN directory[i].bindings :
                          directory[i].bindings[k] \in Acknowledged(s)
                     /\ \A k, l \in DOMAIN directory[i].bindings :
                          directory[i].bindings[k] = directory[i].bindings[l] => k = l

OwnRecords ==
  /\ \A i \in DOMAIN directory : OwnRecord(i)
  /\ \A s \in Node : advertised[s] \subseteq bound[s]

LEMMA OwnRecordsSuffice == TypeOK /\ OwnRecords => RecordIsTheNodes
<1> SUFFICES ASSUME TypeOK, OwnRecords, NEW i \in DOMAIN directory,
                    life[directory[i].node] = 1
             PROVE  /\ directory[i].ip = Home[directory[i].node]
                    /\ ToSet(directory[i].bindings) \subseteq bound[directory[i].node]
                    /\ IsInjective(directory[i].bindings)
  BY DEF RecordIsTheNodes
<1>1. OwnRecord(i) /\ directory[i].node \in Node
  BY RecordType DEF OwnRecords, TypeOK
<1>2. Acknowledged(directory[i].node) \subseteq bound[directory[i].node]
  BY <1>1 DEF OwnRecords, Acknowledged
<1> QED BY <1>1, <1>2 DEF OwnRecord, ToSet, IsInjective

(* A step that leaves the directory alone, and what a node of a first life *)
(* had acknowledged, keeps the records right.                              *)
LEMMA QuietStep ==
  ASSUME TypeOK, OwnRecords, UNCHANGED directory,
         \A s \in Node : life'[s] = 1 => life[s] = 1 /\ Acknowledged(s) \subseteq Acknowledged(s)'
  PROVE  \A i \in DOMAIN directory' : OwnRecord(i)'
<1> SUFFICES ASSUME NEW i \in DOMAIN directory, life'[directory[i].node] = 1
             PROVE  OwnRecord(i)'
  BY DEF OwnRecord
<1>1. OwnRecord(i) /\ directory[i].node \in Node
  BY RecordType DEF OwnRecords, TypeOK
<1> QED BY <1>1 DEF OwnRecord

(* The subscription of a node in its first life adds a binding of the node *)
(* that was not acknowledged before and is afterwards.                     *)
LEMMA SubscribeAcknowledges ==
  ASSUME TypeOK, LockStep, OwnRecords, NEW m \in requests, HandleSubscribe(m)
  PROVE  /\ \A s \in Node : Acknowledged(s) \subseteq Acknowledged(s)'
         /\ life[m.from] = 1 =>
              /\ m.binding \notin Acknowledged(m.from)
              /\ m.binding \in Acknowledged(m.from)'
              /\ PeerIp(m) = {Home[m.from]}
<1> DEFINE f == m.from
<1>1. /\ f \in Node /\ m.action = "subscribe" /\ Answer(m, "OK")
      /\ UNCHANGED <<life, bound, advertised, call>>
  BY RequestType DEF HandleSubscribe, svcVars
<1>2. \A s \in Node : reply[s] = "OK" => reply'[s] = "OK"
  BY <1>1 DEF Answer, TypeOK
<1>3. ASSUME life[f] = 1
      PROVE  /\ m.binding \notin Acknowledged(f) /\ m.binding \in Acknowledged(f)'
             /\ PeerIp(m) = {Home[f]}
  <2>1. InStep(f) /\ m.life <= life[f] /\ m.life \in Nat \ {0}
    BY <1>1, RequestType DEF LockStep, InStep, Life
  <2>2. m \in Outstanding(f) /\ Live(m)
    BY <1>3, <2>1 DEF Outstanding, Live
  <2>3. reply[f] = "none" /\ Asks(f, m)
    BY <2>1, <2>2 DEF InStep
  <2>4. reply'[f] = "OK"
    BY <1>1, <2>2 DEF Answer, TypeOK
  <2> QED BY <1>1, <2>2, <2>3, <2>4 DEF Acknowledged, Asks, PeerIp
<1> QED BY <1>1, <1>2, <1>3 DEF Acknowledged

LEMMA SubscribeOwnRecords ==
  ASSUME ExactLookup, TypeOK, LockStep, OwnRecords, NEW m \in requests, HandleSubscribe(m)
  PROVE  \A i \in DOMAIN directory' : OwnRecord(i)'
<1> DEFINE f == m.from
           b == m.binding
<1>1. /\ f \in Node /\ b \in Binding /\ m.action = "subscribe" /\ RecordBinding(m)
      /\ directory \in Directory /\ life' = life
  BY RequestType DEF HandleSubscribe, svcVars, TypeOK
<1>2. \A s \in Node : Acknowledged(s) \subseteq Acknowledged(s)'
  BY SubscribeAcknowledges
<1>3. life[f] = 1 => b \notin Acknowledged(f) /\ b \in Acknowledged(f)' /\ PeerIp(m) = {Home[f]}
  BY SubscribeAcknowledges
<1>4. ASSUME NEW i \in DOMAIN directory, i \in DOMAIN directory',
             directory'[i].node = directory[i].node, directory'[i].ip = directory[i].ip,
             directory'[i].bindings = directory[i].bindings
      PROVE  OwnRecord(i)'
  <2>1. OwnRecord(i) /\ directory[i].node \in Node
    BY <1>1, RecordType DEF OwnRecords
  <2> QED BY <1>1, <1>2, <1>4, <2>1 DEF OwnRecord
<1>5. CASE \E i \in Candidates(directory, f) : directory' = AddBinding(directory, i, b)
  <2>1. PICK i \in DOMAIN directory : /\ directory' = AddBinding(directory, i, b)
                                      /\ <<f, directory[i].node>> \in Hit
    BY <1>5 DEF Candidates
  <2>2. directory[i].node = f
    BY <1>1, <2>1, RecordType DEF ExactLookup
  <2>3. /\ DOMAIN directory' = DOMAIN directory
        /\ \A j \in DOMAIN directory :
              /\ directory'[j].node = directory[j].node
              /\ directory'[j].ip = directory[j].ip
              /\ directory'[j].bindings
                   = IF i = j THEN Append(directory[i].bindings, b) ELSE directory[j].bindings
    BY <1>1, <2>1, AddBindingType
  <2>4. \A j \in DOMAIN directory' \ {i} : OwnRecord(j)'
    BY <1>4, <2>3
  <2>5. ASSUME life[f] = 1
        PROVE  OwnRecord(i)'
    <3> DEFINE bs == directory[i].bindings
               new == directory'[i].bindings
    <3>1. OwnRecord(i)
      BY DEF OwnRecords
    <3>2. bs \in Seq(Binding) /\ new = Append(bs, b)
      BY <1>1, <2>3, RecordType
    <3>3. /\ DOMAIN new = DOMAIN bs \cup {Len(bs) + 1}
          /\ \A k \in DOMAIN bs : new[k] = bs[k]
          /\ new[Len(bs) + 1] = b
      BY <1>1, <3>2
    <3>4. /\ \A k \in DOMAIN bs : bs[k] \in Acknowledged(f)
          /\ \A k, l \in DOMAIN bs : bs[k] = bs[l] => k = l
      BY <2>2, <2>5, <3>1 DEF OwnRecord
    <3>5. \A k \in DOMAIN new : new[k] \in Acknowledged(f)'
      BY <1>1, <1>2, <1>3, <2>5, <3>3, <3>4
    <3>6. \A k \in DOMAIN bs : bs[k] # b
      BY <1>3, <2>5, <3>4
    <3>7. \A k, l \in DOMAIN new : new[k] = new[l] => k = l
      BY <3>3, <3>4, <3>6
    <3>8. directory'[i].node = f /\ directory'[i].ip = Home[f]
      BY <2>2, <2>3, <2>5, <3>1 DEF OwnRecord
    <3> QED BY <3>5, <3>7, <3>8 DEF OwnRecord
  <2>6. life[f] # 1 => OwnRecord(i)'
    BY <1>1, <2>2, <2>3 DEF OwnRecord
  <2> QED BY <2>4, <2>5, <2>6
<1>6. CASE Candidates(directory, f) = {}
  <2>1. PICK ip \in PeerIp(m) : directory' = AddNode(directory, f, ip, b)
    BY <1>1, <1>6 DEF RecordBinding
  <2>2. ip \in AnyIp
    BY <1>1, <2>1, HomeAssumption DEF PeerIp, AnyIp
  <2>0. PICK last : last = Len(directory) + 1
    OBVIOUS
  <2>3. /\ DOMAIN directory' = DOMAIN directory \cup {last}
        /\ \A j \in DOMAIN directory : directory'[j] = directory[j]
    <3>1. directory' \in Directory /\ Len(directory') = last
      BY <1>1, <2>0, <2>1, <2>2, AddNodeType
    <3>2. \A j \in DOMAIN directory : directory'[j] = directory[j]
      BY <1>1, <2>1, <2>2, AddNodeType
    <3> QED BY <1>1, <2>0, <3>1, <3>2 DEF Directory
  <2>4. /\ directory'[last].node = f /\ directory'[last].ip = ip
        /\ directory'[last].bindings = <<b>>
    BY <1>1, <2>0, <2>1, <2>2, AddNodeLast
  <2>5. \A j \in DOMAIN directory : OwnRecord(j)'
    BY <1>4, <2>3
  <2>6. DOMAIN <<b>> = {1} /\ <<b>>[1] = b
    OBVIOUS
  <2>7. OwnRecord(last)'
    BY <1>1, <1>3, <2>1, <2>4, <2>6 DEF OwnRecord
  <2> QED BY <2>3, <2>5, <2>7
<1> QED BY <1>1, <1>5, <1>6 DEF RecordBinding

LEMMA NextOwnRecords ==
  ASSUME ExactLookup, TypeOK, LockStep, OwnRecords, [Next]_vars
  PROVE  OwnRecords'
<1> USE DEF ctlVars, wireVars, svcVars
<1>1. ASSUME UNCHANGED <<directory, life, bound, advertised>>,
             \A s \in Node : reply[s] = "OK" => reply'[s] = "OK"
      PROVE  OwnRecords'
  BY <1>1, QuietStep DEF OwnRecords, Acknowledged
<1>2. CASE \E m \in requests : HandleSubscribe(m)
  BY <1>2, SubscribeOwnRecords DEF HandleSubscribe, OwnRecords
<1>3. CASE \E m \in requests : HandleTopology(m)
  <2>1. PICK m \in requests : HandleTopology(m)
    BY <1>3
  <2>2. m.from \in Node /\ InStep(m.from)
    BY RequestType DEF LockStep
  <2>3. Live(m) => reply[m.from] = "none"
    BY <2>2 DEF InStep, Outstanding
  <2>4. \A s \in Node : reply[s] = "OK" => reply'[s] = "OK"
    BY <2>1, <2>2, <2>3 DEF HandleTopology, Answer, TypeOK
  <2> QED BY <1>1, <2>1, <2>4 DEF HandleTopology
<1>4. ASSUME NEW s \in Node, NEW b \in Binding, Bind(s, b)
      PROVE  OwnRecords'
  <2>1. \A t \in Node : bound[t] \subseteq bound'[t]
    BY <1>4 DEF Bind, TypeOK
  <2>2. \A t \in Node : Acknowledged(t) \subseteq Acknowledged(t)'
    BY <1>4, <2>1 DEF Bind, Acknowledged
  <2> QED BY <1>4, <2>1, <2>2, QuietStep DEF Bind, OwnRecords
<1>5. ASSUME NEW s \in Node, CallReturns(s)
      PROVE  OwnRecords'
  <2>1. /\ advertised'[s] = bound[s] /\ UNCHANGED <<directory, bound, life>>
        /\ \A t \in Node \ {s} : advertised'[t] = advertised[t] /\ reply'[t] = reply[t]
    BY <1>5 DEF CallReturns, TypeOK
  <2>2. advertised[s] \subseteq bound[s]
    BY DEF OwnRecords
  <2>3. \A t \in Node : Acknowledged(t) \subseteq Acknowledged(t)'
    BY <2>1, <2>2 DEF Acknowledged
  <2>4. \A t \in Node : advertised'[t] \subseteq bound'[t]
    BY <2>1 DEF OwnRecords
  <2> QED BY <2>1, <2>3, <2>4, QuietStep DEF OwnRecords
<1>6. ASSUME NEW s \in Node, Restart(s)
      PROVE  OwnRecords'
  <2>1. /\ life'[s] = life[s] + 1 /\ life[s] \in Nat \ {0}
        /\ advertised'[s] = {} /\ bound'[s] = {} /\ UNCHANGED directory
        /\ \A t \in Node \ {s} : /\ life'[t] = life[t] /\ advertised'[t] = advertised[t]
                                 /\ bound'[t] = bound[t] /\ reply'[t] = reply[t]
    BY <1>6 DEF Restart, TypeOK, Life
  <2>2. life'[s] # 1
    BY <2>1
  <2>3. \A t \in Node : advertised'[t] \subseteq bound'[t]
    BY <2>1 DEF OwnRecords
  <2>4. \A t \in Node : life'[t] = 1 => life[t] = 1 /\ Acknowledged(t) \subseteq Acknowledged(t)'
    BY <2>1, <2>2 DEF Acknowledged
  <2> QED BY <2>1, <2>3, <2>4, QuietStep DEF OwnRecords
<1>7. CASE UNCHANGED <<directory, life, bound, advertised, reply>>
  BY <1>1, <1>7
<1> QED
  BY <1>2, <1>3, <1>4, <1>5, <1>6, <1>7
  DEF Next, vars, PublishDirectory, FetchTopology, Run, Join, DirectoryUpdate

(* If the lookup compared names exactly, the record of a node that never   *)
(* restarted would hold that node's address and its own bindings, each     *)
(* once: the records other nodes' bindings end up in are the lookup's doing. *)
THEOREM ExactLookupKeepsRecords ==
  ASSUME ExactLookup
  PROVE  Spec => []RecordIsTheNodes
<1>1. Init => OwnRecords
  BY DEF Init, OwnRecords
<1>2. TypeOK /\ LockStep /\ OwnRecords /\ [Next]_vars => OwnRecords'
  BY NextOwnRecords
<1> QED
  BY <1>1, <1>2, OwnRecordsSuffice, TypeCorrect, ChannelsInStep, PTL DEF Spec
=============================================================================
