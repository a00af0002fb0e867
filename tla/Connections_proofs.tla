-------------------------- MODULE Connections_proofs ------------------------
(***************************************************************************)
(* Theorems about Connections for any nodes, names and calls of connect(). *)
(***************************************************************************)
EXTENDS Connections, FiniteSetTheorems, SequenceTheorems, TLAPS

(* What the erase of check_deferred() leaves of a list that is not empty.  *)
LEMMA EraseAtType ==
  ASSUME NEW list \in Seq(Call), list # <<>>, NEW i \in Nat
  PROVE  /\ EraseAt(list, i) \in Seq(Call)
         /\ Len(EraseAt(list, i)) = Len(list) - 1
         /\ \A k \in DOMAIN EraseAt(list, i) :
              \E l \in DOMAIN list : EraseAt(list, i)[k] = list[l]
<1>0. Len(list) \in Nat /\ Len(list) > 0
  OBVIOUS
<1>1. CASE i < Len(list)
  <2> DEFINE a == SubSeq(list, 1, i)
             b == SubSeq(list, i + 2, Len(list))
  <2>1. EraseAt(list, i) = a \o b
    <3>1. EraseAt(list, i) = SubSeq(list, 1, (i + 1) - 1) \o SubSeq(list, (i + 1) + 1, Len(list))
      BY <1>1 DEF EraseAt, RemoveAt
    <3>2. (i + 1) - 1 = i /\ (i + 1) + 1 = i + 2
      OBVIOUS
    <3> QED BY <3>1, <3>2
  <2>2. /\ a \in Seq(Call) /\ Len(a) = i
        /\ \A k \in 1..i : a[k] = list[k]
    BY <1>1
  <2>3. /\ b \in Seq(Call) /\ Len(b) = Len(list) - i - 1
        /\ \A k \in 1..Len(b) : b[k] = list[k + i + 1]
    BY <1>1
  <2> HIDE DEF a, b
  <2>4. a \o b \in Seq(Call) /\ Len(a \o b) = Len(list) - 1
    BY <1>1, <2>2, <2>3
  <2>5. ASSUME NEW k \in DOMAIN (a \o b)
        PROVE  \E l \in DOMAIN list : (a \o b)[k] = list[l]
    <3>1. k \in 1..Len(list) - 1
      BY <2>4
    <3>2. CASE k <= i
      BY <1>1, <2>2, <2>3, <3>1, <3>2
    <3>3. CASE k > i
      <4>1. (a \o b)[k] = b[k - i] /\ k - i \in 1..Len(b)
        BY <1>1, <2>2, <2>3, <3>1, <3>3
      <4>2. k - i + i + 1 = k + 1 /\ k + 1 \in DOMAIN list
        BY <1>0, <3>1
      <4>3. b[k - i] = list[k + 1]
        BY <2>3, <4>1, <4>2
      <4> QED BY <4>1, <4>2, <4>3
    <3> QED BY <3>1, <3>2, <3>3
  <2> QED BY <2>1, <2>4, <2>5
<1>2. CASE ~(i < Len(list))
  <2>1. PICK n \in Nat : n = Len(list) - 1
    BY <1>0
  <2>2. EraseAt(list, i) = SubSeq(list, 1, n)
    BY <1>2, <2>1 DEF EraseAt, Front
  <2>3. n <= Len(list)
    BY <1>0, <2>1
  <2>4. /\ SubSeq(list, 1, n) \in Seq(Call) /\ Len(SubSeq(list, 1, n)) = n
        /\ \A k \in 1..n : SubSeq(list, 1, n)[k] = list[k]
    BY <2>3
  <2> QED BY <2>1, <2>2, <2>3, <2>4
<1> QED BY <1>1, <1>2

(* What a lookup may answer.                                               *)
LEMMA BLookupType ==
  ASSUME NEW dir \in View, NEW c \in Call, NEW found \in BLookup(dir, c)
  PROVE  /\ found \in Endpoint \cup {Missing}
         /\ found # Missing => /\ found[1] \in Matches[c] /\ found[2] = Wanted[c]
                               /\ found[2] \in dir[found[1]]
<1>1. Matches[c] \subseteq Node /\ Wanted[c] \in BindName
  BY CallAssumption
<1>2. found = Missing \/ \E n \in Picks(dir, c) : found = <<n, Wanted[c]>> /\ Wanted[c] \in dir[n]
  BY DEF BLookup
<1> QED BY <1>1, <1>2 DEF Picks, Endpoint, Missing

LEMMA InitTypeOK == Init => TypeOK
<1> SUFFICES ASSUME Init PROVE TypeOK
  OBVIOUS
<1>1. published \in View /\ view \in View /\ updates \in Seq(View)
  BY DEF Init, View
<1>2. user \in {Idle} \cup (Call \X (Endpoint \cup {Missing}))
  BY DEF Init
<1>3. peers \in [Call -> Seq(Endpoint)]
  <2>1. <<>> \in Seq(Endpoint)
    OBVIOUS
  <2> QED BY <2>1 DEF Init
<1>4. deferred \in Seq(Call) /\ iter \in Seq(Call) /\ called \subseteq Call
  BY DEF Init
<1>5. /\ loop \in {"setup", "poll", "copy", "check", "reconnect", "erase"}
      /\ pos \in Nat \ {0} /\ res \in Nat
  BY DEF Init
<1>6. joined \in BOOLEAN /\ mode \in Modes
  BY DEF Init
<1> QED BY <1>1, <1>2, <1>3, <1>4, <1>5, <1>6 DEF TypeOK

(* The two outcomes of connect().                                          *)
LEMMA ConnectType ==
  ASSUME TypeOK, NEW c \in Call, NEW found \in Endpoint \cup {Missing},
         Established(c, found) \/ Deferred(c, found)
  PROVE  peers' \in [Call -> Seq(Endpoint)] /\ deferred' \in Seq(Call)
<1>1. CASE Established(c, found)
  <2>1. Append(peers[c], found) \in Seq(Endpoint)
    BY <1>1 DEF Established, TypeOK
  <2> QED BY <1>1, <2>1 DEF Established, TypeOK
<1>2. CASE Deferred(c, found)
  BY <1>2 DEF Deferred, TypeOK
<1> QED BY <1>1, <1>2

(* Where check_deferred() stands in its copy of the list: an entry that is *)
(* being connected is one of the copy, and what is left of the deferred    *)
(* list is enough for the erases still to come.                            *)
PassBounds ==
  /\ loop \in {"reconnect", "erase"} => pos <= Len(iter)
  /\ loop \in {"check", "reconnect", "erase"} => Len(iter) < Len(deferred) + pos

LEMMA NextTypeOK == TypeOK /\ PassBounds /\ [Next]_vars => TypeOK'
<1> SUFFICES ASSUME TypeOK, PassBounds, [Next]_vars PROVE TypeOK'
  OBVIOUS
<1> USE DEF loopVars, pubVars
<1>1. ASSUME NEW n \in Node, NEW b \in BindName, Publish(n, b)
      PROVE  TypeOK'
  <2>1. published' \in View
    BY <1>1 DEF Publish, TypeOK, View
  <2>2. updates' \in Seq(View)
    BY <1>1, <2>1 DEF Publish, TypeOK
  <2> QED BY <1>1, <2>1, <2>2 DEF Publish, TypeOK
<1>2. ASSUME NEW c \in Call, UserLookup(c)
      PROVE  TypeOK'
  <2>1. user' \in Call \X (Endpoint \cup {Missing})
    BY <1>2, BLookupType DEF UserLookup, TypeOK
  <2> QED BY <1>2, <2>1 DEF UserLookup, TypeOK
<1>3. CASE UserFinish
  <2>1. user[1] \in Call /\ user[2] \in Endpoint \cup {Missing}
    BY <1>3 DEF UserFinish, TypeOK
  <2>2. peers' \in [Call -> Seq(Endpoint)] /\ deferred' \in Seq(Call)
    BY <1>3, <2>1, ConnectType DEF UserFinish
  <2> QED BY <1>3, <2>2 DEF UserFinish, TypeOK
<1>4. CASE Run
  BY <1>4 DEF Run, TypeOK
<1>5. CASE DirectoryUpdate
  BY <1>5 DEF DirectoryUpdate, TypeOK
<1>6. CASE CopyDeferred
  BY <1>6 DEF CopyDeferred, TypeOK
<1>7. CASE Check
  BY <1>7 DEF Check, TypeOK
<1>8. CASE Reconnect
  <2>1. iter[pos] \in Call
    BY <1>8 DEF Reconnect, TypeOK, PassBounds
  <2>2. peers' \in [Call -> Seq(Endpoint)] /\ deferred' \in Seq(Call)
    <3>1. PICK found \in BLookup(view, iter[pos]) :
             Established(iter[pos], found) \/ Deferred(iter[pos], found)
      BY <1>8 DEF Reconnect
    <3>2. found \in Endpoint \cup {Missing}
      BY <2>1, BLookupType DEF TypeOK
    <3> QED BY <2>1, <3>1, <3>2, ConnectType
  <2> QED BY <1>8, <2>2 DEF Reconnect, TypeOK
<1>9. CASE EraseAndAdvance
  <2>1. deferred # <<>> /\ deferred \in Seq(Call) /\ res \in Nat
    BY <1>9 DEF EraseAndAdvance, TypeOK, PassBounds
  <2>2. deferred' \in Seq(Call)
    BY <1>9, <2>1, EraseAtType DEF EraseAndAdvance
  <2> QED BY <1>9, <2>2 DEF EraseAndAdvance, TypeOK
<1>10. CASE CheckReturns
  BY <1>10 DEF CheckReturns, TypeOK
<1>11. CASE UNCHANGED vars
  BY <1>11 DEF vars, TypeOK
<1>12. CASE Join
  BY <1>12 DEF Join, TypeOK
<1> QED
  BY <1>1, <1>2, <1>3, <1>4, <1>5, <1>6, <1>7, <1>8, <1>9, <1>10, <1>11, <1>12 DEF Next

LEMMA NextPassBounds == TypeOK /\ PassBounds /\ [Next]_vars => PassBounds'
<1> SUFFICES ASSUME TypeOK, PassBounds, [Next]_vars PROVE PassBounds'
  OBVIOUS
<1> USE DEF loopVars, pubVars
<1>1. /\ deferred \in Seq(Call) /\ iter \in Seq(Call) /\ pos \in Nat /\ res \in Nat
      /\ Len(deferred) \in Nat /\ Len(iter) \in Nat
  BY DEF TypeOK
<1>2. ASSUME UNCHANGED <<loop, iter, pos>>, Len(deferred') \in Nat,
             Len(deferred) <= Len(deferred')
      PROVE  PassBounds'
  BY <1>1, <1>2 DEF PassBounds
<1>3. ASSUME NEW c, NEW found, Established(c, found) \/ Deferred(c, found)
      PROVE  Len(deferred') \in Nat /\ Len(deferred) <= Len(deferred')
  BY <1>1, <1>3 DEF Established, Deferred
<1>4. CASE UserFinish
  BY <1>2, <1>3, <1>4 DEF UserFinish
<1>5. CASE UNCHANGED <<deferred, loop, iter, pos>>
  BY <1>1, <1>2, <1>5
<1>6. CASE Run \/ DirectoryUpdate \/ CheckReturns
  BY <1>6 DEF Run, DirectoryUpdate, CheckReturns, PassBounds
<1>7. CASE CopyDeferred
  BY <1>1, <1>7 DEF CopyDeferred, PassBounds
<1>8. CASE Check
  BY <1>1, <1>8 DEF Check, PassBounds
<1>9. CASE Reconnect
  <2>1. Len(deferred') \in Nat /\ Len(deferred) <= Len(deferred')
    BY <1>3, <1>9 DEF Reconnect
  <2> QED BY <1>1, <1>9, <2>1 DEF Reconnect, PassBounds
<1>10. CASE EraseAndAdvance
  <2>1. deferred # <<>>
    BY <1>1, <1>10 DEF EraseAndAdvance, PassBounds
  <2>2. Len(deferred') = Len(deferred) - 1
    BY <1>1, <1>10, <2>1, EraseAtType DEF EraseAndAdvance
  <2> QED BY <1>1, <1>10, <2>2 DEF EraseAndAdvance, PassBounds
<1> QED
  BY <1>4, <1>5, <1>6, <1>7, <1>8, <1>9, <1>10 DEF Next, vars, Join, Publish, UserLookup

LEMMA PassInvariant == Spec => [](TypeOK /\ PassBounds)
<1>1. Init => PassBounds
  BY DEF Init, PassBounds
<1> QED BY <1>1, InitTypeOK, NextTypeOK, NextPassBounds, PTL DEF Spec

(* Every variable keeps its type.                                          *)
THEOREM TypeCorrect == Spec => []TypeOK
BY PassInvariant, PTL

(* check_deferred() never erases from an empty vector, whatever connect()  *)
(* defers meanwhile, on either thread.                                     *)
THEOREM EraseIsSafe == Spec => []EraseHasAnElement
<1>1. TypeOK /\ PassBounds => EraseHasAnElement
  BY DEF TypeOK, PassBounds, EraseHasAnElement
<1> QED BY <1>1, PassInvariant, PTL
-----------------------------------------------------------------------------
(* No copy of the directory lists what the controller's does not, and what *)
(* a lookup found, the user's thread's under way included, fits its call.  *)
Fits(c, p) == p[1] \in Matches[c] /\ p[2] = Wanted[c] /\ p[2] \in published[p[1]]

Listed(dir) == \A n \in Node : dir[n] \subseteq published[n]

CopiesListed ==
  /\ Listed(view)
  /\ \A i \in DOMAIN updates : Listed(updates[i])
  /\ user # Idle /\ user[2] # Missing => Fits(user[1], user[2])

LEMMA LookupFits ==
  ASSUME TypeOK, CopiesListed, NEW c \in Call, NEW found \in BLookup(view, c),
         found # Missing
  PROVE  Fits(c, found)
<1>1. /\ found[1] \in Matches[c] /\ found[2] = Wanted[c] /\ found[2] \in view[found[1]]
  BY BLookupType DEF TypeOK
<1>2. found[1] \in Node
  BY <1>1, CallAssumption
<1> QED BY <1>1, <1>2 DEF CopiesListed, Listed, Fits

LEMMA NextListed == TypeOK /\ CopiesListed /\ [Next]_vars => CopiesListed'
<1> SUFFICES ASSUME TypeOK, CopiesListed, [Next]_vars PROVE CopiesListed'
  OBVIOUS
<1> USE DEF loopVars, pubVars
<1>1. ASSUME NEW n \in Node, NEW b \in BindName, Publish(n, b)
      PROVE  CopiesListed'
  <2>1. /\ \A m \in Node : published[m] \subseteq published'[m]
        /\ updates' = updates \/ updates' = Append(updates, published')
        /\ updates \in Seq(View) /\ published' \in View
        /\ UNCHANGED <<view, user>>
    BY <1>1 DEF Publish, TypeOK, View
  <2>2. Listed(view)'
    BY <2>1 DEF CopiesListed, Listed
  <2>3. ASSUME NEW i \in DOMAIN updates'
        PROVE  \A m \in Node : updates'[i][m] \subseteq published'[m]
    <3>1. CASE i \in DOMAIN updates
      <4>1. updates'[i] = updates[i]
        BY <2>1, <3>1
      <4>2. Listed(updates[i])
        BY <3>1 DEF CopiesListed
      <4> QED BY <2>1, <4>1, <4>2 DEF Listed
    <3>2. CASE i \notin DOMAIN updates
      <4>1. updates'[i] = published'
        BY <2>1, <3>2
      <4> QED BY <4>1
    <3> QED BY <3>1, <3>2
  <2>4. user # Idle /\ user[2] # Missing => Fits(user[1], user[2])'
    <3>1. SUFFICES ASSUME user # Idle, user[2] # Missing
                   PROVE  Fits(user[1], user[2])'
      OBVIOUS
    <3>2. Fits(user[1], user[2]) /\ user[1] \in Call
      BY <3>1 DEF CopiesListed, TypeOK
    <3>3. user[2][1] \in Node
      BY <3>2, CallAssumption DEF Fits
    <3> QED BY <2>1, <3>2, <3>3 DEF Fits
  <2> QED BY <2>1, <2>2, <2>3, <2>4 DEF CopiesListed, Listed
<1>2. ASSUME NEW c \in Call, UserLookup(c)
      PROVE  CopiesListed'
  <2>1. PICK found \in BLookup(view, c) : user' = <<c, found>>
    BY <1>2 DEF UserLookup
  <2>2. found # Missing => Fits(c, found)
    BY LookupFits
  <2> QED BY <1>2, <2>1, <2>2 DEF UserLookup, CopiesListed, Listed, Fits
<1>3. CASE DirectoryUpdate
  <2>1. /\ updates \in Seq(View) /\ updates # <<>>
        /\ view' = updates[1] /\ updates' = Tail(updates)
        /\ UNCHANGED <<published, user>>
    BY <1>3 DEF DirectoryUpdate, TypeOK
  <2>2. /\ 1 \in DOMAIN updates
        /\ \A i \in DOMAIN updates' : i + 1 \in DOMAIN updates /\ updates'[i] = updates[i + 1]
    BY <2>1
  <2> QED BY <2>1, <2>2 DEF CopiesListed, Listed, Fits
<1>4. CASE UserFinish
  BY <1>4 DEF UserFinish, CopiesListed, Listed
<1>5. CASE UNCHANGED <<published, updates, view, user>>
  BY <1>5 DEF CopiesListed, Listed, Fits
<1> QED
  BY <1>1, <1>2, <1>3, <1>4, <1>5
  DEF Next, vars, Join, Run, CopyDeferred, Check, Reconnect, EraseAndAdvance, CheckReturns

LEMMA ConnectWhereWanted ==
  ASSUME TypeOK, ConnectedWhereWanted, published' = published,
         NEW c \in Call, NEW found \in Endpoint \cup {Missing},
         found # Missing => Fits(c, found),
         Established(c, found) \/ Deferred(c, found)
  PROVE  ConnectedWhereWanted'
<1>1. ASSUME NEW d \in Call, NEW p \in ToSet(peers'[d])
      PROVE  Fits(d, p)
  <2>1. p \in ToSet(peers[d]) \/ (d = c /\ p = found /\ found # Missing)
    <3>1. CASE Established(c, found)
      <4>1. peers'[d] = peers[d] \/ (d = c /\ peers'[d] = Append(peers[d], found))
        BY <3>1 DEF Established, TypeOK
      <4>2. peers[d] \in Seq(Endpoint)
        BY DEF TypeOK
      <4> QED BY <1>1, <3>1, <4>1, <4>2 DEF ToSet, Established
    <3>2. CASE Deferred(c, found)
      BY <1>1, <3>2 DEF Deferred
    <3> QED BY <3>1, <3>2
  <2> QED BY <2>1 DEF ConnectedWhereWanted, Fits
<1> QED BY <1>1 DEF ConnectedWhereWanted, Fits

LEMMA NextConnected ==
  TypeOK /\ PassBounds /\ CopiesListed /\ ConnectedWhereWanted /\ [Next]_vars
    => ConnectedWhereWanted'
<1> SUFFICES ASSUME TypeOK, PassBounds, CopiesListed, ConnectedWhereWanted, [Next]_vars
             PROVE  ConnectedWhereWanted'
  OBVIOUS
<1> USE DEF loopVars, pubVars
<1>1. ASSUME NEW n \in Node, NEW b \in BindName, Publish(n, b)
      PROVE  ConnectedWhereWanted'
  <2>1. peers' = peers /\ \A m \in Node : published[m] \subseteq published'[m]
    BY <1>1 DEF Publish, TypeOK, View
  <2>2. \A c \in Call : Matches[c] \subseteq Node
    BY CallAssumption
  <2> QED BY <2>1, <2>2 DEF ConnectedWhereWanted
<1>2. CASE UserFinish
  <2>1. /\ user # Idle /\ user[1] \in Call /\ user[2] \in Endpoint \cup {Missing}
        /\ Established(user[1], user[2]) \/ Deferred(user[1], user[2])
        /\ published' = published
    BY <1>2 DEF UserFinish, TypeOK
  <2>2. user[2] # Missing => Fits(user[1], user[2])
    BY <2>1 DEF CopiesListed
  <2> QED BY <2>1, <2>2, ConnectWhereWanted
<1>3. CASE Reconnect
  <2>1. PICK found \in BLookup(view, iter[pos]) :
           Established(iter[pos], found) \/ Deferred(iter[pos], found)
    BY <1>3 DEF Reconnect
  <2>2. iter[pos] \in Call /\ published' = published
    BY <1>3 DEF Reconnect, TypeOK, PassBounds
  <2>3. found \in Endpoint \cup {Missing} /\ (found # Missing => Fits(iter[pos], found))
    BY <2>2, BLookupType, LookupFits DEF TypeOK
  <2> QED BY <2>1, <2>2, <2>3, ConnectWhereWanted
<1>4. CASE UNCHANGED <<published, peers>>
  BY <1>4 DEF ConnectedWhereWanted
<1> QED
  BY <1>1, <1>2, <1>3, <1>4
  DEF Next, vars, Join, UserLookup, Run, DirectoryUpdate, CopyDeferred, Check,
      EraseAndAdvance, CheckReturns

(* Sockets are connected only to listed endpoints that their lookup names, *)
(* however stale the copy of the directory is and whichever thread looked. *)
THEOREM SocketsWhereWanted == Spec => []ConnectedWhereWanted
<1>1. Init => CopiesListed /\ ConnectedWhereWanted
  BY DEF Init, CopiesListed, Listed, ConnectedWhereWanted, ToSet
<1> QED BY <1>1, PassInvariant, NextListed, NextConnected, PTL DEF Spec
-----------------------------------------------------------------------------
(* Without a second thread.  Between messages a deferred call that cannot  *)
(* miss has a connection; inside a pass the entries left behind have, and  *)
(* the deferred list holds no call that the copy does not.                 *)
Served(c) == Resolvable(view, c) => peers[c] # <<>>

PassServes ==
  /\ user # Idle => /\ loop \in {"setup", "poll"}
                    /\ user[2] = Missing => ~Resolvable(view, user[1])
  /\ loop \in {"setup", "poll"} => \A i \in DOMAIN deferred : Served(deferred[i])
  /\ loop \in {"check", "reconnect", "erase"} =>
       /\ \A i \in DOMAIN deferred : \E j \in DOMAIN iter : deferred[i] = iter[j]
       /\ \A j \in DOMAIN iter : j < pos => Served(iter[j])
       /\ loop = "erase" => Served(iter[pos])

(* A connection or a deferral leaves served what was, and serves its call  *)
(* unless the lookup could miss.                                           *)
LEMMA ConnectServes ==
  ASSUME TypeOK, NEW c \in Call, NEW found \in Endpoint \cup {Missing},
         found = Missing => ~Resolvable(view, c),
         view' = view, Established(c, found) \/ Deferred(c, found)
  PROVE  /\ Served(c)'
         /\ \A d \in Call : Served(d) => Served(d)'
         /\ deferred' = deferred \/ deferred' = Append(deferred, c)
<1>1. CASE Established(c, found)
  <2>1. peers[c] \in Seq(Endpoint) /\ found \in Endpoint
    BY <1>1 DEF Established, TypeOK
  <2>2. Append(peers[c], found) # <<>>
    BY <2>1
  <2>3. peers'[c] # <<>> /\ \A d \in Call : peers[d] # <<>> => peers'[d] # <<>>
    BY <1>1, <2>2 DEF Established, TypeOK
  <2> QED BY <1>1, <2>3 DEF Established, Served
<1>2. CASE Deferred(c, found)
  BY <1>2 DEF Deferred, Served
<1> QED BY <1>1, <1>2

LEMMA NextServes ==
  ASSUME ~Async, TypeOK, PassBounds, PassServes, [Next]_vars
  PROVE  PassServes'
<1> USE DEF loopVars, pubVars
<1>0. /\ deferred \in Seq(Call) /\ iter \in Seq(Call) /\ view \in View /\ pos \in Nat
      /\ \A i \in DOMAIN deferred : deferred[i] \in Call
      /\ \A j \in DOMAIN iter : iter[j] \in Call
  BY DEF TypeOK
<1>1. CASE UNCHANGED <<view, user, peers, deferred, loop, iter, pos>>
  BY <1>1 DEF PassServes, Served
<1>2. ASSUME NEW c \in Call, UserLookup(c)
      PROVE  PassServes'
  <2>1. PICK found \in BLookup(view, c) : user' = <<c, found>>
    BY <1>2 DEF UserLookup
  <2>2. found = Missing => ~Resolvable(view, c)
    BY DEF Resolvable
  <2>3. loop \in {"setup", "poll"} /\ UNCHANGED <<view, peers, deferred, loop>>
    BY <1>2 DEF UserLookup
  <2>4. user'[1] = c /\ user'[2] = found
    BY <2>1
  <2> QED BY <2>2, <2>3, <2>4 DEF PassServes, Served
<1>3. CASE UserFinish
  <2>1. PICK c \in Call, found \in Endpoint \cup {Missing} : user[1] = c /\ user[2] = found
    BY <1>3 DEF UserFinish, TypeOK
  <2>2. /\ user # Idle
        /\ Established(c, found) \/ Deferred(c, found)
        /\ UNCHANGED <<view, loop, iter, pos>> /\ user' = Idle
    BY <1>3, <2>1 DEF UserFinish
  <2>3. /\ loop \in {"setup", "poll"} /\ (found = Missing => ~Resolvable(view, c))
        /\ \A i \in DOMAIN deferred : Served(deferred[i])
    BY <2>1, <2>2 DEF PassServes
  <2>4. /\ Served(c)' /\ \A d \in Call : Served(d) => Served(d)'
        /\ deferred' = deferred \/ deferred' = Append(deferred, c)
    BY <2>2, <2>3, ConnectServes
  <2>5. \A i \in DOMAIN deferred' :
           (i \in DOMAIN deferred /\ deferred'[i] = deferred[i]) \/ deferred'[i] = c
    BY <1>0, <2>4
  <2>6. \A i \in DOMAIN deferred' : Resolvable(view', deferred'[i]) => peers'[deferred'[i]] # <<>>
    BY <1>0, <2>3, <2>4, <2>5 DEF Served
  <2> QED BY <2>2, <2>3, <2>6 DEF PassServes, Served
<1>4. CASE Run
  BY <1>4 DEF Run, LoopMay, PassServes, Served
<1>5. CASE DirectoryUpdate
  BY <1>5 DEF DirectoryUpdate, LoopMay, PassServes
<1>6. CASE CopyDeferred
  <2>1. /\ user' = Idle /\ loop' = "check" /\ deferred' = deferred /\ iter' = deferred
        /\ pos' = 1
    BY <1>6 DEF CopyDeferred, PassServes
  <2>2. \A j \in DOMAIN iter' : ~(j < 1)
    BY <1>0, <2>1
  <2> QED BY <2>1, <2>2 DEF PassServes
<1>7. CASE Check
  <2>1. /\ user' = Idle /\ UNCHANGED <<view, peers, deferred, iter>>
        /\ \A i \in DOMAIN deferred : \E j \in DOMAIN iter : deferred[i] = iter[j]
        /\ \A j \in DOMAIN iter : j < pos => Served(iter[j])
    BY <1>7 DEF Check, PassServes
  <2>2. CASE pos' = pos + 1 /\ loop' = loop /\ Missing \in BLookup(view, iter[pos])
    <3>1. Served(iter[pos])
      BY <2>2 DEF Served, Resolvable
    <3>2. \A j \in DOMAIN iter : j < pos' => j < pos \/ j = pos
      BY <1>0, <2>2
    <3>3. \A j \in DOMAIN iter' : j < pos' => Served(iter[j])'
      BY <2>1, <3>1, <3>2 DEF Served
    <3> QED BY <1>7, <2>1, <2>2, <3>3 DEF Check, PassServes
  <2>3. CASE pos' = pos /\ loop' = "reconnect"
    BY <2>1, <2>3 DEF PassServes, Served
  <2> QED BY <1>7, <2>2, <2>3 DEF Check
<1>8. CASE Reconnect
  <2>1. PICK found \in BLookup(view, iter[pos]) :
           Established(iter[pos], found) \/ Deferred(iter[pos], found)
    BY <1>8 DEF Reconnect
  <2>2. /\ user' = Idle /\ UNCHANGED <<view, iter, pos>> /\ loop' = "erase"
        /\ \A i \in DOMAIN deferred : \E j \in DOMAIN iter : deferred[i] = iter[j]
        /\ \A j \in DOMAIN iter : j < pos => Served(iter[j])
    BY <1>8 DEF Reconnect, PassServes
  <2>3. pos \in DOMAIN iter /\ iter[pos] \in Call
    BY <1>0, <1>8 DEF Reconnect, PassBounds, TypeOK
  <2>4. found \in Endpoint \cup {Missing} /\ (found = Missing => ~Resolvable(view, iter[pos]))
    BY <1>0, <2>3, BLookupType DEF Resolvable
  <2>5. /\ Served(iter[pos])' /\ \A d \in Call : Served(d) => Served(d)'
        /\ deferred' = deferred \/ deferred' = Append(deferred, iter[pos])
    BY <2>1, <2>2, <2>3, <2>4, ConnectServes
  <2>6. \A i \in DOMAIN deferred' :
           (i \in DOMAIN deferred /\ deferred'[i] = deferred[i]) \/ deferred'[i] = iter[pos]
    BY <1>0, <2>3, <2>5
  <2>7. \A i \in DOMAIN deferred' : \E j \in DOMAIN iter : deferred'[i] = iter[j]
    BY <2>2, <2>3, <2>6
  <2>8. \A j \in DOMAIN iter : j < pos /\ Resolvable(view', iter[j]) => peers'[iter[j]] # <<>>
    BY <1>0, <2>2, <2>5 DEF Served
  <2> QED BY <2>2, <2>5, <2>7, <2>8 DEF PassServes, Served
<1>9. CASE EraseAndAdvance
  <2>1. /\ user' = Idle /\ UNCHANGED <<view, peers, iter>> /\ loop' = "check"
        /\ pos' = pos + 1 /\ deferred' = EraseAt(deferred, res)
        /\ \A i \in DOMAIN deferred : \E j \in DOMAIN iter : deferred[i] = iter[j]
        /\ \A j \in DOMAIN iter : j < pos => Served(iter[j])
        /\ Served(iter[pos])
    BY <1>9 DEF EraseAndAdvance, PassServes
  <2>2. deferred # <<>> /\ res \in Nat
    BY <1>0, <1>9 DEF EraseAndAdvance, PassBounds, TypeOK
  <2>3. \A i \in DOMAIN deferred' : \E l \in DOMAIN deferred : deferred'[i] = deferred[l]
    BY <1>0, <2>1, <2>2, EraseAtType
  <2>4. \A i \in DOMAIN deferred' : \E j \in DOMAIN iter : deferred'[i] = iter[j]
    BY <2>1, <2>3
  <2>5. \A j \in DOMAIN iter : j < pos' => j < pos \/ j = pos
    BY <1>0, <2>1
  <2>6. \A j \in DOMAIN iter : j < pos' => Served(iter[j])'
    BY <2>1, <2>5 DEF Served
  <2> QED BY <2>1, <2>4, <2>6 DEF PassServes, Served
<1>10. CASE CheckReturns
  <2>1. /\ user' = Idle /\ UNCHANGED <<view, peers, deferred>> /\ loop' = "poll"
        /\ \A i \in DOMAIN deferred : \E j \in DOMAIN iter : deferred[i] = iter[j]
        /\ \A j \in DOMAIN iter : j < pos => Served(iter[j])
    BY <1>10 DEF CheckReturns, PassServes
  <2>2. \A j \in DOMAIN iter : j < pos
    BY <1>0, <1>10 DEF CheckReturns
  <2>3. \A i \in DOMAIN deferred : Served(deferred[i])
    BY <2>1, <2>2
  <2> QED BY <2>1, <2>3 DEF PassServes, Served
<1> QED
  BY <1>1, <1>2, <1>3, <1>4, <1>5, <1>6, <1>7, <1>8, <1>9, <1>10 DEF Next, vars, Join, Publish

(* In a program that calls run(), so that connect() is called before it or *)
(* by callbacks of the loop: between two messages no deferred call is      *)
(* without a connection that its lookup cannot miss, although the erase    *)
(* takes the wrong entries.                                                *)
THEOREM ResolvableIsConnected == Spec => []NothingResolvableWaits
<1>1. Init => PassServes
  BY DEF Init, PassServes
<1>2. TypeOK /\ PassBounds /\ (~Async => PassServes) /\ [Next]_vars => (~Async => PassServes)'
  <2> SUFFICES ASSUME TypeOK, PassBounds, ~Async => PassServes, [Next]_vars, ~Async'
               PROVE  PassServes'
    OBVIOUS
  <2>1. mode' = mode
    BY DEF Next, vars, pubVars, Join, Publish, UserLookup, UserFinish, Run, DirectoryUpdate,
           CopyDeferred, Check, Reconnect, EraseAndAdvance, CheckReturns
  <2>2. ~Async
    BY <2>1 DEF Async
  <2> QED BY <2>2, NextServes
<1>3. (~Async => PassServes) => NothingResolvableWaits
  BY DEF PassServes, Served, NothingResolvableWaits, ToSet
<1> QED BY <1>1, <1>2, <1>3, PassInvariant, PTL DEF Spec
-----------------------------------------------------------------------------
(* A call of connect() that is over has made a connection, or is in the    *)
(* list; a pass that reconnects counts one more until its erase.           *)
Pending == IF user = Idle THEN 0 ELSE 1
Retried == IF loop = "erase" THEN 1 ELSE 0

Counted ==
  /\ IsFiniteSet(called) /\ IsFiniteSet(Connected)
  /\ user # Idle => user[1] \in called
  /\ Accounted

(* One connection more, or one entry more.                                 *)
LEMMA ConnectCounts ==
  ASSUME TypeOK, IsFiniteSet(Connected), NEW c \in Call,
         NEW found \in Endpoint \cup {Missing},
         Established(c, found) \/ Deferred(c, found)
  PROVE  /\ IsFiniteSet(Connected')
         /\ Len(deferred') + Cardinality(Connected')
              = Len(deferred) + Cardinality(Connected) + 1
<1>0. Len(deferred) \in Nat /\ Cardinality(Connected) \in Nat
  BY FS_CardinalityType DEF TypeOK
<1>1. CASE Established(c, found)
  <2>1. /\ peers \in [Call -> Seq(Endpoint)] /\ found \in Endpoint
        /\ peers' = [peers EXCEPT ![c] = Append(peers[c], found)]
        /\ deferred' = deferred
    BY <1>1 DEF Established, TypeOK
  <2>2. PICK n \in Nat : n = Len(peers[c])
    BY <2>1
  <2>3. DOMAIN peers[c] = 1..n /\ DOMAIN peers'[c] = 1..n + 1
    BY <2>1, <2>2
  <2>4. \A d \in Call \ {c} : peers'[d] = peers[d]
    BY <2>1
  <2>5. Connected' = Connected \cup {<<c, n + 1>>}
    <3>1. 1..n + 1 = (1..n) \cup {n + 1}
      OBVIOUS
    <3>2. ASSUME NEW x PROVE x \in Connected' <=> x \in Connected \cup {<<c, n + 1>>}
      BY <2>3, <2>4, <3>1 DEF Connected
    <3> QED BY <3>2
  <2>6. <<c, n + 1>> \notin Connected
    BY <2>3 DEF Connected
  <2>7. /\ IsFiniteSet(Connected')
        /\ Cardinality(Connected') = Cardinality(Connected) + 1
    BY <2>5, <2>6, FS_AddElement
  <2> QED BY <1>0, <2>1, <2>7
<1>2. CASE Deferred(c, found)
  <2>1. /\ deferred \in Seq(Call) /\ deferred' = Append(deferred, c)
        /\ peers' = peers
    BY <1>2 DEF Deferred, TypeOK
  <2>2. Len(deferred') = Len(deferred) + 1
    BY <2>1
  <2>3. Connected' = Connected
    BY <2>1 DEF Connected
  <2> QED BY <1>0, <2>2, <2>3
<1> QED BY <1>1, <1>2

LEMMA NextCounted == TypeOK /\ PassBounds /\ Counted /\ [Next]_vars => Counted'
<1> SUFFICES ASSUME TypeOK, PassBounds, Counted, [Next]_vars PROVE Counted'
  OBVIOUS
<1> USE DEF loopVars, pubVars
<1>0. /\ Len(deferred) \in Nat /\ Cardinality(Connected) \in Nat /\ Cardinality(called) \in Nat
      /\ IsFiniteSet(called) /\ IsFiniteSet(Connected)
      /\ Len(deferred) + Cardinality(Connected) + Pending = Cardinality(called) + Retried
  BY FS_CardinalityType DEF TypeOK, Counted, Accounted, Pending, Retried
<1>1. ASSUME NEW c \in Call, UserLookup(c)
      PROVE  Counted'
  <2>1. /\ user = Idle /\ c \notin called /\ called' = called \cup {c}
        /\ UNCHANGED <<peers, deferred, loop>>
    BY <1>1 DEF UserLookup
  <2>2. PICK found : user' = <<c, found>>
    BY <1>1 DEF UserLookup
  <2>3. user' # Idle /\ user'[1] \in called'
    BY <2>1, <2>2 DEF Idle
  <2>4. IsFiniteSet(called') /\ Cardinality(called') = Cardinality(called) + 1
    BY <1>0, <2>1, FS_AddElement
  <2>5. Connected' = Connected
    BY <2>1 DEF Connected
  <2> QED BY <1>0, <2>1, <2>3, <2>4, <2>5 DEF Counted, Accounted, Pending, Retried
<1>2. CASE UserFinish
  <2>1. /\ user # Idle /\ user[1] \in Call /\ user[2] \in Endpoint \cup {Missing}
        /\ Established(user[1], user[2]) \/ Deferred(user[1], user[2])
        /\ user' = Idle /\ UNCHANGED <<called, loop>>
    BY <1>2 DEF UserFinish, TypeOK
  <2>2. /\ IsFiniteSet(Connected')
        /\ Len(deferred') + Cardinality(Connected') = Len(deferred) + Cardinality(Connected) + 1
    BY <1>0, <2>1, ConnectCounts
  <2> QED BY <1>0, <2>1, <2>2 DEF Counted, Accounted, Pending, Retried
<1>3. CASE Reconnect
  <2>1. PICK found \in BLookup(view, iter[pos]) :
           Established(iter[pos], found) \/ Deferred(iter[pos], found)
    BY <1>3 DEF Reconnect
  <2>2. /\ iter[pos] \in Call /\ UNCHANGED <<called, user>>
        /\ loop = "reconnect" /\ loop' = "erase"
    BY <1>3 DEF Reconnect, TypeOK, PassBounds
  <2>3. found \in Endpoint \cup {Missing}
    BY <2>2, BLookupType DEF TypeOK
  <2>4. /\ IsFiniteSet(Connected')
        /\ Len(deferred') + Cardinality(Connected') = Len(deferred) + Cardinality(Connected) + 1
    BY <1>0, <2>1, <2>2, <2>3, ConnectCounts
  <2>5. Retried = 0
    BY <2>2 DEF Retried
  <2> QED BY <1>0, <2>2, <2>4, <2>5 DEF Counted, Accounted, Pending
<1>4. CASE EraseAndAdvance
  <2>1. /\ deferred # <<>> /\ deferred \in Seq(Call) /\ res \in Nat
        /\ deferred' = EraseAt(deferred, res)
        /\ loop = "erase" /\ loop' = "check" /\ UNCHANGED <<called, user, peers>>
    BY <1>4 DEF EraseAndAdvance, TypeOK, PassBounds
  <2>2. Len(deferred') = Len(deferred) - 1
    BY <2>1, EraseAtType
  <2>3. Connected' = Connected
    BY <2>1 DEF Connected
  <2> QED BY <1>0, <2>1, <2>2, <2>3 DEF Counted, Accounted, Pending, Retried
<1>5. CASE /\ UNCHANGED <<called, user, peers, deferred>>
           /\ (loop # "erase" /\ loop' # "erase") \/ loop' = loop
  BY <1>5 DEF Counted, Accounted, Connected
<1> QED
  BY <1>1, <1>2, <1>3, <1>4, <1>5
  DEF Next, vars, Join, Publish, Run, DirectoryUpdate, CopyDeferred, Check, CheckReturns

(* Connections and deferred entries add up to the calls of connect(), the  *)
(* one under way counted: the wrong entries may be erased, but as many as  *)
(* connections are made, on two threads as well.                           *)
THEOREM CallsAccounted == Spec => []Accounted
<1>1. Init => Counted
  <2> SUFFICES ASSUME Init PROVE Counted
    OBVIOUS
  <2>1. called = {} /\ user = Idle /\ deferred = <<>> /\ loop = "setup"
    BY DEF Init
  <2>2. Connected = {}
    BY DEF Init, Connected
  <2> QED BY <2>1, <2>2, FS_EmptySet DEF Counted, Accounted
<1>2. Counted => Accounted
  BY DEF Counted
<1> QED BY <1>1, <1>2, PassInvariant, NextCounted, PTL DEF Spec
=============================================================================
