----------------------------- MODULE NodeLookup -----------------------------
(***************************************************************************)
(* Name resolution of src/src/n3rvcommon.cpp: how an address such as       *)
(* "com.worker.*.jobs" selects nodes and bindings of a directory.  A string *)
(* is a sequence of symbols: one-letter strings, the separator "." and the *)
(* wildcard "*".  A directory is a sequence of records                     *)
(*   [namespace, class, name : strings, bindings : Seq([name, port])].     *)
(***************************************************************************)
EXTENDS Naturals, Sequences, FiniteSets

Dot  == "."
Star == "*"

AbsName(node) == node.namespace \o <<Dot>> \o node.class \o <<Dot>> \o node.name

(* Mutation: a star stands for at least one symbol, "(.+?)".               *)
FoundPlus(addr, text) ==
  LET ends[i \in 0..Len(addr)] ==
        IF i = 0 THEN 1..Len(text) + 1
        ELSE LET from == ends[i - 1]
             IN  IF addr[i] = Star
                 THEN {k \in 1..Len(text) + 1 : \E j \in from : j < k}
                 ELSE {k \in 2..Len(text) + 1 : k - 1 \in from /\ addr[i] \in {Dot, text[k - 1]}}
  IN  ends[Len(addr)] # {}

(* regex_search(text, regex(addr with every "*" turned into "(.*?)")): a    *)
(* star matches any run of symbols, a dot of the address is the regex dot  *)
(* and matches any one symbol, and the match may start and end anywhere in *)
(* the text.  ends[i]: the positions a match of the first i symbols of     *)
(* addr, begun anywhere, may have reached.                                 *)
Found(addr, text) ==
  LET ends[i \in 0..Len(addr)] ==
        IF i = 0 THEN 1..Len(text) + 1
        ELSE LET from == ends[i - 1]
             IN  IF addr[i] = Star
                 THEN {k \in 1..Len(text) + 1 : \E j \in from : j <= k}
                 ELSE {k \in 2..Len(text) + 1 : k - 1 \in from /\ addr[i] \in {Dot, text[k - 1]}}
  IN  ends[Len(addr)] # {}

Candidates(dir, addr) == {i \in DOMAIN dir : Found(addr, AbsName(dir[i]))}

Null == 0

(* The indices nlookup() may return: rand() picks among several candidates. *)
NLookup(dir, addr) ==
  IF Candidates(dir, addr) = {} THEN {Null} ELSE Candidates(dir, addr)

Dots(addr) == {i \in DOMAIN addr : addr[i] = Dot}

(* The position blookup() splits at, the last dot; the code's bpos = 0, for *)
(* no dot or only a leading one, is a position below 2 here.               *)
LastDot(addr) ==
  IF Dots(addr) = {} THEN 1 ELSE CHOOSE i \in Dots(addr) : \A j \in Dots(addr) : j <= i

NodePart(addr)    == SubSeq(addr, 1, LastDot(addr) - 1)
BindingPart(addr) == SubSeq(addr, LastDot(addr) + 1, Len(addr))

NamedBindings(node, bname) == {k \in DOMAIN node.bindings : node.bindings[k].name = bname}

(* Mutation: only the first binding is compared.                           *)
BLookupFirst(dir, addr) ==
  LET picks == NLookup(dir, NodePart(addr))
      Answer(i) == IF dir[i].bindings[1].name = BindingPart(addr) THEN <<i, 1>>
                   ELSE <<Null, Null>>
  IN  IF picks = {Null} THEN {<<Null, Null>>} ELSE {Answer(i) : i \in picks}

(* The pairs <<node index, binding index>> blookup() may return.  The node *)
(* is picked first; the first binding of that name is the answer, and there *)
(* is none when the picked node lacks it.                                  *)
BLookup(dir, addr) ==
  LET bname == BindingPart(addr)
      Answer(i) ==
        LET named == NamedBindings(dir[i], bname)
        IN  IF named = {} THEN <<Null, Null>>
            ELSE <<i, CHOOSE k \in named : \A l \in named : k <= l>>
      picks == NLookup(dir, NodePart(addr))
  IN  IF LastDot(addr) < 2 \/ picks = {Null}
      THEN {<<Null, Null>>}
      ELSE {Answer(i) : i \in picks}

DotCount(addr) == Cardinality(Dots(addr))

(* Mutation: the parts are counted from the other end.                     *)
AddScopeSwapped(self, lookup) ==
  LET dots    == DotCount(lookup)
      spaced  == IF dots < 3 THEN self.namespace \o <<Dot>> \o lookup ELSE lookup
      classed == IF dots < 2 THEN self.class \o <<Dot>> \o spaced ELSE spaced
  IN  IF dots < 1 THEN self.name \o <<Dot>> \o classed ELSE classed

(* service::add_scope(): missing leading parts are the caller's own.       *)
AddScope(self, lookup) ==
  LET dots    == DotCount(lookup)
      named   == IF dots < 1 THEN self.name \o <<Dot>> \o lookup ELSE lookup
      classed == IF dots < 2 THEN self.class \o <<Dot>> \o named ELSE named
  IN  IF dots < 3 THEN self.namespace \o <<Dot>> \o classed ELSE classed

(* The address the controller looks a subscribing node up with: nlookup()'s *)
(* namespace parameter is left at its default "*".                         *)
SubscriberAddr(node) == <<Star, Dot>> \o node.class \o <<Dot>> \o node.name
=============================================================================
