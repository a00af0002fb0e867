------------------------------ MODULE Resolver ------------------------------
(***************************************************************************)
(* One service resolving connect() lookups against its copy of the         *)
(* directory: add_scope() and blookup() of NodeLookup, compared with what  *)
(* the documentation says a lookup means.  The directory grows as updates  *)
(* arrive (ServiceController checks that a view only grows).               *)
(***************************************************************************)
EXTENDS NodeLookup, FiniteSets, SequencesExt

CONSTANTS Symbols,      \* the letters of names, the dot and the star
          Nodes,        \* names: records [namespace, class, name]
          BindingNames, \* strings
          Lookups,      \* arguments of connect(), short forms and wildcards included
          Self,         \* the name of the resolving service
          MaxBindings   \* bound: bindings listed per node

Text == Seq(Symbols)
NodeNames == [namespace : Text, class : Text, name : Text]

ASSUME NamesAssumption ==
  Dot \in Symbols /\ Nodes \subseteq NodeNames /\ Self \in NodeNames /\ Lookups \subseteq Text

(* add_scope() counts dots: a lookup has four terms at most, and each of   *)
(* the caller's names is one.                                              *)
ASSUME TermsAssumption ==
  /\ \A l \in Lookups : DotCount(l) <= 3
  /\ \A part \in {Self.namespace, Self.class, Self.name} : Dots(part) = {}

VARIABLES listing, lookup, resolved

resolverVars == <<listing, lookup, resolved>>

NoAnswer == <<Null, Null>>

ResolverInit == listing = <<>> /\ lookup \in Lookups /\ resolved = NoAnswer

Listed(node) == {i \in DOMAIN listing : AbsName(listing[i]) = AbsName(node)}

(* directory_update(): a newer directory lists a new node, or another      *)
(* binding of a listed one.                                                *)
LearnNode(node, bname) ==
  /\ Listed(node) = {}
  /\ listing' = Append(listing,
       [namespace |-> node.namespace, class |-> node.class, name |-> node.name,
        bindings |-> <<[name |-> bname, port |-> 1]>>])
  /\ UNCHANGED <<lookup, resolved>>

LearnBinding(node, bname) ==
  /\ \E i \in Listed(node) :
       /\ Len(listing[i].bindings) < MaxBindings
       /\ listing' = [listing EXCEPT ![i].bindings =
            Append(@, [name |-> bname, port |-> Len(@) + 1])]
  /\ UNCHANGED <<lookup, resolved>>

(* The lookup of connect(): scope, then blookup().                         *)
Resolve(l) ==
  /\ lookup' = l
  /\ resolved' \in BLookup(listing, AddScope(Self, l))
  /\ UNCHANGED listing

ResolverNext ==
  \/ \E node \in Nodes, bname \in BindingNames : LearnNode(node, bname)
  \/ \E node \in Nodes, bname \in BindingNames : LearnBinding(node, bname)
  \/ \E l \in Lookups : Resolve(l)

ResolverSpec == ResolverInit /\ [][ResolverNext]_resolverVars
-----------------------------------------------------------------------------
(* What the documentation says of a lookup (tech_resolution.rst): terms    *)
(* separated by dots, the missing first ones taken from the caller, each   *)
(* one equal to the node's or a glob with (here) at most one star.         *)
DotAt(addr, k) ==
  LET dots == Dots(addr) IN CHOOSE i \in dots : Cardinality({j \in dots : j <= i}) = k

Cut(addr, k) ==
  IF k = 0 THEN 0 ELSE IF k > DotCount(addr) THEN Len(addr) + 1 ELSE DotAt(addr, k)

Terms(addr) ==
  [k \in 1..DotCount(addr) + 1 |-> SubSeq(addr, Cut(addr, k - 1) + 1, Cut(addr, k) - 1)]

FullTerms(l) ==
  SubSeq(<<Self.namespace, Self.class, Self.name>>, 1, 4 - Len(Terms(l))) \o Terms(l)

GlobTerm(term, text) ==
  \/ term = text
  \/ \E s \in DOMAIN term :
       LET before == SubSeq(term, 1, s - 1)
           after  == SubSeq(term, s + 1, Len(term))
       IN  /\ term[s] = Star
           /\ Len(before) + Len(after) <= Len(text)
           /\ IsPrefix(before, text) /\ IsSuffix(after, text)

Documented(l) ==
  {i \in DOMAIN listing :
     LET t == FullTerms(l)
     IN  /\ GlobTerm(t[1], listing[i].namespace)
         /\ GlobTerm(t[2], listing[i].class)
         /\ GlobTerm(t[3], listing[i].name)}

DocumentedBindings(l) ==
  {i \in Documented(l) : NamedBindings(listing[i], FullTerms(l)[4]) # {}}

(* add_scope() completes every short form with the caller's own namespace, *)
(* class and name, in that order (n3rvservice.cpp add_scope).              *)
ScopeIsTheCallers == Terms(AddScope(Self, lookup)) = FullTerms(lookup)

(* No node a lookup is documented to match is missed by nlookup()'s regex, *)
(* for short forms as well as for globs inside a term.                     *)
DocumentedNodesAreCandidates ==
  Documented(lookup) \subseteq Candidates(listing, NodePart(AddScope(Self, lookup)))

(* A connect() that found no binding was right to defer, whenever only one *)
(* node was a candidate: no listed binding matched its lookup.             *)
MissIsRight ==
  \A l \in Lookups :
    Resolve(l) /\ resolved' = NoAnswer
      /\ Cardinality(Candidates(listing, NodePart(AddScope(Self, l)))) <= 1
    => DocumentedBindings(l) = {}

NullOnlyWhenUnlisted == [][MissIsRight]_resolverVars
=============================================================================
