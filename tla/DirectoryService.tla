-------------------------- MODULE DirectoryService --------------------------
(***************************************************************************)
(* What the service controller promises its nodes, without messages: there *)
(* is a growing set of registered endpoints, and what a node knows is a    *)
(* subset of it that only grows while the node lives.                      *)
(***************************************************************************)
CONSTANTS Node, Entry

VARIABLES registered,  \* endpoints the controller accepted
          known        \* endpoints each node can resolve

Init == registered = {} /\ known = [n \in Node |-> {}]

Register(e) ==
  /\ registered' = registered \cup {e}
  /\ UNCHANGED known

Learn(n, es) ==
  /\ known[n] \subseteq es /\ es \subseteq registered
  /\ known' = [known EXCEPT ![n] = es]
  /\ UNCHANGED registered

(* A restarted node starts again with nothing.                             *)
Forget(n) ==
  /\ known' = [known EXCEPT ![n] = {}]
  /\ UNCHANGED registered

Next ==
  \/ \E e \in Entry : Register(e)
  \/ \E n \in Node : (\E es \in SUBSET registered : Learn(n, es)) \/ Forget(n)

Spec == Init /\ [][Next]_<<registered, known>>
=============================================================================
