----------------------------- MODULE Directory ------------------------------
(***************************************************************************)
(* The node directory (std::vector<qserv>, n3rvcommon.hpp:36-61) and what  *)
(* the service controller does to it when a node subscribes a binding      *)
(* (n3rvservicecontroller.cpp:80-101).  A node's uid is one value; which   *)
(* records the controller's nlookup() takes for a node is the relation Hit *)
(* (NodeLookup gives it for concrete names).                               *)
(***************************************************************************)
EXTENDS Naturals, Sequences, SequencesExt

CONSTANTS Node,      \* node uids (namespace.service_class.node_name)
          Ip,        \* addresses peer_ip() can return
          NoIp,      \* the empty string it returns when getpeername() fails
          BindName,  \* short names of bindings
          Port,      \* TCP ports
          Hit        \* <<n, m>>: looking node n up finds the record of node m

(* A lookup of a node finds that node's own record.                        *)
ASSUME HitAssumption ==
  /\ Hit \subseteq Node \X Node
  /\ \A n \in Node : <<n, n>> \in Hit

ASSUME NoIpAssumption == NoIp \notin Ip

AnyIp     == Ip \cup {NoIp}
Binding   == [name : BindName, port : Port]
Qserv     == [node : Node, ip : AnyIp, bindings : Seq(Binding)]
Directory == Seq(Qserv)

(* Mutations (used to show that the properties can fail): the lookup does  *)
(* not compare names; the new binding replaces the earlier ones; the       *)
(* address is left out of a new record.                                    *)
CandidatesAnyRecord(dir, n)  == {i \in DOMAIN dir : n \in Node}
AddBindingReplacing(dir, i, b) == [dir EXCEPT ![i].bindings = <<b>>]
AddNodeNowhere(dir, n, ip, b)  == Append(dir, [node |-> n, bindings |-> <<b>>])

Candidates(dir, n) == {i \in DOMAIN dir : <<n, dir[i].node>> \in Hit}

AddBinding(dir, i, b) == [dir EXCEPT ![i].bindings = Append(@, b)]

AddNode(dir, n, ip, b) == Append(dir, [node |-> n, ip |-> ip, bindings |-> <<b>>])
-----------------------------------------------------------------------------
(* One advertised endpoint, and all those a directory lists.               *)
Entry == [node : Node, ip : AnyIp, name : BindName, port : Port]

EntryAt(dir, i, k) == [node |-> dir[i].node, ip |-> dir[i].ip,
                       name |-> dir[i].bindings[k].name,
                       port |-> dir[i].bindings[k].port]

Entries(dir) == UNION {{EntryAt(dir, i, k) : k \in DOMAIN dir[i].bindings} : i \in DOMAIN dir}

(* The record of a node that an exact lookup finds lists the binding.      *)
ListsUnder(dir, i, b) == \E k \in DOMAIN dir[i].bindings : dir[i].bindings[k] = b

(* dir2 is a later state of dir1: records and their bindings are only ever *)
(* appended.                                                               *)
GrowsInto(dir1, dir2) ==
  /\ Len(dir1) <= Len(dir2)
  /\ \A i \in DOMAIN dir1 : /\ dir1[i].node = dir2[i].node
                            /\ dir1[i].ip = dir2[i].ip
                            /\ IsPrefix(dir1[i].bindings, dir2[i].bindings)
=============================================================================
