---------------------------- MODULE MCConnections ---------------------------
EXTENDS Connections, TLC

CONSTANTS n1, n2, jobs, logs, c1, c2, c3

(* c1 and c2 name one node each; c3 is a wildcard that both nodes match.   *)
MCMatches == (c1 :> {n1}) @@ (c2 :> {n2}) @@ (c3 :> {n1, n2})
MCWanted  == (c1 :> jobs) @@ (c2 :> jobs) @@ (c3 :> logs)

MCOne == c1 :> {n1}
MCOneWanted == c1 :> jobs
=============================================================================
