------------------------- MODULE MCServiceController ------------------------
EXTENDS ServiceController

Lookup == INSTANCE NodeLookup

CONSTANTS w1, w2, host, jobs, p1, p2

(* Two nodes on one host.  Their names, and the records the controller's   *)
(* lookup takes for each: "a.c.w" and "a.c.v" are told apart.              *)
MCNode == {w1, w2}
MCHome == [s \in MCNode |-> host]

(* The node that restarts, once, in the runs with restarts.                *)
NoRestart  == [s \in MCNode |-> 1]
OneRestart == [s \in MCNode |-> IF s = w1 THEN 2 ELSE 1]

Distinct == (w1 :> [namespace |-> <<"a">>, class |-> <<"c">>, name |-> <<"w">>]) @@
            (w2 :> [namespace |-> <<"a">>, class |-> <<"c">>, name |-> <<"v">>])

(* "a.c.w" is found in "a.c.w0".                                           *)
Prefixed == (w1 :> [namespace |-> <<"a">>, class |-> <<"c">>, name |-> <<"w">>]) @@
            (w2 :> [namespace |-> <<"a">>, class |-> <<"c">>, name |-> <<"w", "0">>])

FoundIn(names) ==
  {<<s, t>> \in MCNode \X MCNode : Lookup!Found(Lookup!SubscriberAddr(names[s]),
                                             Lookup!AbsName(names[t]))}

MCHit       == FoundIn(Distinct)
MCHitPrefix == FoundIn(Prefixed)
=============================================================================
