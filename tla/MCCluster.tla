------------------------------ MODULE MCCluster ----------------------------
(***************************************************************************)
(* Programs built on the library, one per behaviour: a service that holds  *)
(* the controller and is started again (ControllerLife), the algotrading   *)
(* example (Trading), the request examples (Requests), a service that      *)
(* resolves lookups (Resolver) and the HTTP gateway (HttpGateway).  A      *)
(* program that is not the behaviour's rests in an initial state.          *)
(***************************************************************************)
EXTENDS Trading, ControllerLife, Requests, Resolver

VARIABLES use,
          phase, attached, uri_dir_map, request, reply, served, undefined \* of HttpGateway

(* The owner binds once in each of its lives, another service twice.       *)
CallsUsed == [s \in Services |-> IF s = Owner THEN 1 ELSE 2]

(* Prices around StartPrice; a position of one is out at -2 or +1.         *)
MovesUsed == {-2, 1, 2}
StopUsed == -2

(* Two namespaces, and two nodes of which one's name is a prefix of the    *)
(* other's.                                                                *)
NodesUsed == { [namespace |-> <<"a">>, class |-> <<"c">>, name |-> <<"w">>],
               [namespace |-> <<"a">>, class |-> <<"c">>, name |-> <<"w", "1">>],
               [namespace |-> <<"b">>, class |-> <<"c">>, name |-> <<"w">>] }
SelfUsed == [namespace |-> <<"a">>, class |-> <<"c">>, name |-> <<"w">>]

BindingNamesUsed == {<<"p">>, <<"q">>}
SymbolsUsed == {"a", "b", "c", "w", "1", "p", "q", Dot, Star}

(* "p", "w1.p", "c.w.q", "a.c.w.p", "*.c.w.p", "a.c.*.q", "*.*.w*.p"       *)
LookupsUsed ==
  { <<"p">>,
    <<"w", "1", ".", "p">>,
    <<"c", ".", "w", ".", "q">>,
    <<"a", ".", "c", ".", "w", ".", "p">>,
    <<"*", ".", "c", ".", "w", ".", "p">>,
    <<"a", ".", "c", ".", "*", ".", "q">>,
    <<"*", ".", "*", ".", "w", "*", ".", "p">> }

(* A directory /r/ with a file f of three bytes; fopen() opens a directory *)
(* too, and there is nothing to read.                                      *)
UrisUsed  == {<<"/">>, <<"/", "f">>, <<"/", "a", "/", "f">>, <<"/", "a">>}
PathsUsed == {<<"/", "r", "/">>}
FilesUsed == [file \in {<<"/", "r", "/">>, <<"/", "r", "/", "f">>} |->
                IF Len(file) = 3 THEN <<>> ELSE <<"x", "y", "z">>]

H == INSTANCE HttpGateway WITH
        Uris <- UrisUsed, Paths <- PathsUsed, Files <- FilesUsed,
        BlockSize <- 2, MaxEntries <- 2, MaxRequests <- 1

httpVars == <<phase, attached, uri_dir_map, request, reply, served, undefined>>
vars == <<use, tradingVars, lifeVars, requestVars, resolverVars, httpVars>>

Init ==
    /\ use \in {"life", "trading", "requests", "lookup", "http"}
    /\ TradingInit /\ (use = "trading" \/ runPnl = 0)
    /\ LifeInit
    /\ RequestsInit /\ (use = "requests" \/ program = "ping")
    /\ ResolverInit /\ (use = "lookup" \/ lookup = <<"p">>)
    /\ H!Init

Next ==
    \/ use = "trading" /\ TradingNext
       /\ UNCHANGED <<use, lifeVars, requestVars, resolverVars, httpVars>>
    \/ use = "life" /\ LifeNext
       /\ UNCHANGED <<use, tradingVars, requestVars, resolverVars, httpVars>>
    \/ use = "requests" /\ RequestsNext
       /\ UNCHANGED <<use, tradingVars, lifeVars, resolverVars, httpVars>>
    \/ use = "lookup" /\ ResolverNext
       /\ UNCHANGED <<use, tradingVars, lifeVars, requestVars, httpVars>>
    \/ use = "http" /\ H!Next
       /\ UNCHANGED <<use, tradingVars, lifeVars, requestVars, resolverVars>>

Spec == Init /\ [][Next]_vars /\ Fairness
=============================================================================
