------------------------------ MODULE MCService -----------------------------
EXTENDS Service

(* Topologies with every kind of step; one attaches to a uid that nothing  *)
(* in it defines, one has no entry for the class of this service.          *)
Binding(n, p)  == [do |-> "bind", name |-> n, port |-> p]
Connection(n)  == [do |-> "connect", name |-> n]
Callback(n)    == [do |-> "attach", name |-> n]
MainLoop(m, k) == [do |-> "main", id |-> m, known |-> k]

MCTopology == {
  << Binding("jobs", 1), Connection("out"), Callback("out"), MainLoop(1, TRUE) >>,
  << Binding("jobs", 0), Callback("jobs"), MainLoop(1, TRUE), MainLoop(2, FALSE) >>,
  << Connection("out"), Callback("jobs") >>,
  <<>> }

(* Programs that set up, run and end a service in the ways the tests and   *)
(* examples do, and in ways they do not.                                   *)
MCProgram == {
  <<"connect", "connect", "attach", "run_async", "stop", "destroy">>,
  <<"run_async", "connect", "connect", "terminate", "stop", "destroy">>,
  <<"connect", "zsockopt", "connect", "run_async", "zsockopt", "send">>,
  <<"connect", "run_async", "zsockopt", "destroy">>,
  <<"bind", "run_async", "stop", "terminate", "destroy">>,
  <<"load_topology", "run_async", "stop", "terminate">>,
  <<"bind", "load_topology", "destroy">>,
  <<"bind", "connect", "send", "send", "destroy">>,
  <<"connect", "run_async", "send", "stop", "destroy">>,
  <<"zbind", "bind_at", "run_async", "stop", "destroy">>,
  <<"run_async", "register_main", "register_main", "unregister_main", "stop", "destroy">>,
  <<"register_main", "register_main", "run_async", "unregister_main", "register_main">>,
  <<"register_main", "register_main", "run_async", "load_topology", "stop">> }
=============================================================================
