------------------------------- MODULE Service ------------------------------
(***************************************************************************)
(* The life of one service object (n3rvservice.cpp): the loop of run(),    *)
(* the maps it walks (connections, chmap, ml_chmap), and the calls that    *)
(* change them meanwhile: bind() with its ports, connect(), attach(),      *)
(* register_main(), load_topology(), stop(), terminate(), the destructor.  *)
(*                                                                         *)
(* Two threads, without a lock: the loop's, and the user's, which after    *)
(* run_async() goes on calling the service.  A call made by one of the     *)
(* loop's own callbacks changes the maps at the same places, so the        *)
(* actions of the user stand for those as well.                            *)
(***************************************************************************)
EXTENDS Naturals, Sequences, FiniteSets, SequencesExt

CONSTANTS Handle,   \* connection ids (numbers: the order of the connections map)
          Ch1, Ch2, \* the two channels of the controller
          MainId,   \* ids of main-loop callbacks (numbers: the order of ml_chmap)
          Port,
          Name,     \* names a topology gives to its bindings and connections
          Topology, \* topologies: the steps each has for the class of this service
          Program   \* what the user's thread may do: sequences of calls

ASSUME HandleAssumption == Handle \subseteq Nat \ {0} /\ {Ch1, Ch2} \subseteq Handle /\ Ch1 # Ch2
ASSUME MainAssumption   == MainId \subseteq Nat
ASSUME TopologyAssumption == Topology \subseteq Seq(
  [do : {"bind"}, name : Name, port : Port \cup {0}] \cup [do : {"connect", "attach"}, name : Name]
    \cup [do : {"main"}, id : MainId, known : BOOLEAN])

VARIABLES conn,     \* connections: no entry, an entry without socket, an open or closed one
          made,     \* handles returned to the user
          deferred, \* handles whose connect() waits for the directory
          inbox,    \* a message waits on the socket
          linger,   \* handles of connect(), whose sockets keep the ZMQ_LINGER of -1
          unsent,   \* those with a message that no peer has taken
          chmap,    \* receive callbacks
          mains,    \* ml_chmap
          running,
          at,       \* where the loop's thread is
          items,    \* last_connlist and the poll items: handles, and the socket taken
          ready,    \* positions in items with ZMQ_POLLIN
          cur,      \* the position in items, or the main callback, that is dealt with
          stale,    \* the entry of ml_chmap the loop stands on was erased
          user,     \* what the user's thread is in
          hdl,      \* the handle it works on
          todo,     \* the calls it still makes
          plan,     \* the steps of the topology it loads
          step,     \* the step it is at; 0 outside load_topology()
          res,      \* the result of load_topology()
          ports,    \* which of its sockets holds each port of the host
          failed,   \* handles whose socket could not be bound
          advertised, \* <<handle, port>> sent to the controller by subscribe()
          fault     \* how the process died, or "none"

mapVars  == <<conn, made, deferred>>
sendVars == <<linger, unsent>>
portVars == <<ports, failed, advertised>>
loopVars == <<running, at, items, ready, cur, stale>>
workVars == <<user, hdl, plan, step, res>>
vars == <<mapVars, inbox, sendVars, chmap, mains, loopVars, todo, workVars, portVars, fault>>

Call   == {"connect", "zsockopt", "send", "attach", "register_main", "unregister_main", "bind",
           "bind_at", "zbind", "load_topology", "run_async", "stop", "terminate", "destroy"}
Slot   == {"absent", "null", "open", "closed"}
Inside == {"test", "poll", "dispatch", "hook", "mains", "advance"}
NoHandle == 0

ASSUME ProgramAssumption == Program \subseteq Seq(Call)

TypeOK ==
  /\ conn \in [Handle -> Slot] /\ made \subseteq Handle /\ deferred \in Seq(Handle)
  /\ inbox \in [Handle -> BOOLEAN] /\ linger \subseteq Handle /\ unsent \subseteq linger
  /\ chmap \in [Handle -> {"none", "directory", "user"}]
  /\ mains \in [MainId -> {"none", "null", "user"}]
  /\ running \in BOOLEAN /\ at \in {"idle", "starting", "returned"} \cup Inside
  /\ items \in Seq(Handle \X {"open", "closed"}) /\ ready \subseteq DOMAIN items
  /\ cur \in Nat /\ stale \in BOOLEAN
  /\ user \in {"free", "bind", "terminate", "terminated", "destroy", "context", "destroyed"}
  /\ hdl \in Handle \cup {NoHandle} /\ todo \in Seq(Call)
  /\ plan \in Topology \cup {<<>>} /\ step \in 0..Len(plan)
  /\ res \in [Name -> Handle \cup {NoHandle}]
  /\ ports \in [Port -> Handle \cup {NoHandle}]
  /\ failed \subseteq Handle /\ advertised \subseteq Handle \X Port
  /\ fault \in {"none", "closed socket", "null socket", "null callback", "stale iterator",
                "null handle", "freed object"}

(* The constructor with connect_controller().                              *)
Init ==
  /\ conn = [h \in Handle |-> IF h \in {Ch1, Ch2} THEN "open" ELSE "absent"]
  /\ made = {} /\ deferred = <<>>
  /\ inbox = [h \in Handle |-> FALSE] /\ linger = {} /\ unsent = {}
  /\ chmap = [h \in Handle |-> IF h = Ch2 THEN "directory" ELSE "none"]
  /\ mains = [m \in MainId |-> "none"]
  /\ running = FALSE /\ at = "idle" /\ items = <<>> /\ ready = {} /\ cur = 0 /\ stale = FALSE
  /\ todo \in Program /\ user = "free" /\ hdl = NoHandle
  /\ plan = <<>> /\ step = 0 /\ res = [n \in Name |-> NoHandle]
  /\ ports = [p \in Port |-> NoHandle] /\ failed = {} /\ advertised = {}
  /\ fault = "none"
-----------------------------------------------------------------------------
Alive    == fault = "none"
Fresh    == Handle \ (made \cup {Ch1, Ch2})
Dies(why) == fault' = why

(* The user's thread makes the next call of its program.                   *)
Calls(call) ==
  /\ Alive /\ user = "free" /\ step = 0
  /\ todo # <<>> /\ call = Head(todo) /\ todo' = Tail(todo)

(* stop() and the destructor also come after terminate().                  *)
Ends(call) ==
  /\ Alive /\ user \in {"free", "terminated"} /\ step = 0
  /\ todo # <<>> /\ call = Head(todo) /\ todo' = Tail(todo)

(* The entry the loop stands on, when the calls below erase entries.       *)
Erases(S) == stale' = (stale \/ (at \in {"mains", "advance"} /\ cur \in S))
-----------------------------------------------------------------------------
(* Calls that change the maps in one go.                                   *)

(* connect() that finds its lookup, and one that defers (Connections has   *)
(* the lookup itself).                                                     *)
Connect(h) ==
  /\ made' = made \cup {h} /\ linger' = linger \cup {h}
  /\ \/ conn' = [conn EXCEPT ![h] = "open"] /\ UNCHANGED deferred
     \/ deferred' = Append(deferred, h) /\ UNCHANGED conn

CallConnect ==
  /\ Calls("connect") /\ \E h \in Fresh : Connect(h)
  /\ UNCHANGED <<inbox, unsent, chmap, mains, loopVars, workVars, portVars, fault>>

(* zsockopt() and get_zsocket() read connections[cid], which makes an      *)
(* entry where there is none.                                              *)
Touch(h) ==
  /\ Calls("zsockopt") /\ h \in made
  /\ conn' = [conn EXCEPT ![h] = IF @ = "absent" THEN "null" ELSE @]
  /\ UNCHANGED <<made, deferred, inbox, sendVars, chmap, mains, loopVars, workVars, portVars, fault>>

(* send(), which a handle whose connection still waits has no socket for.  *)
(* No peer may be there to take the message; bind() and zbind() set        *)
(* ZMQ_LINGER to 0, so that their sockets drop it when they are closed.    *)
Send(h) ==
  /\ Calls("send") /\ h \in made
  /\ IF conn[h] = "open"
     THEN unsent' \in {unsent, unsent \cup ({h} \cap linger)} /\ UNCHANGED fault
     ELSE Dies("null socket") /\ UNCHANGED unsent
  /\ UNCHANGED <<mapVars, inbox, linger, chmap, mains, loopVars, workVars, portVars>>

(* ZeroMQ hands the messages of a socket to its peer, also after close().  *)
Taken(h) ==
  /\ Alive /\ h \in unsent
  /\ unsent' = unsent \ {h}
  /\ UNCHANGED <<mapVars, inbox, linger, chmap, mains, loopVars, todo, workVars, portVars, fault>>

(* attach() by function, or by a name that register_rcb() may not know.    *)
Attach(h) ==
  /\ Calls("attach") /\ h \in made
  /\ \E f \in {"user", "none"} : chmap' = [chmap EXCEPT ![h] = f]
  /\ UNCHANGED <<mapVars, inbox, sendVars, mains, loopVars, workVars, portVars, fault>>

(* register_main(), by function or by name (null: no such name).           *)
RegisterMain(m) ==
  /\ Calls("register_main")
  /\ \E f \in {"user", "null"} : mains' = [mains EXCEPT ![m] = f]
  /\ UNCHANGED <<mapVars, inbox, sendVars, chmap, loopVars, workVars, portVars, fault>>

UnregisterMain(m) ==
  /\ Calls("unregister_main")
  /\ mains' = [mains EXCEPT ![m] = "none"]
  /\ Erases({m})
  /\ UNCHANGED <<mapVars, inbox, sendVars, chmap, running, at, items, ready, cur, workVars, portVars, fault>>

(* stop(), from any thread.                                                *)
Stop ==
  /\ Ends("stop")
  /\ running' = FALSE
  /\ UNCHANGED <<mapVars, inbox, sendVars, chmap, mains, at, items, ready, cur, stale, workVars, portVars, fault>>
-----------------------------------------------------------------------------
(* bind().  hdl is the handle whose socket is being bound.                 *)

Opens(h) == conn' = [conn EXCEPT ![h] = "open"] /\ made' = made \cup {h} /\ hdl' = h

(* The end of load_topology(), and what it does with a handle it got.      *)
Ended == step' = 0 /\ plan' = <<>> /\ res' = [n \in Name |-> NoHandle]

Returns(h) ==
  /\ user' = "free"
  /\ IF step = 0 THEN UNCHANGED <<plan, step, res>>
     ELSE IF step = Len(plan) THEN Ended
     ELSE step' = step + 1 /\ UNCHANGED plan /\ res' = [res EXCEPT ![plan[step].name] = h]

(* subscribe(), which waits for an answer (ServiceController), then return. *)
Subscribed(h, p) == advertised' = advertised \cup {<<h, p>>} /\ Returns(h)

CallBind ==
  /\ Calls("bind") /\ \E h \in Fresh : Opens(h)
  /\ user' = "bind"
  /\ UNCHANGED <<deferred, inbox, sendVars, chmap, mains, loopVars, plan, step, res, portVars, fault>>

(* A random port of 40000-50000 that is free.                              *)
BindRandom(p) ==
  /\ Alive /\ user = "bind" /\ ports[p] = NoHandle
  /\ ports' = [ports EXCEPT ![p] = hdl]
  /\ Subscribed(hdl, p)
  /\ UNCHANGED <<mapVars, inbox, sendVars, chmap, mains, loopVars, hdl, todo, failed, fault>>

(* Mutation: bind() goes on after the call that retried.                   *)
RetryAndGoOn(p) ==
  /\ Alive /\ user = "bind"
  /\ Subscribed(hdl, p)
  /\ UNCHANGED <<mapVars, inbox, sendVars, chmap, mains, loopVars, hdl, todo, ports, failed, fault>>

(* EADDRINUSE, for a port of this or of any process: bind() calls itself,  *)
(* with a new handle; the socket that could not be bound stays in the map. *)
RetryOtherPort(p) ==
  /\ Alive /\ user = "bind"
  /\ \E h \in Fresh : Opens(h)
  /\ UNCHANGED <<deferred, inbox, sendVars, chmap, mains, loopVars, user, plan, step, res, todo, portVars, fault>>

(* Any other error is caught and dropped.                                  *)
BindErrorDropped(p) ==
  /\ Alive /\ user = "bind"
  /\ failed' = failed \cup {hdl}
  /\ Subscribed(hdl, p)
  /\ UNCHANGED <<mapVars, inbox, sendVars, chmap, mains, loopVars, hdl, todo, ports, fault>>

(* bind() at a port of the caller's, and zbind(), which tells nobody: what *)
(* fails leaves them as an exception, the socket stays in the map.         *)
BindAt(p, tell) ==
  /\ \E h \in Fresh :
       /\ Opens(h)
       /\ \/ /\ ports[p] = NoHandle /\ ports' = [ports EXCEPT ![p] = h]
             /\ advertised' = IF tell THEN advertised \cup {<<h, p>>} ELSE advertised
          \/ UNCHANGED <<ports, advertised>>
  /\ UNCHANGED <<deferred, inbox, sendVars, chmap, mains, loopVars, user, plan, step, res, failed, fault>>

CallBindAt(p) == Calls("bind_at") /\ BindAt(p, TRUE)
CallZbind(p)  == Calls("zbind") /\ BindAt(p, FALSE)
-----------------------------------------------------------------------------
(* load_topology(): clears the callbacks, then takes the steps.            *)
Loading(what) == Alive /\ user = "free" /\ step # 0 /\ plan[step].do = what
NextStep == IF step = Len(plan) THEN Ended ELSE step' = step + 1 /\ UNCHANGED <<plan, res>>

(* Mutation: all receive callbacks are cleared, the controller's as well.  *)
LoadTopologyAfresh ==
  /\ Calls("load_topology")
  /\ mains' = [m \in MainId |-> "none"]
  /\ Erases({m \in MainId : mains[m] # "none"})
  /\ chmap' = [h \in Handle |-> "none"]
  /\ plan' \in Topology /\ step' = (IF plan' = <<>> THEN 0 ELSE 1)
  /\ UNCHANGED <<mapVars, inbox, sendVars, running, at, items, ready, cur, user, hdl, res, portVars, fault>>

LoadTopology ==
  /\ Calls("load_topology")
  /\ mains' = [m \in MainId |-> "none"]
  /\ Erases({m \in MainId : mains[m] # "none"})
  /\ chmap' = [h \in Handle |-> IF h \in {Ch1, Ch2} THEN chmap[h] ELSE "none"]
  /\ plan' \in Topology /\ step' = (IF plan' = <<>> THEN 0 ELSE 1)
  /\ UNCHANGED <<mapVars, inbox, sendVars, running, at, items, ready, cur, user, hdl, res, portVars, fault>>

(* A binding with port 0 goes the way of CallBind.                         *)
LoadBindRandom ==
  /\ Loading("bind") /\ plan[step].port = 0
  /\ \E h \in Fresh : Opens(h)
  /\ user' = "bind"
  /\ UNCHANGED <<deferred, inbox, sendVars, chmap, mains, loopVars, plan, step, res, todo, portVars, fault>>

(* A fixed port: an error leaves bind() and load_topology() as an exception. *)
LoadBind ==
  /\ Loading("bind") /\ plan[step].port # 0
  /\ \E h \in Fresh :
       /\ Opens(h)
       /\ LET p == plan[step].port IN
          \/ ports[p] = NoHandle /\ ports' = [ports EXCEPT ![p] = h] /\ Subscribed(h, p)
          \/ Ended /\ UNCHANGED <<ports, advertised, user>>
  /\ UNCHANGED <<deferred, inbox, sendVars, chmap, mains, loopVars, todo, failed, fault>>

LoadConnect ==
  /\ Loading("connect")
  /\ \E h \in Fresh : Connect(h) /\ Returns(h)
  /\ UNCHANGED <<inbox, unsent, chmap, mains, loopVars, hdl, todo, portVars, fault>>

(* attach(res[uid], ..): a uid that names nothing gives a null handle.     *)
LoadAttach ==
  /\ Loading("attach")
  /\ LET h == res[plan[step].name] IN
     IF h = NoHandle THEN Dies("null handle") /\ UNCHANGED <<chmap, plan, step, res>>
     ELSE chmap' = [chmap EXCEPT ![h] = "user"] /\ NextStep /\ UNCHANGED fault
  /\ UNCHANGED <<mapVars, inbox, sendVars, mains, loopVars, user, hdl, todo, portVars>>

LoadMain ==
  /\ Loading("main")
  /\ mains' = [mains EXCEPT ![plan[step].id] = IF plan[step].known THEN "user" ELSE "null"]
  /\ NextStep
  /\ UNCHANGED <<mapVars, inbox, sendVars, chmap, loopVars, user, hdl, todo, portVars, fault>>
-----------------------------------------------------------------------------
(* The thread in run().                                                    *)

(* run_async(); run() itself is the same with a user's thread that waits.  *)
RunAsync ==
  /\ Calls("run_async") /\ at = "idle"
  /\ at' = "starting"
  /\ UNCHANGED <<mapVars, inbox, sendVars, chmap, mains, running, items, ready, cur, stale, workVars, portVars, fault>>

BeginRun ==
  /\ Alive /\ at = "starting"
  /\ running' = TRUE /\ at' = "test"
  /\ UNCHANGED <<mapVars, inbox, sendVars, chmap, mains, items, ready, cur, stale, todo, workVars, portVars, fault>>

(* The keys of a map, in order.                                            *)
Sorted(S) ==
  [k \in 1..Cardinality(S) |-> CHOOSE x \in S : Cardinality({y \in S : y < x}) = k - 1]

Entries == {h \in Handle : conn[h] # "absent"}

(* Mutations: entries without a socket are taken; the array is one short.  *)
RefreshNulls ==
  LET taken == Sorted({h \in Entries : h # Ch1})
  IN  [k \in 1..Len(taken) |-> <<taken[k], conn[taken[k]]>>]

RefreshShort ==
  LET taken == Sorted({h \in Entries : h # Ch1 /\ conn[h] # "null"})
      n     == Cardinality(Entries) - 2
  IN  [k \in 1..(IF Len(taken) < n THEN Len(taken) ELSE n) |-> <<taken[k], conn[taken[k]]>>]

(* refresh_pollitems(): every entry with a socket but channel 1, as far as *)
(* the bound i >= last_nconn - 1 of its loop lets it.                      *)
RefreshPollitems ==
  LET taken == Sorted({h \in Entries : h # Ch1 /\ conn[h] # "null"})
      n     == Cardinality(Entries) - 1
  IN  [k \in 1..(IF Len(taken) < n THEN Len(taken) ELSE n) |-> <<taken[k], conn[taken[k]]>>]

(* Mutation: while (true).                                                 *)
TestNothing ==
  /\ Alive /\ at = "test"
  /\ at' = "poll" /\ items' = RefreshPollitems
  /\ ready' = {} /\ cur' = 0
  /\ UNCHANGED <<mapVars, inbox, sendVars, chmap, mains, running, stale, todo, workVars, portVars, fault>>

TestRunning ==
  /\ Alive /\ at = "test"
  /\ IF running
     THEN at' = "poll" /\ items' = RefreshPollitems
     ELSE at' = "returned" /\ items' = <<>>
  /\ ready' = {} /\ cur' = 0
  /\ UNCHANGED <<mapVars, inbox, sendVars, chmap, mains, running, stale, todo, workVars, portVars, fault>>

(* zmq::poll().  A socket closed since it was taken fails the call, and    *)
(* the error is dropped; one closed before has no pointer any more, and    *)
(* zmq_poll() looks at file descriptor 0 in its place.                     *)
Polled ==
  IF \E k \in DOMAIN items : items[k][2] = "open" /\ conn[items[k][1]] = "closed"
  THEN {{}}
  ELSE LET readable == {k \in DOMAIN items : items[k][2] = "open" /\ inbox[items[k][1]]}
           stdin    == {k \in DOMAIN items : items[k][2] # "open"}
       IN  {readable, readable \cup stdin}

Poll ==
  /\ Alive /\ at = "poll"
  /\ ready' \in Polled
  /\ at' = "dispatch" /\ cur' = 1
  /\ UNCHANGED <<mapVars, inbox, sendVars, chmap, mains, running, items, stale, todo, workVars, portVars, fault>>

(* One pass of check_deferred() (Connections) in which the handles of R    *)
(* resolve: each gets a socket unless it has one, and for each resolved    *)
(* entry the one at res is erased.  connect() throws on a closed socket.   *)
Erased(list, i) == IF i < Len(list) THEN RemoveAt(list, i + 1) ELSE Front(list)

Retried(R) ==
  LET resolved == Cardinality({i \in DOMAIN deferred : deferred[i] \in R})
      left[n \in 0..resolved] == IF n = 0 THEN deferred ELSE Erased(left[n - 1], n - 1)
  IN  left[resolved]

DirectoryUpdate ==
  \E R \in SUBSET ToSet(deferred) :
    IF \E h \in R : conn[h] = "closed"
    THEN Dies("closed socket") /\ UNCHANGED <<conn, deferred>>
    ELSE /\ deferred' = Retried(R)
         /\ conn' = [h \in Handle |-> IF h \in R THEN "open" ELSE conn[h]]
         /\ UNCHANGED fault

(* recv() on the socket and its callback, if it has one.                   *)
Receive(h) ==
  /\ inbox' = [inbox EXCEPT ![h] = FALSE]
  /\ IF chmap[h] = "directory" THEN DirectoryUpdate ELSE UNCHANGED <<conn, deferred, fault>>
  /\ UNCHANGED made

(* recv() throws on a closed socket, and nothing in run() catches it.      *)
Dispatch ==
  /\ Alive /\ at = "dispatch" /\ cur <= Len(items)
  /\ LET h == items[cur][1] IN
     IF cur \notin ready THEN UNCHANGED <<mapVars, inbox, fault>>
     ELSE IF conn[h] = "open" THEN Receive(h)
     ELSE Dies(IF conn[h] = "closed" THEN "closed socket" ELSE "null socket")
            /\ UNCHANGED <<mapVars, inbox>>
  /\ cur' = cur + 1
  /\ UNCHANGED <<sendVars, chmap, mains, running, at, items, ready, stale, todo, workVars, portVars>>

DispatchDone ==
  /\ Alive /\ at = "dispatch" /\ cur > Len(items)
  /\ at' = "hook" /\ items' = <<>> /\ ready' = {} /\ cur' = 0
  /\ UNCHANGED <<mapVars, inbox, sendVars, chmap, mains, running, stale, todo, workVars, portVars, fault>>

(* hkloop() has run; the walk over ml_chmap starts at its first entry.     *)
After(i) == Sorted({m \in MainId : m > i /\ mains[m] # "none"})
StandsOn(next) ==
  IF next = <<>> THEN at' = "test" /\ cur' = 0 ELSE at' = "mains" /\ cur' = Head(next)

HookDone ==
  /\ Alive /\ at = "hook"
  /\ StandsOn(Sorted({m \in MainId : mains[m] # "none"}))
  /\ stale' = FALSE
  /\ UNCHANGED <<mapVars, inbox, sendVars, chmap, mains, running, items, ready, todo, workVars, portVars, fault>>

CallMain ==
  /\ Alive /\ at = "mains"
  /\ \/ at' = "advance" /\ (stale \/ mains[cur] = "user") /\ UNCHANGED fault
     \/ stale /\ Dies("stale iterator") /\ UNCHANGED at
     \/ ~stale /\ mains[cur] = "null" /\ Dies("null callback") /\ UNCHANGED at
  /\ UNCHANGED <<mapVars, inbox, sendVars, chmap, mains, running, items, ready, cur, stale, todo, workVars, portVars>>

(* Mutation: one callback per round.                                       *)
StopAfterOne ==
  /\ Alive /\ at = "advance"
  /\ at' = "test" /\ cur' = 0 /\ stale' = FALSE
  /\ UNCHANGED <<mapVars, inbox, sendVars, chmap, mains, running, items, ready, todo, workVars, portVars, fault>>

(* ++ on the iterator; on one whose entry was erased it is undefined: the  *)
(* process dies, or the walk goes on somewhere behind or ends.             *)
Advance ==
  /\ Alive /\ at = "advance"
  /\ \/ /\ IF stale THEN \E i \in {i \in MainId : i >= cur} : StandsOn(After(i))
                   ELSE StandsOn(After(cur))
        /\ stale' = FALSE /\ UNCHANGED fault
     \/ stale /\ Dies("stale iterator") /\ UNCHANGED <<at, cur, stale>>
  /\ UNCHANGED <<mapVars, inbox, sendVars, chmap, mains, running, items, ready, todo, workVars, portVars>>
-----------------------------------------------------------------------------
(* terminate() and the destructor, on the user's thread.                   *)

CallTerminate ==
  /\ Calls("terminate")
  /\ user' = "terminate" /\ hdl' = NoHandle
  /\ UNCHANGED <<mapVars, inbox, sendVars, chmap, mains, loopVars, plan, step, res, portVars, fault>>

(* ~service(): stop(), then terminate().                                   *)
Destroy ==
  /\ Ends("destroy")
  /\ running' = FALSE
  /\ user' = "destroy" /\ hdl' = NoHandle
  /\ UNCHANGED <<mapVars, inbox, sendVars, chmap, mains, at, items, ready, cur, stale, plan, step, res, portVars, fault>>

Closing   == Alive /\ user \in {"terminate", "destroy"}
Remaining == Sorted({h \in Entries : h > hdl})

(* Mutation: the sockets of the controller's channels are left open.       *)
CloseOwnSockets ==
  /\ Closing /\ Remaining # <<>>
  /\ LET h == Head(Remaining) IN
     /\ IF conn[h] = "null" THEN Dies("null socket") /\ UNCHANGED <<conn, ports>>
        ELSE /\ conn' = IF h \in {Ch1, Ch2} THEN conn ELSE [conn EXCEPT ![h] = "closed"]
             /\ ports' = [p \in Port |-> IF ports[p] = h THEN NoHandle ELSE ports[p]]
             /\ UNCHANGED fault
     /\ hdl' = h
  /\ UNCHANGED <<made, deferred, inbox, sendVars, chmap, mains, loopVars, user, plan, step, res, todo, failed, advertised>>

(* One socket->close() of the walk over connections; the pointer of an     *)
(* entry without a socket is null.                                         *)
CloseNext ==
  /\ Closing /\ Remaining # <<>>
  /\ LET h == Head(Remaining) IN
     /\ IF conn[h] = "null" THEN Dies("null socket") /\ UNCHANGED <<conn, ports>>
        ELSE /\ conn' = [conn EXCEPT ![h] = "closed"]
             /\ ports' = [p \in Port |-> IF ports[p] = h THEN NoHandle ELSE ports[p]]
             /\ UNCHANGED fault
     /\ hdl' = h
  /\ UNCHANGED <<made, deferred, inbox, sendVars, chmap, mains, loopVars, user, plan, step, res, todo, failed, advertised>>

AllClosed ==
  /\ Closing /\ Remaining = <<>>
  /\ user' = IF user = "terminate" THEN "terminated" ELSE "context"
  /\ UNCHANGED <<mapVars, inbox, sendVars, chmap, mains, loopVars, hdl, plan, step, res, todo, portVars, fault>>

(* The members are destroyed; ~context_t() waits until no socket is open   *)
(* and, for ever, until the peers of the closed ones that linger have      *)
(* their messages.                                                         *)
SomeSocketOpen == \E h \in Handle : conn[h] = "open"

ContextDestroyed ==
  /\ Alive /\ user = "context" /\ ~SomeSocketOpen /\ unsent = {}
  /\ user' = "destroyed"
  /\ UNCHANGED <<mapVars, inbox, sendVars, chmap, mains, loopVars, hdl, plan, step, res, todo, portVars, fault>>

(* A loop that still runs then works on a destroyed object.                *)
UseAfterDestroy ==
  /\ Alive /\ user \in {"context", "destroyed"} /\ at \in Inside \cup {"starting"}
  /\ Dies("freed object")
  /\ UNCHANGED <<mapVars, inbox, sendVars, chmap, mains, loopVars, todo, workVars, portVars>>
-----------------------------------------------------------------------------
(* A message reaches an open socket (channel 1 only gets answers).  Nobody *)
(* but poll() looks whether there is one, so it arrives before a poll().   *)
Arrive(h) ==
  /\ Alive /\ at = "poll" /\ h # Ch1 /\ conn[h] = "open" /\ ~inbox[h]
  /\ inbox' = [inbox EXCEPT ![h] = TRUE]
  /\ UNCHANGED <<mapVars, sendVars, chmap, mains, loopVars, todo, workVars, portVars, fault>>

LoopStep ==
  BeginRun \/ TestRunning \/ Poll \/ Dispatch \/ DispatchDone \/ HookDone \/ CallMain \/ Advance

CloseStep == CloseNext \/ AllClosed \/ ContextDestroyed

Next ==
  \/ BeginRun \/ TestRunning \/ Poll \/ Dispatch \/ DispatchDone \/ HookDone \/ CallMain \/ Advance
  \/ CallConnect \/ CallBind \/ RunAsync \/ Stop
  \/ LoadTopology \/ LoadBindRandom \/ LoadBind \/ LoadConnect \/ LoadAttach \/ LoadMain
  \/ CallTerminate \/ Destroy \/ CloseNext \/ AllClosed \/ ContextDestroyed \/ UseAfterDestroy
  \/ \E h \in Handle : Touch(h) \/ Send(h) \/ Taken(h) \/ Attach(h) \/ Arrive(h)
  \/ \E m \in MainId : RegisterMain(m) \/ UnregisterMain(m)
  \/ \E p \in Port : BindRandom(p) \/ RetryOtherPort(p) \/ BindErrorDropped(p)
                    \/ CallBindAt(p) \/ CallZbind(p)

Spec == Init /\ [][Next]_vars

(* The loop's thread goes on: poll() has a timeout, and callbacks return   *)
(* (n3rvservice.hpp:109 demands it).  So does terminate() once called.     *)
FairSpec == Spec /\ WF_vars(LoopStep) /\ WF_vars(CloseStep)
-----------------------------------------------------------------------------
(* What the loop is about to receive from is an open socket: entries made  *)
(* by zsockopt() or get_zsocket() on a deferred handle are left out, and   *)
(* nothing but terminate() beside the loop closes a socket between poll()  *)
(* and recv(), which would then kill the process.                          *)
Closes == {"terminate", "terminated", "destroy", "context", "destroyed"}

ReceivesFromSockets ==
  at = "dispatch" => \A k \in ready : \/ conn[items[k][1]] = "open"
                                      \/ conn[items[k][1]] = "closed" /\ user \in Closes

(* A port the controller was told is one the socket of that handle holds,  *)
(* however many ports bind() had to try, unless bind() dropped an error.   *)
AdvertisedIsBound ==
  \A a \in advertised : conn[a[1]] = "open" => a[1] \in failed \/ ports[a[2]] = a[1]

(* Whatever the topology replaces, directory updates still reach the       *)
(* directory: channel 2 keeps its callback, and stays polled.              *)
StaysOnDirectory ==
  /\ chmap[Ch2] = "directory"
  /\ at = "poll" => \E k \in DOMAIN items : items[k][1] = Ch2

-----------------------------------------------------------------------------
Over == fault # "none" \/ at \notin Inside

(* A message on an open socket is received while the loop goes on: no      *)
(* entry is left out of every poll.                                        *)
WaitingIsReceived ==
  \A h \in Handle \ {Ch1} :
    (at \in Inside /\ inbox[h]) ~> (~inbox[h] \/ conn[h] = "closed" \/ Over)

(* A registered main callback is called while the loop goes on, unless it  *)
(* is taken back or replaced.                                              *)
EveryMainRuns ==
  \A m \in MainId :
    (at \in Inside /\ mains[m] = "user") ~> ((at = "advance" /\ cur = m) \/ mains[m] # "user" \/ Over)

(* stop() ends the loop it finds running (n3rvservice.hpp:95).             *)
StopEndsTheLoop == (at \in Inside /\ ~running) ~> Over

(* The destructor of a service whose loop is not running returns: its walk *)
(* leaves no socket open for ~context_t() to wait for.  That takes peers   *)
(* that take what was sent to them: connect() (n3rvservice.cpp:123-135)    *)
(* leaves ZMQ_LINGER at -1, and a message for a peer that is gone holds    *)
(* the destructor for ever.                                                *)
DestructorReturns ==
  <>[](unsent = {}) =>
    ((user = "destroy" /\ hdl = NoHandle /\ at \in {"idle", "returned"})
       ~> (user = "destroyed" \/ fault # "none"))
=============================================================================
