-------------------------- MODULE ServiceController -------------------------
(***************************************************************************)
(* The service controller (n3rvservicecontroller.cpp) and the side of the  *)
(* services that talks to it (n3rvservice.cpp: connect_controller, bind,   *)
(* subscribe, fetch_topology, run, directory_update).  Channel 1 is        *)
(* REQ/REP: a service blocks in recv() until the controller answers.       *)
(* Channel 2 is PUB/SUB: the controller publishes its whole directory      *)
(* after each subscription, to the services whose SUB socket has joined by *)
(* then.  Services are killed and restarted at any point.                  *)
(***************************************************************************)
EXTENDS Directory, FiniteSets

CONSTANTS Home,        \* the address each node connects from
          HasTopology, \* load_topology() was called on the controller
          Hwm,         \* bound: messages a subscriber's queue holds (1000 in ZeroMQ)
          MaxLife      \* bound: lives of each service (1 for one that never restarts)

ASSUME HomeAssumption  == Home \in [Node -> Ip]
ASSUME BoundAssumption == HasTopology \in BOOLEAN /\ Hwm \in Nat

VARIABLES directory,   \* the controller's
          ctl,         \* where the controller's thread is: "recv" | "publish"
          requests,    \* requests sent on channel 1 and not yet taken by the controller
          reply,       \* answer on its way to each service, or "none"
          joined,      \* whose SUB socket the PUB socket knows
          inbox,       \* published directories on their way to each service
          life,        \* which start of the process this is
          started,     \* the service is in run()
          call,        \* blocked in recv() on channel 1: "idle" | "subscribe" | "topology"
          bound,       \* bindings whose socket is open
          advertised,  \* bindings whose bind() has returned
          view         \* each service's copy of the directory

ctlVars  == <<directory, ctl>>
wireVars == <<requests, reply, joined, inbox>>
svcVars  == <<life, started, call, bound, advertised, view>>
vars     == <<ctlVars, wireVars, svcVars>>

Life      == Nat \ {0}
Answers   == {"OK", "topology", "ERR: NO TOPOLOGY"}
Subscribe == [from : Node, life : Life, action : {"subscribe"}, binding : Binding]
Topology  == [from : Node, life : Life, action : {"topology"}]
Request   == Subscribe \cup Topology

TypeOK ==
  /\ directory \in Directory
  /\ ctl \in {"recv", "publish"}
  /\ requests \subseteq Request
  /\ reply \in [Node -> Answers \cup {"none"}]
  /\ joined \in [Node -> BOOLEAN]
  /\ inbox \in [Node -> Seq(Directory)]
  /\ life \in [Node -> Life]
  /\ started \in [Node -> BOOLEAN]
  /\ call \in [Node -> {"idle", "subscribe", "topology"}]
  /\ bound \in [Node -> SUBSET Binding]
  /\ advertised \in [Node -> SUBSET Binding]
  /\ view \in [Node -> Directory]

Init ==
  /\ directory = <<>>
  /\ ctl = "recv"
  /\ requests = {}
  /\ reply = [s \in Node |-> "none"]
  /\ joined = [s \in Node |-> FALSE]
  /\ inbox = [s \in Node |-> <<>>]
  /\ life = [s \in Node |-> 1]
  /\ started = [s \in Node |-> FALSE]
  /\ call = [s \in Node |-> "idle"]
  /\ bound = [s \in Node |-> {}]
  /\ advertised = [s \in Node |-> {}]
  /\ view = [s \in Node |-> <<>>]
-----------------------------------------------------------------------------
(* Services.                                                               *)

PortFree(s, p) == \A t \in Node : Home[t] = Home[s] => \A b \in bound[t] : b.port # p

(* bind(): opens the socket on a free port of the host and sends the       *)
(* subscription.  A service uses a binding name once.                      *)
Bind(s, b) ==
  /\ call[s] = "idle"
  /\ \A c \in bound[s] : c.name # b.name
  /\ PortFree(s, b.port)
  /\ bound' = [bound EXCEPT ![s] = @ \cup {b}]
  /\ requests' = requests \cup
       {[from |-> s, life |-> life[s], action |-> "subscribe", binding |-> b]}
  /\ call' = [call EXCEPT ![s] = "subscribe"]
  /\ UNCHANGED <<ctlVars, reply, joined, inbox, life, started, advertised, view>>

FetchTopology(s) ==
  /\ call[s] = "idle"
  /\ requests' = requests \cup {[from |-> s, life |-> life[s], action |-> "topology"]}
  /\ call' = [call EXCEPT ![s] = "topology"]
  /\ UNCHANGED <<ctlVars, reply, joined, inbox, life, started, bound, advertised, view>>

(* recv() on channel 1 returns.  subscribe() does not look at the answer.  *)
CallReturns(s) ==
  /\ call[s] # "idle"
  /\ reply[s] # "none"
  /\ reply' = [reply EXCEPT ![s] = "none"]
  /\ call' = [call EXCEPT ![s] = "idle"]
  /\ advertised' = [advertised EXCEPT ![s] = bound[s]]
  /\ UNCHANGED <<ctlVars, requests, joined, inbox, life, started, bound, view>>

(* run() or run_async(); the user thread may go on binding beside it.      *)
Run(s) ==
  /\ ~started[s] /\ call[s] = "idle"
  /\ started' = [started EXCEPT ![s] = TRUE]
  /\ UNCHANGED <<ctlVars, wireVars, life, call, bound, advertised, view>>

(* The loop receives a published directory: directory_update().            *)
DirectoryUpdate(s) ==
  /\ started[s] /\ inbox[s] # <<>>
  /\ view' = [view EXCEPT ![s] = Head(inbox[s])]
  /\ inbox' = [inbox EXCEPT ![s] = Tail(inbox[s])]
  /\ UNCHANGED <<ctlVars, requests, reply, joined, life, started, call, bound, advertised>>

(* The process is killed and started again.  Its outstanding request may   *)
(* have reached the controller's queue, or is lost with it.                *)
Restart(s) ==
  /\ life[s] < MaxLife[s]
  /\ \/ UNCHANGED requests
     \/ requests' = {m \in requests : ~(m.from = s /\ m.life = life[s])}
  /\ life' = [life EXCEPT ![s] = @ + 1]
  /\ reply' = [reply EXCEPT ![s] = "none"]
  /\ joined' = [joined EXCEPT ![s] = FALSE]
  /\ inbox' = [inbox EXCEPT ![s] = <<>>]
  /\ started' = [started EXCEPT ![s] = FALSE]
  /\ call' = [call EXCEPT ![s] = "idle"]
  /\ bound' = [bound EXCEPT ![s] = {}]
  /\ advertised' = [advertised EXCEPT ![s] = {}]
  /\ view' = [view EXCEPT ![s] = <<>>]
  /\ UNCHANGED ctlVars
-----------------------------------------------------------------------------
(* ZeroMQ: the subscription a SUB socket sends when it connects reaches    *)
(* the PUB socket some time after the service's constructor ran.           *)
Join(s) ==
  /\ ~joined[s]
  /\ joined' = [joined EXCEPT ![s] = TRUE]
  /\ UNCHANGED <<ctlVars, requests, reply, inbox, svcVars>>
-----------------------------------------------------------------------------
(* The controller's thread.                                                *)

Live(m) == m.life = life[m.from]

(* An answer to a connection that is gone is dropped by the REP socket.    *)
Answer(m, text) ==
  /\ requests' = requests \ {m}
  /\ reply' = IF Live(m) THEN [reply EXCEPT ![m.from] = text] ELSE reply

(* getpeername() on the descriptor a request came by; once the peer is     *)
(* gone the descriptor may be closed, or be another connection's.          *)
PeerIp(m) == IF Live(m) THEN {Home[m.from]} ELSE AnyIp

(* Mutations: no lookup before emplace_back(); a listed node's new binding *)
(* is not added.                                                           *)
RecordBindingBlindly(m) ==
  \E ip \in PeerIp(m) : directory' = AddNode(directory, m.from, ip, m.binding)

RecordBindingOfNewNodes(m) ==
  IF Candidates(directory, m.from) # {}
  THEN UNCHANGED directory
  ELSE \E ip \in PeerIp(m) : directory' = AddNode(directory, m.from, ip, m.binding)

RecordBinding(m) ==
  IF Candidates(directory, m.from) # {}
  THEN \E i \in Candidates(directory, m.from) :
         directory' = AddBinding(directory, i, m.binding)
  ELSE \E ip \in PeerIp(m) : directory' = AddNode(directory, m.from, ip, m.binding)

HandleSubscribe(m) ==
  /\ ctl = "recv"
  /\ m.action = "subscribe"
  /\ RecordBinding(m)
  /\ Answer(m, "OK")
  /\ ctl' = "publish"
  /\ UNCHANGED <<joined, inbox, svcVars>>

(* Mutation: without a topology the request is left unanswered.            *)
HandleTopologySilently(m) ==
  /\ ctl = "recv"
  /\ m.action = "topology"
  /\ requests' = requests \ {m}
  /\ UNCHANGED <<ctlVars, reply, joined, inbox, svcVars>>

HandleTopology(m) ==
  /\ ctl = "recv"
  /\ m.action = "topology"
  /\ Answer(m, IF HasTopology THEN "topology" ELSE "ERR: NO TOPOLOGY")
  /\ UNCHANGED <<ctlVars, joined, inbox, svcVars>>

(* Mutations: only the newest record is published; a subscriber that has   *)
(* a directory already is skipped.                                         *)
PublishNewest ==
  /\ ctl = "publish"
  /\ inbox' = [s \in Node |-> IF joined[s] /\ Len(inbox[s]) < Hwm
                              THEN Append(inbox[s], <<Last(directory)>>) ELSE inbox[s]]
  /\ ctl' = "recv"
  /\ UNCHANGED <<directory, requests, reply, joined, svcVars>>

PublishToNewcomers ==
  /\ ctl = "publish"
  /\ inbox' = [s \in Node |-> IF joined[s] /\ view[s] = <<>> /\ Len(inbox[s]) < Hwm
                              THEN Append(inbox[s], directory) ELSE inbox[s]]
  /\ ctl' = "recv"
  /\ UNCHANGED <<directory, requests, reply, joined, svcVars>>

(* After sleep(1).  PUB drops a message for a subscriber whose queue is full. *)
PublishDirectory ==
  /\ ctl = "publish"
  /\ inbox' = [s \in Node |-> IF joined[s] /\ Len(inbox[s]) < Hwm
                              THEN Append(inbox[s], directory) ELSE inbox[s]]
  /\ ctl' = "recv"
  /\ UNCHANGED <<directory, requests, reply, joined, svcVars>>
-----------------------------------------------------------------------------
HandleRequestOf(s) ==
  \E m \in requests : m.from = s /\ (HandleSubscribe(m) \/ HandleTopology(m))

Next ==
  \/ PublishDirectory
  \/ \E m \in requests : HandleSubscribe(m)
  \/ \E m \in requests : HandleTopology(m)
  \/ \E s \in Node :
       \/ \E b \in Binding : Bind(s, b)
       \/ FetchTopology(s)
       \/ CallReturns(s)
       \/ Run(s)
       \/ DirectoryUpdate(s)
       \/ Restart(s)
       \/ Join(s)

Spec == Init /\ [][Next]_vars

(* The controller's loop and each service's never stop; recv() on the REP  *)
(* socket takes requests from its peers in turn, so a waiting one is not   *)
(* passed over for ever; a SUB socket joins.  Nothing forces a service to  *)
(* bind, to fetch or to call run().                                        *)
Fairness ==
  /\ WF_vars(PublishDirectory)
  /\ \A s \in Node : /\ SF_vars(HandleRequestOf(s))
                     /\ WF_vars(CallReturns(s))
                     /\ WF_vars(DirectoryUpdate(s))
                     /\ WF_vars(Join(s))

FairSpec == Spec /\ Fairness
-----------------------------------------------------------------------------
(* Channel 1 stays in step: a service that waits has exactly one request   *)
(* with the controller or one answer coming back, and it is the answer to  *)
(* what it asked; a service that does not wait has neither (REQ and REP    *)
(* sockets fail with EFSM otherwise).  Requests of an earlier life of the  *)
(* process never pass for the present one's.                               *)
Outstanding(s) == {m \in requests : m.from = s /\ Live(m)}

Asks(s, m) ==
  /\ m.action = call[s]
  /\ m.action = "subscribe" =>
       m.binding \notin advertised[s] /\ bound[s] = advertised[s] \cup {m.binding}

InStep(s) ==
  /\ call[s] = "idle" => Outstanding(s) = {} /\ reply[s] = "none"
  /\ call[s] # "idle" /\ reply[s] = "none" =>
       \E m \in requests : Outstanding(s) = {m} /\ Asks(s, m)
  /\ call[s] # "idle" /\ reply[s] # "none" =>
       Outstanding(s) = {} /\ (call[s] = "subscribe" <=> reply[s] = "OK")
  /\ call[s] # "subscribe" => bound[s] = advertised[s]
  /\ \A m \in requests : m.from = s => m.life <= life[s]

LockStep == \A s \in Node : InStep(s)

(* When bind() returns, or its OK is on the way, the controller's directory *)
(* lists the binding under a record that its lookup finds for the node:    *)
(* the directory is updated before the answer is sent.                     *)
Acknowledged(s) == advertised[s] \cup (IF reply[s] = "OK" THEN bound[s] ELSE {})

AcknowledgedIsListed ==
  \A s \in Node : \A b \in Acknowledged(s) :
    \E i \in Candidates(directory, s) : ListsUnder(directory, i, b)

(* A node has one record, however its subscriptions interleave with the    *)
(* others' and with its own restarts (nlookup() before emplace_back()).    *)
OneRecordPerNode ==
  \A i, j \in DOMAIN directory : directory[i].node = directory[j].node => i = j

(* tech_terminology.rst:49-50: a binding is identified by its node's uid   *)
(* and its name.  The record of a node that never restarted holds that     *)
(* node's address and its own bindings, each once.                         *)
RecordIsTheNodes ==
  \A i \in DOMAIN directory :
    LET s == directory[i].node
        bs == directory[i].bindings
    IN  life[s] = 1 => /\ directory[i].ip = Home[s]
                       /\ ToSet(bs) \subseteq bound[s]
                       /\ IsInjective(bs)

(* Every copy of the directory, in a service or on its way to one, is an   *)
(* earlier state of the controller's, and the copies arrive oldest first.  *)
SnapshotsOf(s) ==
  /\ GrowsInto(view[s], directory)
  /\ \A i \in DOMAIN inbox[s] : /\ GrowsInto(view[s], inbox[s][i])
                                /\ GrowsInto(inbox[s][i], directory)
  /\ \A i, j \in DOMAIN inbox[s] : i <= j => GrowsInto(inbox[s][i], inbox[s][j])

ViewsAreSnapshots == \A s \in Node : SnapshotsOf(s)

(* directory_update() overwrites the view; what a service could resolve it *)
(* can still resolve afterwards, for as long as it lives.                  *)
ViewsOnlyGrow ==
  [][\A s \in Node : life'[s] = life[s] => GrowsInto(view[s], view'[s])]_vars

(* The controller and the copies implement the abstract DirectoryService.  *)
Promise == INSTANCE DirectoryService WITH
             registered <- Entries(directory),
             known      <- [s \in Node |-> Entries(view[s])]

ImplementsDirectoryService == Promise!Spec

(* bind() and fetch_topology() return (unless the process is killed): the  *)
(* controller answers every request the library sends.                     *)
EveryCallReturns == \A s \in Node : call[s] # "idle" ~> call[s] = "idle"

Lists(dir, t, n) ==
  \E i \in DOMAIN dir : dir[i].node = t /\ \E b \in ToSet(dir[i].bindings) : b.name = n

(* An update published to a running service that has joined, and has room  *)
(* in its queue, reaches that service's directory.                         *)
PublishedReachesJoined ==
  \A s, t \in Node, n \in BindName :
    (/\ ctl = "publish" /\ Lists(directory, t, n)
     /\ joined[s] /\ started[s] /\ Len(inbox[s]) < Hwm)
      ~> (Lists(view[s], t, n) \/ ~started[s])

(* README.md:32-33 says more: every update is broadcast to all the nodes,  *)
(* "thus making the bindings joinable by everyone".                        *)
EveryoneLearns ==
  \A s, t \in Node, n \in BindName :
    (started[s] /\ \E b \in advertised[t] : b.name = n)
      ~> (Lists(view[s], t, n) \/ ~started[s])

(* tech_terminology.rst:55-56 says the controller keeps "an uptodate       *)
(* directory": a binding a node has bound and advertised is the one        *)
(* blookup() takes, the first of its name in the node's record.            *)
UpToDate ==
  \A s \in Node : \A b \in advertised[s] :
    \E i \in DOMAIN directory : \E k \in DOMAIN directory[i].bindings :
      /\ directory[i].node = s
      /\ directory[i].bindings[k] = b
      /\ \A l \in 1..k - 1 : directory[i].bindings[l].name # b.name
=============================================================================
