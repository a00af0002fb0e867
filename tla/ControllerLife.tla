---------------------------- MODULE ControllerLife --------------------------
(***************************************************************************)
(* The lives of a service controller: start_controller() builds it on a    *)
(* thread of the process of one of the services (n3rvservicecontroller.hpp *)
(* and the examples' "hidden" controllers), run() loops over the requests, *)
(* stop() and terminate() are called from that process's main thread, and  *)
(* the process is killed and started again, with an empty directory.  The  *)
(* services bind() and follow the published directory (n3rvservice.cpp).   *)
(***************************************************************************)
EXTENDS Naturals, Sequences, SequencesExt

CONSTANTS Services,   \* the services that talk to the controller
          Owner,      \* the one of them whose process holds it
          MaxLives,   \* bound: starts of that process
          MaxCalls,   \* bound: calls on channel 1, for each service
          Hwm         \* bound: directories waiting at a subscriber

ASSUME LifeAssumption ==
  Owner \in Services /\ MaxLives \in Nat /\ MaxCalls \in [Services -> Nat] /\ Hwm \in Nat

VARIABLES life,       \* starts of the controller's process so far
          thread,     \* where the controller's thread is
          handle,     \* scioctl: "none", "unset" (ctl not assigned yet) or "set"
          running,    \* servicecontroller::running
          directory,  \* the controller's: bindings, oldest first
          published,  \* for each life, the directories it has published
          requests,   \* services whose request the controller has not taken
          replies,    \* services whose answer is on its way
          call,       \* what each service waits for: "idle" | "subscribe" | "topology"
          calls,      \* calls each service has made
          joined,     \* whose SUB socket the PUB socket knows
          inbox,      \* directories on their way to each service
          view,       \* each service's copy of the directory
          stopped,    \* stop(): "no" | "early" | "bound" (a bind() had returned before)
          handled     \* requests taken since that stop()

ctlVars == <<life, thread, handle, running, directory, published>>
svcVars == <<requests, replies, call, calls>>
subVars == <<joined, inbox, view>>
endVars == <<stopped, handled>>
lifeVars == <<ctlVars, svcVars, subVars, endVars>>

\* A binding: whose, and its name and port, which are new each time.
BindingOf(s) == <<s, life, calls[s]>>

LifeInit ==
  /\ life = 0 /\ thread = "none" /\ handle = "none" /\ running = FALSE
  /\ directory = <<>> /\ published = [l \in 1 .. MaxLives |-> <<>>]
  /\ requests = {} /\ replies = {}
  /\ call = [s \in Services |-> "idle"] /\ calls = [s \in Services |-> 0]
  /\ joined = {} /\ inbox = [s \in Services |-> <<>>] /\ view = [s \in Services |-> <<>>]
  /\ stopped = "no" /\ handled = 0

---------------------------------------------------------------------------
(* The controller's thread.                                                *)

\* start_controller() returns at once, with ctl unassigned.
StartController ==
  /\ thread = "none" /\ life < MaxLives
  /\ life' = life + 1 /\ thread' = "new" /\ handle' = "unset"
  /\ UNCHANGED <<running, directory, published, svcVars, subVars, endVars>>

\* new servicecontroller(): both sockets are bound, from here requests queue.
Construct ==
  /\ thread = "new" /\ thread' = "constructed"
  /\ running' = FALSE /\ directory' = <<>>
  /\ UNCHANGED <<life, handle, published, svcVars, subVars, endVars>>

\* Mutation: run() before the assignment, which is then never reached.
AssignLate ==
  /\ thread = "constructed" /\ thread' = "run"
  /\ UNCHANGED <<life, handle, running, directory, published, svcVars, subVars, endVars>>

AssignHandle ==
  /\ thread = "constructed" /\ thread' = "run" /\ handle' = "set"
  /\ UNCHANGED <<life, running, directory, published, svcVars, subVars, endVars>>

BeginRun ==
  /\ thread = "run" /\ thread' = "test" /\ running' = TRUE
  /\ UNCHANGED <<life, handle, directory, published, svcVars, subVars, endVars>>

TestRunning ==
  /\ thread = "test" /\ thread' = IF running THEN "recv" ELSE "ended"
  /\ UNCHANGED <<life, handle, running, directory, published, svcVars, subVars, endVars>>

\* recv() and the answer: a subscription is published a second later, a
\* request for the topology is only answered.
Receive(s) ==
  /\ thread = "recv" /\ s \in requests
  /\ requests' = requests \ {s} /\ replies' = replies \cup {s}
  /\ IF call[s] = "subscribe"
     THEN directory' = Append(directory, BindingOf(s)) /\ thread' = "publish"
     ELSE thread' = "test" /\ UNCHANGED directory
  /\ handled' = IF stopped = "no" THEN 0 ELSE handled + 1
  /\ UNCHANGED <<life, handle, running, published, call, calls, subVars, stopped>>

\* PUB drops the directory for who has not joined or has no room.
Publish ==
  /\ thread = "publish" /\ thread' = "test"
  /\ published' = [published EXCEPT ![life] = Append(@, directory)]
  /\ inbox' = [s \in Services |-> IF s \in joined /\ Len(inbox[s]) < Hwm
                                  THEN Append(inbox[s], directory) ELSE inbox[s]]
  /\ UNCHANGED <<life, handle, running, directory, svcVars, joined, view, endVars>>

---------------------------------------------------------------------------
(* The process of the controller: stop(), terminate(), kill and restart.   *)

\* Through the handle start_controller() has returned: an unassigned pointer
\* may be anything, the process goes wild.
Stop ==
  /\ handle # "none" /\ call[Owner] = "idle" /\ stopped = "no" /\ thread \notin {"wild", "broken"}
  /\ stopped' = IF calls[Owner] > 0 THEN "bound" ELSE "early"
  /\ IF handle = "set" THEN running' = FALSE /\ UNCHANGED thread
                       ELSE thread' = "wild" /\ UNCHANGED running
  /\ UNCHANGED <<life, handle, directory, published, svcVars, subVars, handled>>

\* Closing the sockets the controller's thread still uses breaks it.
Terminate ==
  /\ handle = "set" /\ call[Owner] = "idle" /\ stopped # "no" /\ thread \notin {"wild", "broken", "closed"}
  /\ thread' = IF thread = "ended" THEN "closed" ELSE "broken"
  /\ UNCHANGED <<life, handle, running, directory, published, svcVars, subVars, endVars>>

\* Requests and answers still on the wire arrive or are lost; a service whose
\* request or answer is lost waits for ever.  The owner dies with the controller.
Crash(kept) ==
  /\ life < MaxLives /\ thread # "none"
  /\ thread' = "none" /\ handle' = "none" /\ running' = FALSE /\ directory' = <<>>
  /\ requests' = requests \cap kept /\ replies' = replies \cap kept
  /\ call' = [call EXCEPT ![Owner] = "idle"] /\ calls' = [calls EXCEPT ![Owner] = 0]
  /\ joined' = {}
  /\ inbox' = [inbox EXCEPT ![Owner] = <<>>] /\ view' = [view EXCEPT ![Owner] = <<>>]
  /\ stopped' = "no" /\ handled' = 0
  /\ UNCHANGED <<life, published>>

---------------------------------------------------------------------------
(* The services.                                                           *)

\* bind() and fetch_topology(): one request, then recv().  The owner's main
\* thread does it after start_controller().
Ask(s, action) ==
  /\ call[s] = "idle" /\ calls[s] < MaxCalls[s]
  /\ s = Owner => handle # "none" /\ thread \notin {"wild", "broken"}
  /\ call' = [call EXCEPT ![s] = action] /\ calls' = [calls EXCEPT ![s] = @ + 1]
  /\ requests' = requests \cup {s}
  /\ UNCHANGED <<ctlVars, replies, subVars, endVars>>

Answered(s) ==
  /\ s \in replies
  /\ replies' = replies \ {s} /\ call' = [call EXCEPT ![s] = "idle"]
  /\ UNCHANGED <<ctlVars, requests, calls, subVars, endVars>>

\* The SUB socket connects again by itself after a restart.
Join(s) ==
  /\ thread \notin {"none", "new", "closed", "wild", "broken"} /\ s \notin joined
  /\ joined' = joined \cup {s}
  /\ UNCHANGED <<ctlVars, svcVars, inbox, view, endVars>>

\* Mutation: the entries received are added to those known.
DirectoryUpdateMerged(s) ==
  /\ inbox[s] # <<>>
  /\ inbox' = [inbox EXCEPT ![s] = Tail(@)]
  /\ view' = [view EXCEPT ![s] = SelectSeq(@, LAMBDA b : ~Contains(Head(inbox[s]), b))
                                  \o Head(inbox[s])]
  /\ UNCHANGED <<ctlVars, svcVars, joined, endVars>>

DirectoryUpdate(s) ==
  /\ inbox[s] # <<>>
  /\ inbox' = [inbox EXCEPT ![s] = Tail(@)] /\ view' = [view EXCEPT ![s] = Head(inbox[s])]
  /\ UNCHANGED <<ctlVars, svcVars, joined, endVars>>

---------------------------------------------------------------------------
LifeNext ==
  \/ StartController \/ Construct \/ AssignHandle \/ BeginRun \/ TestRunning \/ Publish
  \/ Stop \/ Terminate \/ \E kept \in SUBSET (Services \ {Owner}) : Crash(kept)
  \/ \E s \in Services : \/ Receive(s) \/ Answered(s) \/ Join(s) \/ DirectoryUpdate(s)
                         \/ \E action \in {"subscribe", "topology"} : Ask(s, action)

LifeSpec == LifeInit /\ [][LifeNext]_lifeVars

\* Where a directory stands among the published ones: its life and its number.
Standings(d) ==
    UNION {{<<l, i>> : i \in {j \in DOMAIN published[l] : published[l][j] = d}} : l \in 1 .. MaxLives}

\* A service's directory is always one that a single life of the controller
\* has published, and an update only replaces it by a later one of that life or
\* by one of a later life: bindings of a dead controller never come back, nor
\* mix with those of its successor (directory_update() replaces the directory).
ViewsOfOneLife ==
  [][\A s \in Services : view'[s] # view[s] /\ thread' # "none" =>
        \E q \in Standings(view'[s]) : \A p \in Standings(view[s]) :
            p[1] < q[1] \/ (p[1] = q[1] /\ p[2] < q[2])]_lifeVars

\* A stop() after a bind() of its process has returned is never lost: it finds
\* the handle assigned and the loop entered (the answer to the bind() says so),
\* and the loop takes at most the one request recv() was waiting for.
StopIsEffective == stopped = "bound" => thread # "wild" /\ handled <= 1
=============================================================================
