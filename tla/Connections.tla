---------------------------- MODULE Connections -----------------------------
(***************************************************************************)
(* How a service connects to its peers (n3rvservice.cpp: connect,          *)
(* check_deferred, directory_update, and the part of run that calls it).   *)
(* A lookup that is not in the directory yet is put in the deferred list;  *)
(* each directory update makes the service's loop go through a copy of     *)
(* that list and connect what has become resolvable.                       *)
(*                                                                         *)
(* Two threads: the user's, which calls connect(), and the loop's.  In a   *)
(* program that calls run(), connect() is called before it or by a         *)
(* callback of the loop itself; in one that calls run_async(), as          *)
(* tests/test_service.hpp:88-90 has it, the user's thread calls it beside  *)
(* the loop.  Both threads then touch directory and deferred without a     *)
(* lock, which is undefined behaviour; the model has the outcomes in which *)
(* each access takes effect as a whole.                                    *)
(*                                                                         *)
(* The controller publishes to the subscribers that have joined, and drops *)
(* a directory for one whose queue is full.                                *)
(***************************************************************************)
EXTENDS Naturals, Sequences, FiniteSets, SequencesExt

CONSTANTS Node, BindName,
          Call,     \* the calls of connect() the service makes
          Matches,  \* [Call -> SUBSET Node]: nodes nlookup() takes for the call's address
          Wanted,   \* [Call -> BindName]: the binding name that ends the address
          Modes,    \* how the program may start its loop
          Hwm       \* bound: directories the service's queue holds (1000 in ZeroMQ)

ASSUME CallAssumption ==
  /\ Matches \in [Call -> SUBSET Node]
  /\ Wanted \in [Call -> BindName]
  /\ Modes \subseteq {"run", "run_async"}
  /\ Hwm \in Nat

VARIABLES published, \* the controller's directory: the binding names of each node
          joined,    \* the PUB socket knows the service's subscription
          updates,   \* directories in the service's queue
          view,      \* the service's copy of the directory
          called,    \* calls of connect() that were made
          user,      \* the call connect() is executing, and what blookup() said
          peers,     \* endpoints connected for each call, in order
          deferred,  \* the deferred list
          mode,      \* how the program starts its loop
          loop,      \* program counter of the thread in run()
          iter,      \* deferred_iter, the copy check_deferred() goes through
          pos,       \* its position in the copy
          res        \* res of check_deferred(): connections made in this pass

pubVars  == <<published, joined, mode>>
loopVars == <<iter, pos, res>>
vars     == <<pubVars, updates, view, called, user, peers, deferred, loop, loopVars>>

View     == [Node -> SUBSET BindName]   \* {}: the node is not listed
Endpoint == Node \X BindName
Missing  == <<>>                        \* blookup() returned nullptr
Idle     == <<>>

(* connect() may run beside the loop.                                      *)
Async == mode = "run_async"

(* blookup(): picks one listed node that matches, then wants the name there. *)
Picks(dir, c) == {n \in Matches[c] : dir[n] # {}}

(* Mutation: the name is not looked for in the picked node.                *)
BLookupAnyName(dir, c) ==
  IF Picks(dir, c) = {} THEN {Missing} ELSE {<<n, Wanted[c]>> : n \in Picks(dir, c)}

BLookup(dir, c) ==
  IF Picks(dir, c) = {} THEN {Missing}
  ELSE {IF Wanted[c] \in dir[n] THEN <<n, Wanted[c]>> ELSE Missing : n \in Picks(dir, c)}

TypeOK ==
  /\ published \in View /\ view \in View /\ updates \in Seq(View)
  /\ joined \in BOOLEAN /\ mode \in Modes
  /\ called \subseteq Call
  /\ user \in {Idle} \cup (Call \X (Endpoint \cup {Missing}))
  /\ peers \in [Call -> Seq(Endpoint)]
  /\ deferred \in Seq(Call) /\ iter \in Seq(Call)
  /\ loop \in {"setup", "poll", "copy", "check", "reconnect", "erase"}
  /\ pos \in Nat \ {0} /\ res \in Nat

Init ==
  /\ published = [n \in Node |-> {}] /\ view = published /\ updates = <<>>
  /\ joined = FALSE /\ mode \in Modes
  /\ called = {} /\ user = Idle
  /\ peers = [c \in Call |-> <<>>]
  /\ deferred = <<>>
  /\ loop = "setup" /\ iter = <<>> /\ pos = 1 /\ res = 0
-----------------------------------------------------------------------------
(* ZeroMQ: the subscription of channel 2 reaches the PUB socket some time  *)
(* after the constructor.                                                  *)
Join ==
  /\ ~joined
  /\ joined' = TRUE
  /\ UNCHANGED <<published, mode, updates, view, called, user, peers, deferred, loop, loopVars>>

(* The controller publishes its directory after each subscription          *)
(* (ServiceController); it grows.  PUB drops it for a service that has not *)
(* joined, or whose queue is full.                                         *)
Publish(n, b) ==
  /\ b \notin published[n]
  /\ published' = [published EXCEPT ![n] = @ \cup {b}]
  /\ updates' = IF joined /\ Len(updates) < Hwm THEN Append(updates, published') ELSE updates
  /\ UNCHANGED <<joined, mode, view, called, user, peers, deferred, loop, loopVars>>
-----------------------------------------------------------------------------
(* connect().  Its lookup, then the connection or the deferral.            *)
UserLookup(c) ==
  /\ user = Idle /\ c \notin called
  /\ Async \/ loop \in {"setup", "poll"}
  /\ called' = called \cup {c}
  /\ user' \in {<<c, found>> : found \in BLookup(view, c)}
  /\ UNCHANGED <<pubVars, updates, view, peers, deferred, loop, loopVars>>

(* Mutations: the endpoint replaces the list; a miss is not deferred.      *)
EstablishedAlone(c, found) ==
  /\ found # Missing
  /\ peers' = [peers EXCEPT ![c] = found]
  /\ UNCHANGED deferred

DroppedOnMiss(c, found) == found = Missing /\ UNCHANGED <<peers, deferred>>

Established(c, found) ==
  /\ found # Missing
  /\ peers' = [peers EXCEPT ![c] = Append(@, found)]
  /\ UNCHANGED deferred

Deferred(c, found) ==
  /\ found = Missing
  /\ deferred' = Append(deferred, c)
  /\ UNCHANGED peers

UserFinish ==
  /\ user # Idle
  /\ Established(user[1], user[2]) \/ Deferred(user[1], user[2])
  /\ user' = Idle
  /\ UNCHANGED <<pubVars, updates, view, called, loop, loopVars>>
-----------------------------------------------------------------------------
(* The thread in run().  A callback that calls connect() holds it up.      *)
LoopMay == Async \/ user = Idle

Run ==
  /\ loop = "setup" /\ LoopMay
  /\ loop' = "poll"
  /\ UNCHANGED <<pubVars, updates, view, called, user, peers, deferred, loopVars>>

(* Mutation: the directory is replaced and the deferred list is left alone. *)
DirectoryUpdateOnly ==
  /\ loop = "poll" /\ LoopMay /\ updates # <<>>
  /\ view' = Head(updates)
  /\ updates' = Tail(updates)
  /\ UNCHANGED <<pubVars, called, user, peers, deferred, loop, loopVars>>

(* directory_update(): overwrites the directory, calls check_deferred().   *)
DirectoryUpdate ==
  /\ loop = "poll" /\ LoopMay /\ updates # <<>>
  /\ view' = Head(updates)
  /\ updates' = Tail(updates)
  /\ loop' = "copy"
  /\ UNCHANGED <<pubVars, called, user, peers, deferred, loopVars>>

CopyDeferred ==
  /\ loop = "copy"
  /\ iter' = deferred /\ pos' = 1 /\ res' = 0
  /\ loop' = "check"
  /\ UNCHANGED <<pubVars, updates, view, called, user, peers, deferred>>

(* The lookup of check_deferred() itself.                                  *)
Check ==
  /\ loop = "check" /\ pos <= Len(iter)
  /\ \/ /\ Missing \in BLookup(view, iter[pos])
        /\ pos' = pos + 1
        /\ UNCHANGED loop
     \/ /\ BLookup(view, iter[pos]) # {Missing}
        /\ loop' = "reconnect"
        /\ UNCHANGED pos
  /\ UNCHANGED <<pubVars, updates, view, called, user, peers, deferred, iter, res>>

(* connect() looks the address up again, and defers again if it misses.    *)
Reconnect ==
  /\ loop = "reconnect"
  /\ \E found \in BLookup(view, iter[pos]) :
       Established(iter[pos], found) \/ Deferred(iter[pos], found)
  /\ loop' = "erase"
  /\ UNCHANGED <<pubVars, updates, view, called, user, loopVars>>

(* Mutations: an index past the end erases nothing; the pass does not move *)
(* on after a connection.                                                  *)
EraseInRange(list, i) == IF i < Len(list) THEN RemoveAt(list, i + 1) ELSE list

EraseAndStay ==
  /\ loop = "erase"
  /\ deferred' = IF res < Len(deferred) THEN RemoveAt(deferred, res + 1) ELSE Front(deferred)
  /\ res' = res + 1
  /\ loop' = "check"
  /\ UNCHANGED <<pubVars, updates, view, called, user, peers, iter, pos>>

(* deferred.erase(deferred.begin() + i).  An iterator at or past the end   *)
(* is undefined behaviour; libstdc++ then moves nothing and drops the last *)
(* element.                                                                *)
EraseAt(list, i) == IF i < Len(list) THEN RemoveAt(list, i + 1) ELSE Front(list)

EraseAndAdvance ==
  /\ loop = "erase"
  /\ deferred' = EraseAt(deferred, res)
  /\ res' = res + 1 /\ pos' = pos + 1
  /\ loop' = "check"
  /\ UNCHANGED <<pubVars, updates, view, called, user, peers, iter>>

CheckReturns ==
  /\ loop = "check" /\ pos > Len(iter)
  /\ loop' = "poll"
  /\ UNCHANGED <<pubVars, updates, view, called, user, peers, deferred, loopVars>>
-----------------------------------------------------------------------------
LoopStep == Run \/ DirectoryUpdate \/ CopyDeferred \/ Check \/ Reconnect
              \/ EraseAndAdvance \/ CheckReturns

Next ==
  \/ Join
  \/ \E n \in Node, b \in BindName : Publish(n, b)
  \/ \E c \in Call : UserLookup(c)
  \/ UserFinish
  \/ Run
  \/ DirectoryUpdate
  \/ CopyDeferred
  \/ Check
  \/ Reconnect
  \/ EraseAndAdvance
  \/ CheckReturns

Spec == Init /\ [][Next]_vars

(* The service is run and its loop goes on; a call of connect() finishes.  *)
FairSpec == Spec /\ WF_vars(LoopStep) /\ WF_vars(UserFinish)
-----------------------------------------------------------------------------
(* Each erase finds an element: however often connect() defers again and   *)
(* the user's thread appends, check_deferred() never erases from an empty  *)
(* vector.                                                                 *)
EraseHasAnElement == loop = "erase" => deferred # <<>>

(* Connections plus deferred entries add up to the calls of connect(): a   *)
(* pass over the list neither adds nor drops an entry but for the          *)
(* connections it makes.                                                   *)
Connected == UNION {{c} \X DOMAIN peers[c] : c \in Call}
Accounted ==
  Len(deferred) + Cardinality(Connected) + (IF user = Idle THEN 0 ELSE 1)
    = Cardinality(called) + (IF loop = "erase" THEN 1 ELSE 0)

(* A socket is only ever connected to an endpoint that the directory lists *)
(* and that its lookup matches.                                            *)
ConnectedWhereWanted ==
  \A c \in Call : \A p \in ToSet(peers[c]) :
    p[1] \in Matches[c] /\ p[2] = Wanted[c] /\ p[2] \in published[p[1]]

(* Every node a call may pick has the binding: its lookup cannot miss.     *)
Resolvable(dir, c) == Missing \notin BLookup(dir, c)

(* Where connect() is on the loop's thread, or before run(): between two   *)
(* messages nothing resolvable is waiting in the deferred list without a   *)
(* connection.                                                             *)
NothingResolvableWaits ==
  ~Async /\ loop = "poll" /\ user = Idle =>
    \A c \in ToSet(deferred) : Resolvable(view, c) => peers[c] # <<>>

(* tech_bindconnect.rst:94: a connection that is not available yet is      *)
(* "placed inside a 'deferred' queue, to retry to connect later".          *)
NeverForgotten ==
  \A c \in called : \/ peers[c] # <<>>
                    \/ c \in ToSet(deferred)
                    \/ user # Idle /\ user[1] = c

(* A service with one connect(), on one thread or two: once its call has   *)
(* returned, a directory in its queue that resolves it gets it connected.  *)
(* Directories that PUB drops help nobody, and a call that is deferred too *)
(* late for the last one is EventuallyConnected's.                         *)
LoneCallConnects ==
  \A c \in Call :
    [](called \subseteq {c}) =>
      ((c \in called /\ user = Idle /\ \E dir \in ToSet(updates) : Resolvable(dir, c))
         ~> (peers[c] # <<>>))

(* tests/test_service.hpp:94 waits for it: a connect() whose binding the   *)
(* service's own directory has, and keeps, ends up connected.              *)
EventuallyConnected ==
  \A c \in Call : (c \in called /\ Resolvable(view, c))
                    ~> (peers[c] # <<>> \/ ~Resolvable(view, c))
=============================================================================
