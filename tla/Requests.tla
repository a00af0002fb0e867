------------------------------ MODULE Requests ------------------------------
(***************************************************************************)
(* The request and answer examples: a client asks on a REQ socket from its *)
(* hkloop() and takes the answer in a receive callback, a flag between the *)
(* two.  workers-single-factorial: workers ask the one named ventiler for  *)
(* a single piece of work, and look for any ventiler before they do.       *)
(* workers-single-factorial-hctl: they connect to any.  topology-load and  *)
(* topology-fetch: ping and pong, for ever.                                *)
(***************************************************************************)
CONSTANTS Client, Server,
          Named        \* the server "worker" connects to

Programs == {"worker", "worker-hctl", "ping"}

VARIABLES program,
          listed,      \* servers in the controller's directory
          known,       \* those in each client's copy
          peer,        \* the server each client is connected to, or none yet
          busy,        \* working, plock
          socket,      \* each client's REQ socket: "ready", "waiting"; or the client is "dead"
          asked,       \* requests on their way: clients
          answered     \* answers on their way: clients
requestVars == <<program, listed, known, peer, busy, socket, asked, answered>>

NoPeer == {}

\* The servers the connect() of a program names, of those in a directory.
Connectable(servers) == IF program = "worker" THEN servers \cap {Named} ELSE servers

RequestsInit ==
    /\ program \in Programs
    /\ listed = {} /\ known = [c \in Client |-> {}] /\ peer = [c \in Client |-> NoPeer]
    /\ busy = [c \in Client |-> FALSE] /\ socket = [c \in Client |-> "ready"]
    /\ asked = {} /\ answered = {}

\* A server's bind().
Bind(s) ==
    /\ s \notin listed /\ listed' = listed \cup {s}
    /\ UNCHANGED <<program, known, peer, busy, socket, asked, answered>>

\* Mutation: the deferred connection waits for a later message.
UpdateOnly(c) ==
    /\ known[c] # listed /\ known' = [known EXCEPT ![c] = listed]
    /\ peer' = IF known[c] = {} THEN peer
               ELSE [peer EXCEPT ![c] = IF @ = NoPeer THEN Connectable(listed) ELSE @]
    /\ UNCHANGED <<program, listed, busy, socket, asked, answered>>

\* directory_update(): the copy and the connection that was deferred, to one of
\* the servers its address finds, in one callback before the next hkloop().
Update(c) ==
    /\ known[c] # listed /\ known' = [known EXCEPT ![c] = listed]
    /\ \E p \in {{s} : s \in Connectable(listed)} \cup {NoPeer} :
          /\ p = NoPeer <=> (Connectable(listed) = {} \/ peer[c] # NoPeer)
          /\ peer' = [peer EXCEPT ![c] = IF p = NoPeer THEN @ ELSE p]
    /\ UNCHANGED <<program, listed, busy, socket, asked, answered>>

\* hkloop(): blookup() of any server; sending on a null socket or on one that
\* waits for its answer is the client's end.
Wants(c) == known[c] # {} /\ ~busy[c]
Hkloop(c) ==
    /\ Wants(c) /\ socket[c] # "dead"
    /\ IF peer[c] # NoPeer /\ socket[c] = "ready"
       THEN /\ socket' = [socket EXCEPT ![c] = "waiting"] /\ asked' = asked \cup {c}
            /\ busy' = [busy EXCEPT ![c] = TRUE]
       ELSE socket' = [socket EXCEPT ![c] = "dead"] /\ UNCHANGED <<asked, busy>>
    /\ UNCHANGED <<program, listed, known, peer, answered>>

\* wl_dist(), ping_received().
Serve(c) ==
    /\ c \in asked
    /\ asked' = asked \ {c} /\ answered' = answered \cup {c}
    /\ UNCHANGED <<program, listed, known, peer, busy, socket>>

\* runwork() keeps working set, pong_received() clears plock.
TakeAnswer(c) ==
    /\ c \in answered /\ socket[c] = "waiting"
    /\ answered' = answered \ {c} /\ socket' = [socket EXCEPT ![c] = "ready"]
    /\ busy' = [busy EXCEPT ![c] = program # "ping"]
    /\ UNCHANGED <<program, listed, known, peer, asked>>

RequestsNext == \/ \E s \in Server : Bind(s)
        \/ \E c \in Client : Update(c) \/ Hkloop(c) \/ Serve(c) \/ TakeAnswer(c)

RequestsSpec == RequestsInit /\ [][RequestsNext]_requestVars

---------------------------------------------------------------------------
\* A client never sends on a socket that is not connected or waits for an
\* answer, with one exception: a worker whose named ventiler is not there yet
\* while hkloop() finds another one (its test names any, its connect() one).
SendsWhenConnected ==
    \A c \in Client : /\ socket[c] = "dead" => program = "worker" /\ ~(listed \subseteq {Named})
                      /\ c \in asked \cup answered <=> socket[c] = "waiting"
=============================================================================
