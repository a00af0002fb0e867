---------------------------- MODULE HttpGateway ----------------------------
(***************************************************************************)
(* httpservice of n3rvhttpservice.hpp: the user's thread registers         *)
(* directories and attaches callbacks while libevent's thread answers      *)
(* requests, one at a time, by walking the parts of the URI.  Strings are  *)
(* sequences of symbols.                                                   *)
(***************************************************************************)
EXTENDS Integers, SequencesExt

CONSTANTS Uris,         \* URIs that are registered or requested
          Paths,        \* directories of the host
          Files,        \* function from a file's path to its bytes
          BlockSize,    \* 1024^2 of serve_file(), an exclusive or: 1026
          MaxEntries,   \* bound: directories registered
          MaxRequests   \* bound: requests

VARIABLES phase,        \* "new", "initialised", "running"
          attached,     \* URIs of attach_http()
          uri_dir_map,
          request,      \* the request being answered, or none
          reply,        \* the last reply
          served,       \* requests so far
          undefined     \* the map was used by two threads at once, or a
                        \* callback threw

vars == <<phase, attached, uri_dir_map, request, reply, served, undefined>>

Slash == "/"
Nul   == "nul"
NoRequest == [uri |-> <<>>, known |-> <<>>, i |-> 0, c_uri |-> <<>>, pos |-> 0]
NoReply   == [uri |-> <<>>, known |-> <<>>, code |-> 0, data |-> <<>>]

\* std::sregex_token_iterator with -1: what is between the slashes, without
\* an empty last part.
UriParts(uri) ==
    LET cuts  == <<0>> \o SelectSeq([i \in DOMAIN uri |-> i], LAMBDA i : uri[i] = Slash)
                       \o <<Len(uri) + 1>>
        parts == [k \in 1 .. Len(cuts) - 1 |-> SubSeq(uri, cuts[k] + 1, cuts[k + 1] - 1)]
    IN  IF Len(parts) > 1 /\ Last(parts) = <<>> THEN Front(parts) ELSE parts

\* A block is appended as a C string: up to its first NUL, and past its end
\* when it has none.
Appended(block) ==
    IF \E i \in DOMAIN block : block[i] = Nul
    THEN {SubSeq(block, 1, SelectInSeq(block, LAMBDA c : c = Nul) - 1)}
    ELSE {block, Append(block, "garbage")}

\* serve_file(): only blocks that were read in full are appended.
ServeFile(file) ==
    LET block(k) == SubSeq(file, (k - 1) * BlockSize + 1, k * BlockSize)
    IN  FoldLeft(LAMBDA S, k : {s \o t : s \in S, t \in Appended(block(k))}, {<<>>},
                 [k \in 1 .. Len(file) \div BlockSize |-> k])

Init ==
    /\ phase = "new" /\ attached = {} /\ uri_dir_map = <<>>
    /\ request = NoRequest /\ reply = NoReply /\ served = 0 /\ undefined = FALSE

InitHttp ==
    /\ phase = "new" /\ phase' = "initialised"
    /\ UNCHANGED <<attached, uri_dir_map, request, reply, served, undefined>>

\* evhttp_set_cb() of libevent's server, which init_http() makes.
AttachHttp(uri) ==
    /\ phase # "new"
    /\ attached' = attached \cup {uri}
    /\ UNCHANGED <<phase, uri_dir_map, request, reply, served, undefined>>

\* The map is a std::map without a lock, which the callback writes to.
RegisterDir(uri, path) ==
    /\ Cardinality({u \in DOMAIN uri_dir_map : uri_dir_map[u] # <<>>}) < MaxEntries
    /\ uri_dir_map' = uri :> path @@ uri_dir_map
    /\ undefined' \in IF request = NoRequest THEN {undefined} ELSE {undefined, TRUE}
    /\ UNCHANGED <<phase, attached, request, reply, served>>

RunHttpAsync ==
    /\ phase = "initialised" /\ phase' = "running"
    /\ UNCHANGED <<attached, uri_dir_map, request, reply, served, undefined>>

Answer(code, data) ==
    /\ reply' = [uri |-> request.uri, known |-> request.known, code |-> code, data |-> data]
    /\ request' = NoRequest

\* A request for an attached URI goes to its callback, any other to
\* http_gen_callback().
Request(uri) ==
    /\ phase = "running" /\ ~undefined /\ request = NoRequest /\ served < MaxRequests
    /\ served' = served + 1
    /\ IF uri \in attached
       THEN /\ reply' = [uri |-> uri, known |-> <<>>, code |-> 200, data |-> <<"hello">>]
            /\ UNCHANGED request
       ELSE /\ request' = [NoRequest EXCEPT !.uri = uri, !.known = uri_dir_map]
            /\ UNCHANGED reply
    /\ UNCHANGED <<phase, attached, uri_dir_map, undefined>>

\* One part of the URI: operator[] inserts what it does not find, substr()
\* throws past the end.
Part ==
    LET part  == UriParts(request.uri)[request.i + 1]
        c_uri == request.c_uri \o <<Slash>> \o part
        pos   == request.pos + Len(part) + 1
        path  == IF c_uri \in DOMAIN uri_dir_map THEN uri_dir_map[c_uri] ELSE <<>>
        file  == path \o SubSeq(request.uri, pos + 1, Len(request.uri))
    IN  /\ request # NoRequest /\ ~undefined /\ request.i < Len(UriParts(request.uri))
        /\ uri_dir_map' = c_uri :> path @@ uri_dir_map
        /\ undefined' = (path # <<>> /\ pos > Len(request.uri))
        /\ IF path = <<>>
           THEN /\ request' = [request EXCEPT !.i = @ + 1, !.c_uri = c_uri, !.pos = pos]
                /\ UNCHANGED reply
           ELSE IF pos <= Len(request.uri) /\ file \in DOMAIN Files
           THEN \E data \in ServeFile(Files[file]) : Answer(200, data)
           ELSE Answer(404, <<>>)
        /\ UNCHANGED <<phase, attached, served>>

NotFound ==
    /\ request # NoRequest /\ ~undefined /\ request.i = Len(UriParts(request.uri))
    /\ Answer(404, <<>>)
    /\ UNCHANGED <<phase, attached, uri_dir_map, served, undefined>>

Next ==
    \/ InitHttp \/ RunHttpAsync
    \/ \E uri \in Uris : AttachHttp(uri)
    \/ \E uri \in Uris, path \in Paths : RegisterDir(uri, path)
    \/ \E uri \in Uris : Request(uri)
    \/ Part
    \/ NotFound
---------------------------------------------------------------------------
Root(uri) == IF Last(uri) = Slash THEN uri ELSE Append(uri, Slash)

\* register_dir(): "Adds a new FS directory to recursively serve files that
\* are inside", the URI being the "root URI of files to serve": a file of a
\* directory registered when its request arrived is sent, the whole of it.
RegisteredIsServed ==
    \A uri \in DOMAIN reply.known :
        LET file == reply.known[uri] \o SubSeq(reply.uri, Len(Root(uri)) + 1, Len(reply.uri))
        IN  reply.known[uri] # <<>> /\ IsPrefix(Root(uri), reply.uri) /\ file \in DOMAIN Files
            => reply.code = 200 /\ reply.data = Files[file]
=============================================================================
