# TLA+ development of n3rv

n3rv is a C++ library for networks of ZeroMQ services. A *service controller* keeps a directory
of the bindings its nodes have opened; every *service* keeps a copy of that directory, resolves
names such as `com.worker.*.jobs` in it, and connects its sockets to what the names resolve to.
Messages, directories and topologies travel as JSON, by a copy of RapidJSON kept in the repository,
or as protobuf. This directory models the protocol, the services, the formats and the programs in
TLA+, checks them with TLC on small instances, and proves the main safety properties of the
protocol with TLAPS for instances of any size.

Paths below are relative to the repository's root; `src/n3rvservice.cpp:566` is file and line, and
`rapidjson/` stands for `src/protocol/json/rapidjson/`.

## 1. The system

| component | state | operations | code |
|---|---|---|---|
| service controller | `directory`, `running`, `topo_`, the REP and PUB sockets | answer a subscription and publish, answer a topology request, `start_controller`, `run`, `stop`, `terminate` | `src/n3rvservicecontroller.*`, `src/n3rvzmq.hpp` |
| registration client | channel 1 (REQ) and 2 (SUB), `connections`, the host's ports | `connect_controller`, `bind`, `subscribe`, `zbind`, `zsockopt`, `fetch_topology` | `src/n3rvservice.cpp:35-61,156-234,379-402,477-512` |
| service connections | `directory` (copy), `deferred`, `connections` | `connect`, `check_deferred`, `directory_update` | `src/n3rvservice.cpp:102-154,550-585` |
| node and binding lookup | none | `nlookup`, `blookup`, `add_scope` | `src/n3rvcommon.cpp`, `src/n3rvservice.cpp:587-601` |
| service run loop | `chmap`, `ml_chmap`, `last_connlist`, `running` | `run`, `refresh_pollitems`, `attach`, `register_main`, `unregister_main`, `send` | `src/n3rvservice.cpp:240-376,520-548` |
| lifecycle | `running`, detached threads, sockets | `run_async`, `stop`, `terminate`, destructors | `src/n3rvservice.cpp:63-66,314-347`, controller likewise |
| topologies | `svclasses` | `parse`, `serialize`, `load`, `load_topology` | `src/n3rvtopology.*`, `src/n3rvservice.cpp:406-473` |
| message protocol | none | `serialize_msg`, `parse_msg`, `serialize_directory`, `parse_directory`, in JSON or protobuf | `src/protocol/` |
| RapidJSON: reader, writer, document, memory, encodings, regular expressions, pointers, schemas | stacks, a pool of chunks, automata, validators | parse, write, build and edit, transcode, compile and match, resolve, validate | `rapidjson/` |
| HTTP gateway | `uri_dir_map`, libevent server | `register_dir`, `attach_http`, `http_gen_callback`, `serve_file` | `src/n3rvhttpservice.hpp` |
| examples | prices, orders, positions; flags of the workers | hooks and receive callbacks | `examples/` |
| logger | level, destinations | `add_dest`, `log` | `src/n3rvlogger.*` |

How they interact:

* **Channel 1**, REQ/REP. `bind()` opens its socket and then sends a `subscribe` request and blocks
  in `recv()` without a timeout; `fetch_topology()` does the same with a `topology` request. The
  controller handles one request at a time: it changes its directory, answers `OK`, sleeps a
  second, and publishes.
* **Channel 2**, PUB/SUB. What is published is the whole directory. ZeroMQ drops it for a subscriber
  that has not joined yet and for one whose queue is full.
* **In the service**, the loop of `run()` receives a published directory, replaces its copy and
  retries the deferred connections. `connect()` looks a name up in the copy and either connects or
  appends to `deferred`. With `run_async()` the two happen on different threads with no lock, and
  so do all calls that change the maps the loop walks.
* **Between programs** every message is a text: events to a writer, its buffer to the socket, the
  text to the reader, the reader's events to a document, whose members are taken out one by one.
* **The HTTP gateway** is a service whose requests come on libevent's thread.

What is hard in it: services that start, stop and restart at any moment while requests of theirs
are under way; publications that some services miss; two threads on one service's lists and
sockets; lookups by regular expression that find more than they name; numbers, strings and blocks
at the width of a type or the end of a buffer; documents edited in place; validators that share
the events of one value. `PROJECT.json` lists the hazards at their lines with the properties that
cover them.

What makes each part correct:

* *controller*: a node has one record, which holds its own bindings and address; a binding whose
  `bind()` returned is listed; every request is answered once; a `stop()` stops.
* *copies of the directory*: each is a state the controller's directory had; a copy never goes back,
  and never mixes two lives of the controller.
* *connections*: every `connect()` is either connected or waiting, and what can be resolved is
  connected; sockets are connected only to what their name says.
* *lookup*: finds what its name documents, and nothing is reported missing that is listed.
* *loop and lifecycle*: what is received from is an open socket, whatever happened to the maps; no
  message and no main-loop callback is left out for ever; `stop()` ends a loop that was entered, and the destructor leaves no socket open.
* *ports*: a port told to the controller is one the socket holds.
* *formats*: what is received is what was sent; parsing is exact; nothing is written past what was
  reserved; an edit changes what it names and nothing else; a validator refuses what its schema does.
* *examples*: an accepted order becomes a position, an order is answered, nobody sends on a socket
  that is not connected or still waits.

## 2. Modules

| module | models | composed with |
|---|---|---|
| `NodeLookup` | `nlookup`, `blookup`, `add_scope` as operators on names | |
| `Resolver` | one service resolving names against a growing directory | extends `NodeLookup` |
| `Directory` | the directory and the controller's two updates of it | |
| `DirectoryService` | abstract: a growing set of endpoints, and what each node knows of it | |
| `ServiceController` | the controller, channels 1 and 2, services that bind, fetch, run and restart | extends `Directory`; implements `DirectoryService` |
| `ControllerLife` | a controller on a thread of a service's process: started, stopped, terminated, killed and started again | |
| `Connections` | one service's `connect()`, deferred list and updates, two threads | |
| `Service` | one service object: its loop, and the user's thread that changes its maps, ports and life | |
| `JsonLexer`, `JsonNumbers`, `JsonReader` | the reader: white space and strings; numbers; both parsers | each extends the one before, `JsonLexer` extends `Utf8` |
| `JsonTexts` | a text typed byte by byte, and what each parser makes of it | extends `JsonReader` |
| `JsonMemory` | the growing stack and the pool of chunks | |
| `Itoa` | the digits of integers of 32 and 64 bits | |
| `JsonWriter` | `Writer` and `PrettyWriter` on a string buffer; a call of a handler's event is `writer' = Write(writer, event)` | extends `JsonLexer`, `JsonMemory`, `Itoa` |
| `JsonDocument` | a document built from events, its accessors, its comparison | extends `JsonNumbers`, `JsonMemory` |
| `JsonValues` | the editing functions of objects and arrays, one action each | extends `JsonDocument`; implements `Members` |
| `Members` | abstract: a bag of members, a sequence of elements, a spare value | |
| `ProtobufWire` | fields as the protobuf library writes and reads them (external) | |
| `Protocol` | both versions of `protocol.cpp`, and the topology's texts | extends `JsonDocument`, `ProtobufWire` |
| `Transmission` | a value on its way from one program's writer to the other's record | extends `JsonReader`, `JsonWriter`, `Protocol` |
| `Utf8`, `JsonEncodings` | the Unicode encodings and the byte streams that detect them | |
| `JsonRegex` | compilation of an expression to an automaton, and its run over a text | extends `Utf8` |
| `JsonPointer` | JSON pointers, and the edits made through them | extends `Utf8` |
| `JsonSchema`, `SchemaExamples` | schemas and the validators that follow a value's events | |
| `HttpGateway` | URIs, directories and files of the gateway, on two threads | |
| `Trading` | the algotrading example: broker, evaluator, executor, money manager | |
| `Requests` | the worker and ping-pong examples | |
| `MCServiceController`, `MCConnections`, `MCService`, `MCJson`, `MCCluster`, `MCHttp` | instances for TLC | `MCServiceController` takes the relation `Hit` from `NodeLookup`; `MCJson` puts several models side by side; `MCCluster` extends `ControllerLife`, `Trading`, `Requests` and `Resolver` and puts `HttpGateway` beside them |
| `ServiceController_proofs`, `Connections_proofs`, `Service_proofs`, `ControllerLife_proofs` | theorems | each extends the module it is about |
| `Json_proofs` | the pool of chunks under any callers, UTF-8, the writer under any calls, strings written and read back, and theorems | extends `JsonWriter` |
| `Examples_proofs` | theorems | extends `Trading` and `Requests` |
| `Resolver_proofs` | dots and terms of an address, the search for one, and theorems | extends `Resolver` |
| `Induction_proofs` | induction over numbers and the existence of recursive functions, as lemmas the provers can use | extended by `Service_proofs`, `Examples_proofs`, `Resolver_proofs` and `Json_proofs` |

Some definitions are marked "Mutation" in their comment: they are a definition of the model changed
as a slip in the code would change it. No specification uses them; `PROJECT.json` names the property
that notices each.

**NodeLookup.** A name is a sequence of symbols. `Found` is `regex_search` for the address with each
`*` turned into `(.*?)`: unanchored, a dot matches any one symbol; it is written as a recursive function
from the symbols of the address read so far to the positions of the text they may have reached. Names are assumed to hold no
other regular-expression operators. `rand()` is a set of possible answers
(the code seeds it with `time(NULL)` at each lookup, so two lookups within a second pick alike; the
model allows more).

**Directory and ServiceController.** A node is one value, and the regular-expression search the
controller makes for a subscribing node is the relation `Hit`: `<<n, m>>` when the search for `n`
finds the record of `m`. The only assumption is that it finds a node's own record. The instances
compute it from concrete names with `NodeLookup`. Actions and code:

| action | code |
|---|---|
| `Bind`, `CallReturns` | `bind()` up to `send()` in `subscribe()`; `recv()` returning |
| `FetchTopology`, `CallReturns` | `fetch_topology()` |
| `Run`, `DirectoryUpdate` | `run()`; the loop receiving on channel 2 |
| `HandleSubscribe` | the controller's loop from `recv()` to `sleep(1)` |
| `PublishDirectory` | from after `sleep(1)` to `zmsock_pub->send()` |
| `HandleTopology` | the `topology` branch |
| `Join`, `Restart` | ZeroMQ's subscription arriving; the process killed and started again |

`HandleSubscribe` is one step because the controller's directory is seen by no other thread. A
service is taken to use a binding name once per life. `Restart` keeps or drops the process's
outstanding request, since ZeroMQ may or may not have delivered it; if it is handled later,
`peer_ip()` reads a descriptor that is closed or belongs to another connection, so any address or
the empty one may result. The branch for fewer than five arguments cannot be reached from
`subscribe()`, which always sends five.

**DirectoryService** states what the controller promises with no messages in it: endpoints get
registered one at a time and stay; what a node knows only grows and stays within what is
registered; a node may start again from nothing. `ImplementsDirectoryService` maps the
controller's directory and the services' copies to it.

**ControllerLife** is the controller as the examples hold it: `start_controller()` starts a thread and
returns before that thread has stored the controller's address, so a `stop()` through the handle may
read an unassigned pointer (`thread = "wild"`). The process that holds it is a service too, and may
be killed; the next life has an empty directory, and requests or answers under way arrive or are
lost. A service whose request is lost waits in `recv()` for ever. `DirectoryUpdate` replaces the copy,
and `Publish` records what each life has published.

**Connections.** `peers[c]` are the endpoints that call `c` of `connect()` has been connected to, and
`deferred` the list. `check_deferred()` is cut into its steps: the copy of the list, one lookup per
entry, the second lookup inside `connect()`, the erase. `res` is the code's `res`; the erase at
`begin() + res` is modelled as written, and past the end, where C++ leaves the behaviour
undefined, as what libstdc++ does when nothing follows: the last element is destroyed. `mode` is how
the program starts its loop: with `run()` the user's calls come before it or from its callbacks; with
`run_async()` (`Async`) the user's thread runs beside the loop, and each access to the shared vectors
takes effect as a whole, which is the best case of the data race. `Publish` is the controller seen from
here: PUB drops a directory for a service that has not joined (`Join`) or whose queue is full, so the
service's copy may lag behind `published` for ever, as in `ServiceController`.

**Service** has what `Connections` leaves out: which sockets exist, what the loop polls, which
callbacks it calls, which ports are held. What a lookup finds is a choice here. `fault` says how the
process died: the model has the deaths of the code (a null socket, a null callback, a closed socket
in `recv()`, an iterator whose entry was erased, a member used after the destructor). `linger` and
`unsent` are what the destructor may have to wait for: `bind()` and `zbind()` set `ZMQ_LINGER` to 0,
`connect()` leaves it at -1, so a message sent on a connected socket stays until its peer takes it
(`Taken`, ZeroMQ's), also when the socket is closed. `~context_t()` returns when no socket is open and
no such message is left.

| action | code |
|---|---|
| `BeginRun`, `TestRunning`, `Poll`, `Dispatch`, `DispatchDone`, `HookDone`, `CallMain`, `Advance` | the loop of `run()`: `running = true`; the test and `refresh_pollitems()`; `zmq::poll()`; one poll item; the end of their loop; `hkloop()`; one entry of `ml_chmap`; the `++` of the range-for |
| `CallConnect`, `Attach`, `RegisterMain`, `UnregisterMain`, `Stop` | the calls of those names |
| `Touch`, `Send` | `zsockopt()`, `get_zsocket()`; `send()` |
| `CallBind`, `BindRandom`, `RetryOtherPort`, `BindErrorDropped` | `bind()` without a port: the socket; a free port; `EADDRINUSE`, where it calls itself; any other error, which it drops |
| `CallBindAt`, `CallZbind` | `bind()` at a port, `zbind()` |
| `LoadTopology`, `LoadBindRandom`, `LoadBind`, `LoadConnect`, `LoadAttach`, `LoadMain` | `load_topology()`, one step for each entry of the class |
| `RunAsync` | `run_async()` |
| `CallTerminate`, `Destroy`, `CloseNext`, `AllClosed`, `ContextDestroyed`, `UseAfterDestroy` | `terminate()`, the destructor, one `close()` of their walk, `~context_t()` |
| `Arrive`, `Taken` | ZeroMQ: a message on an open socket; a peer takes what was sent |

The user's thread runs a program, a sequence of calls. Calls from callbacks on the loop's thread
change the maps at the same points, and are covered by the same actions.

**The JSON modules.** Texts are sequences of bytes. The parsers are operators on a reading (position,
events, first error); both are run over every text that `JsonTexts` types, and over every text that
`Transmission` sends. Integers have `IntBits` and `LongBits` for 32 and 64, and a double is the exact
decimal; rounding is left out. A block of the pool is a chunk and an offset, and values keep their
block and capacity, so that `Realloc` in place and growth by a copy are seen. A writer keeps what it
has reserved, and `PushUnsafe` beyond that fails. In `JsonSchema` a compiled
schema is its place in the schema document; the validator is a stack of contexts, each with its hasher
and its parallel validators, and takes the instance's events one by one, as `schema.h` does. What
the validator should say is defined beside it by recursion over the instance, keyword by keyword
(`Satisfies`), and `Settled` names the documents and instances for which the code promises it (section 4
says what it leaves out). `Fragments` and `Language` give the local references and the regular
expressions in the documents; parsing them is `JsonPointer`'s and `JsonRegex`'s.

**HttpGateway** walks a request's URI part by part, as the loop at `src/n3rvhttpservice.hpp:70-90`
does, with `operator[]` inserting what it looks for; `register_dir()` comes on the other thread
between two parts. Files are sequences of symbols, `BlockSize` is for 1026.

**Trading and Requests** model the hooks and callbacks of the examples with the queues between the
processes, and the connections that may still be deferred when a hook runs.

## 3. Runs

| run | shows | bounds |
|---|---|---|
| `controller` | registration, copies, refinement | 2 services on 1 host, 1 binding name, 2 ports, queue of 2, one service restarts once |
| `controller_live` | calls return, publications arrive | the same without restarts, queue of 1 |
| `controller_prefix` | finding: records shared by names that are prefixes | the same, `a.c.w` and `a.c.w0` |
| `controller_join` | finding: late joiners learn nothing | no restarts |
| `controller_restart` | finding: the dead endpoint of an earlier life is offered first | one restart |
| `connections` | what the deferred list guarantees, with `run()` and with `run_async()` | 2 nodes, 2 binding names, 3 calls, one a wildcard, a queue of 2 |
| `connections_forgotten` | finding: a waiting call is dropped | the same with `run()` |
| `connections_async` | finding: a wake-up is lost between lookup and deferral | 1 call, two threads |
| `service` | what the loop polls, receives and calls while the maps change; ports; topologies; the ends of loop and destructor | 4 handles, two of them the channels; 2 ports, 2 main-loop ids, 3 topologies and none, 13 programs of at most 6 calls |
| `json` | texts, messages, edits, encodings, regular expressions, pointers, schemas | see below |
| `cluster` | a controller's lives, the algotrading example, the request examples, lookups, the gateway | see below |
| `http` | finding: no file of a registered directory arrives whole | a file of 3 symbols, blocks of 2, 5 URIs, 2 entries, 2 requests |

`json` has seven uses, one in each behaviour, and `cluster` five; a property that begins with `use = ...`
is about one of them, and the others rest in an initial state meanwhile.

* *texts*: every text of at most 5 pieces after a seed (3 in strings), for the grammar with and without
  each option, numbers, comments, strings with escapes and UTF-8 at every edge of its table.
  Integers of 5 and 8 bits let a number pass the 32- and 64-bit limits within three digits.
* *transmission*: messages, directories of up to two nodes, topologies of up to two classes, values
  nested twice, strings of two pieces, with JSON and with protobuf. Integers of 29 and 30 bits, because
  TLC's own have 32; the block of 128 after which a newline is appended is 7, so that a few
  messages end on it.
* *values*: four edits of an object, an array and a third value, over chunks of 64 bytes with or without a
  user's buffer of 40: the second growth of a container leaves the chunk.
* *streams*: three code points or units at the edges of every class, in every encoding, with and without
  mark.
* *regex*: every expression of up to 5 tokens from groups, alternation and repetition, every quantifier twice on
  a group, every class, on every text of `a` and `b` up to length 3.
* *pointer*: texts and appended tokens of 5 pieces with an index of 8 bits; three edits through nine
  pointers that nest in each other.
* *schema*: the documents and instances of `SchemaExamples`: every keyword, its combinations by `allOf`,
  `anyOf`, `oneOf`, `not`, dependencies and references, each with instances that it accepts and refuses.
* *life*: two lives of a controller, its owner binds once in each, another service twice, queues of 2.
* *trading*: four prices that may pass every limit, two positions.
* *requests*: two clients and two servers, for each of the three examples.
* *lookup*: three nodes, of which one's name is a prefix of another's and two share all but the namespace,
  with up to two bindings, seven lookups of every form.
* *http*: one request beside two registrations, in the bounds of the run `http`.

Why the bounds are enough. Two services are what it takes for one's subscription to interleave with
the other's and for copies to differ; a queue of two lets a service be behind by more than one
publication and lets a third be dropped; one restart gives a request of an earlier life, a second
subscription of one node and a record with an old endpoint. Three calls let the erase hit an entry
ahead, the entry itself or the end of the list. In `service` the two handles besides the channels are what a retry of
`bind()` needs, or two deferred connections of one wildcard; two main-loop callbacks are a walk with an entry
before and behind the one that changes; the programs put every call before, beside and after the
loop. All bounds are constants or sets of the instances.

`CHECK_DEADLOCK FALSE` is set where programs end: a service with all names bound and all calls made has
nothing left to do, a user's program has a last call, a text a last byte, a controller is killed and not
started again. The runs of `ServiceController` check for deadlock: it never stops.

Fairness. The controller's and the services' loops run for ever and every socket joins, so those
steps are weakly fair. Taking a waiting request is strongly fair, per service: the REP socket takes
its peers' requests in turn, but one other handling may come between. `bind()`, `fetch_topology()`,
`connect()` and `run()` are the user's to call and have none, and a directory that PUB drops is lost. `LoneCallConnects` is about a service
with one call of `connect()`, on either thread, and a directory that is in its queue: with several calls, or after
the last directory was handled, findings 4 and 5 break it. In `Service` the loop's steps are
weakly fair, since `zmq::poll()` has a timeout and callbacks must return
(`src/n3rvservice.hpp:109` says so), and so are the steps of `terminate()` and the destructor
once called; the user's calls and the arrival of messages are not, and no peer has to take what was
sent to it: `DestructorReturns` has that as its condition. In `Trading` the money manager's and
the executor's loops come back to a socket that has a message.

## 4. What the checks found

1. `src/n3rvservicecontroller.cpp:85`: the lookup of a subscribing node is an unanchored search with
   any namespace. A node whose name is a prefix of another's, or that has a namesake in another
   namespace, gets its bindings recorded under the other (`controller_prefix`).
2. `src/n3rvservicecontroller.cpp:121`: nothing sends the directory to a service that joins later
   (`controller_join`).
3. `src/n3rvservicecontroller.cpp:89`: a restarted node's old endpoint stays first
   (`controller_restart`).
4. `src/n3rvservice.cpp:566`: `check_deferred()` erases the wrong entry (`connections_forgotten`).
5. `src/n3rvservice.cpp:149`: a `connect()` beside the loop may be deferred just after the last update
   was handled, and is not looked at again although the service's own directory has its binding
   (`connections_async`).
6. `src/n3rvhttpservice.hpp:38`: `serve_file()` reads blocks of `1024^2` bytes, an exclusive or that is
   1026, and appends a block only when it was read in full: the last part of a file is not sent (`http`).

Seen while modelling. These are in the models as the code has them; the properties say what holds beside
them, and no run is devoted to them.

*Services and controller.*

* `blookup()` picks one matching node at random before it looks for the binding, so with several
  candidates it can miss a binding that `src/n3rvcommon.hpp:112-113` says it would pick among; its
  binding part is compared literally where the same comment allows a glob.
* A `stop()` between `run_async()` and the assignment at `src/n3rvservice.cpp:281` is lost. `StopEndsTheLoop`
  is about a loop that was entered.
* A deferred call that `check_deferred()` connects, but whose entry stays in the list, is connected again
  with the next update: `connect()` takes the handle's socket if it has one. If `terminate()` closed that
  socket meanwhile, the second `connect()` throws in the loop, and nothing catches it.
* `terminate()` beside the loop closes sockets it polls; `recv()` then throws, and nothing catches it. An
  entry whose socket is null, as `zsockopt()` on a deferred handle makes it, ends `terminate()`.
* The destructor can hang. `connect()` (`src/n3rvservice.cpp:125`) never sets `ZMQ_LINGER`, so a message for a
  peer that is gone, or that never came, holds `~context_t()` for ever although every socket is closed.
  A loop that still runs may connect a deferred entry behind the walk of `terminate()`, with the same end.
* `bind()` at a random port drops every error but `EADDRINUSE` and subscribes the binding anyway.
* `register_main()` with a name nobody registered stores a null callback that the loop calls; erasing
  from `ml_chmap` under the range-for of the loop is undefined.
* A topology is a map by class alone: of two namespaces that use one class name the later entry replaces
  the earlier (`src/n3rvtopology.cpp:93`). In `load_topology()` a callback whose uid names nothing
  dereferences a null handle.
* Under protobuf the newline appended to texts whose length is a multiple of 128 is the tag of field 1,
  and what follows it is missing: the parse reports a failure that nothing looks at. In the JSON version
  strings end at a NUL.

*HTTP gateway.* `c_uri` starts as `//` followed by the first part, so a registered URI other than `/`
is never found unless it was registered with two slashes; such a one requested without a slash at the
end makes `substr()` throw. `operator[]` adds every prefix that is asked for, while `register_dir()`
changes the same map on another thread. A block is appended as a C string: up to a NUL, or past the buffer.

*Examples.* The executor sends on its REQ socket whether or not it is connected or waits for an answer
(`examples/algotrading/exec.cpp:35`); either ends the process. The money manager's `RUN_PNL` is not
initialised, it erases positions by the index of a copy, so that wrong ones close, and counts closed
positions until the next price. The worker looks for any ventiler and connects to the one named
`ventiler1`; it computes (n-1)! and overflows `long long`.

*RapidJSON.* A few places where its code is not what its comments or the formats say; n3rv's own messages
do not reach them.

* The iterative parser reports `DocumentEmpty` where the recursive one reports `ValueInvalid`; a lone low
  surrogate escape is encoded as it stands. The SIMD versions of the scans, which the builds do not
  switch on, take 0x19 for the last control character.
* `operator==` on objects with a name twice compares with the first member of that name and may be true,
  where `rapidjson/document.h:848` says it is always false.
* `UTF8::TakeBOM` drops the first bytes of a text that begins like a mark and is none; the detection
  without mark fails for UTF-16 whose second character is at U+0100 or beyond, and for texts below
  four bytes; UTF-32 lets surrogates through.
* Regular expressions: a repetition of what may be empty, `(a*)*`, never leaves `AddState()`; `Search()`
  misses the empty match of an expression once a character was read; `^` and `$` anchor the whole
  expression wherever they are; an unmatched `(`, `x()` and a leading `{2}` fail assertions; an operator
  reaches across `(`; the overflow check of `ParseUnsigned()` misses some values above 2^32.
* Pointers: the overflow check of an index misses, for instance, 6000000000, where the comment on
  `Token` says that such numbers are names only; `Append()` of a name of digits is not an index, and
  differs from its own text parsed again.
* Schemas: with `patternProperties` and `"additionalProperties": false` the value of a name only a pattern
  finds is checked against whatever schema was the last, or none (`rapidjson/schema.h:812`); with an
  `additionalProperties` schema a value that the pattern's schema refuses passes when that one takes it
  (`:647`). The hash of an object is symmetric in name and value (`:201`): for `enum` and
  `uniqueItems`, `{"a":"b"}` equals `{"b":"a"}`, and `{"a":"a"}` equals `{}`; 0 and -0.0 differ. `"items": []`
  counts as no `items`; a circle of `$ref` is followed for ever; a subschema that is no object leaves a
  null pointer behind; a refusal by `additionalItems` is reported as `items`. `Settled` excludes these.

## 5. Proofs

`tlapm` checks every proof from nothing. The theorems hold for every value of the constants that
meets the assumptions the modules name: `HitAssumption` (a lookup of a node finds its own record),
`NoIpAssumption` (the empty string is no address), `HomeAssumption` (each node has an address),
`BoundAssumption` (the queue length is a number), `CallAssumption` (each call selects some nodes and
names a binding; the loop is started by `run()` or `run_async()`; the queue length is a number), `HandleAssumption`, `MainAssumption` and `ProgramAssumption` (handles and main-loop ids
are numbers, so that the maps have an order; 0 is no handle; programs are sequences of the calls there
are), `TopologyAssumption` (the entries of a topology have the form `parse()` gives them),
`LifeAssumption` and `TradingAssumption` (bounds are natural numbers, prices and limits integers, the
controller's owner a service), `MemoryAssumption` (the pool's sizes), `WriterAssumption` (the
indentation and the buffer's capacity are natural numbers), `NamesAssumption` (names and lookups
are sequences of symbols, of which the dot is one) and `TermsAssumption` (a lookup of `connect()` has four
terms at most, and each of the service's own names is one, which is what `add_scope()` counts on). Nothing is assumed of the number of nodes, names, ports, calls, handles,
topologies or restarts.

**ServiceController_proofs.** It begins with lemmas on directories: what the controller's two updates
give, position by position; that `GrowsInto` is reflexive, transitive and followed by both updates; that
a directory that has grown lists every endpoint it listed; that each update lists exactly one more.

* `TypeCorrect`: by itself inductive.
* `CopiesAreSnapshots`, `ViewsGrow`. The invariant is `SnapshotsOf`: a copy grows into each directory
  in the service's queue, those into each later one, and all into the controller's. The order within
  the queue is what makes `directory_update()`'s overwriting safe, so the action property needs it.
* `ChannelsInStep`. The invariant is `InStep` for each service. It says which request is outstanding
  (`Asks`: its binding is the one that is bound and not yet advertised) and that no request claims a
  later life than the present one; without the second part a request of a dead process could pass
  for the new one's after a restart.
* `BindIsListed` uses `InStep` to see that an `OK` is for the binding the service waits on, and
  `GrowsInto` to see that what is listed stays.
* `OneRecord`: a new record is made only when no candidate is found, and a node's own record is one.
* `Implements`: a handled subscription is one `Register`, a received publication one `Learn` (by the
  snapshots invariant), a restart a `Forget`; every other step stutters.
* `ExactLookupKeepsRecords`: under `ExactLookup` the strengthening `OwnRecords` says that the record of
  a node in its first life holds only acknowledged bindings. The binding being subscribed is not one
  of them, so it is not listed yet; a request of an earlier life cannot be the node's first.

**Connections_proofs.**

* `TypeCorrect` and `EraseIsSafe` go together. `PassBounds` says the copy is shorter than the list plus
  the position reached, since a pass erases at most one entry per entry passed and everything else
  appends; the type of `deferred` after an erase needs it.
* `SocketsWhereWanted`: `CopiesListed` says that the directory in use, the updates under way and a
  lookup's result held by the other thread are all within what was published.
* `ResolvableIsConnected`, for programs that call `run()` (`mode` never changes): `PassServes` says that, during a pass, what is still in the
  list is in the copy, and every entry before the position is served. That the wrong entry is erased
  does not matter to it, for the list only gets shorter; that the call erased may never be served is
  `connections_forgotten`.

* `CallsAccounted`, on one thread or two: `Counted` adds that the set of connections is finite; each step of
  `connect()` adds one connection or one entry, and `PassBounds` says the erase finds its entry. That
  connections are counted as a set of pairs, `Connected`, makes the sum a cardinality with no induction.

**Induction_proofs.** The library's induction theorems take an operator, but `WFMin` takes a set:
`SetInduction` and `BoundedInduction` follow from it, and `RecursionExists` says that a function given by
its first value and its steps exists. Every proof about a recursive function goes the same way: the
function exists, so the `CHOOSE` that defines it satisfies its equation; then `BoundedInduction` over its
argument. `SortedKeys` (the keys of a map in order), `RetriedType` and `RevaluationCounts` are proved so.

**Service_proofs.**

* `TypeCorrect` needs `Keys`: the entries of `connections` are the two channels and handles that were
  given out, finitely many, and so is what the deferred list holds; otherwise the walks over the maps
  would not be sequences. `PollitemsType` says that the bound of `refresh_pollitems()`, one less than
  the number of entries, leaves out no entry with a socket.
* `OnlySocketsReceivedFrom`. The invariant is `SocketsTaken`: what a poll item was made from still has
  its socket, and a socket is closed only while or after the user's thread is in `terminate()` or the destructor.
* `AdvertisedPortsAreBound`. `Told` adds that a handle the controller was told, and the one that `bind()`
  works on, wait in no deferred list; a directory update could otherwise open a socket under a handle
  whose port is told.
* `DirectoryStaysReachable`. `ChannelsKept` adds that neither the user nor a topology ever holds
  the handle of a channel.

**ControllerLife_proofs.**

* `StopsAreEffective`. The invariant relates where the thread is, what the handle holds, and how far the owner's call
  is: `AnsweredMeansRunning` says that whoever has an answer has it from a loop that was entered after the
  handle was assigned.
* `ViewsAreOfOneLife`. `PublishedGrow`: each life's publications get strictly longer and hold only bindings of
  that life, so a directory stands at one place only. `DirectoryAhead`: the controller's directory is never
  behind its last publication, and ahead of it when it is about to publish. `UpdatesInOrder`: a service's
  copy and its queue are in the order of lives and publications, whatever was dropped between.

**Examples_proofs.**

* `ClientsSendWhenConnected`. `ClientsInOrder`: a client waits exactly while one request or answer
  of its own is under way, and has a socket as soon as its copy lists a server its `connect()` names.
* `OrdersAccounted`. `OrdersInOrder` adds that the money manager holds exactly one order or answer while the executor
  waits, and none when it is ready. For `update_portfolio()`, `RevaluationCounts` goes through the copy:
  at turn k at least as many positions are held as turns are left, so each erase finds one (the wrong one,
  maybe), and held and closed positions keep their sum.

**Json_proofs.** *The pool.* `JsonMemory` has the pool's functions; here any callers share one pool and call
`Malloc()` with any size, `Realloc()` with any block they have, and give blocks up, in any order
(`PoolSpec`: the documents, values and copies of `JsonDocument` and `JsonValues` are such callers).

* `HeldStayDisjoint`: `Aligned` gives at least the size (`AlignedRoom`); a block of `Malloc()` begins at the
  fill level of its chunk (`MallocBlock`), so all that lie in it are below; one of `Realloc()` stays and
  is no longer, or ends at the fill level and grows, or is a new one (`ReallocBlock`). No block in use is empty,
  so nothing begins at the fill level but what is handed out next. That the caller's idea of the old size may be
  smaller than the block, after a shrinking that the pool ignores, does no harm: such a block
  does not end at the fill level, and is copied.

*UTF-8.* `WellFormed` says by ranges of bytes, as the Unicode standard does, which sequences are UTF-8; the code
has a table of types and masks.

* `ValidatedIsWellFormed`: `Validate()` accepts these and nothing else (`TypeOf`, `ValidatedByType`: what each
  type of first byte asks of the next).
* `DecodedComesBack`: a code point is the digits, base 64, of what `Decode()` took from the bytes (`DecodeIs`),
  and `Encode()` divides it into the same digits (`EncodeTwo`, `EncodeThree`, `EncodeFour`).

*The writer.* `WriterSpec` starts a writer of either kind and gives it any events, well nested or not, and
`GetString()`, in any order.

* `NumbersFit`: a group of digits is four or fewer, and a value of 64 bits has a first group below 1845.
* `WritersAreSound`: the inductive invariant `SoundWriter` is the type of a writer and that no assertion of
  its stack failed. `WriteString()` reserves once and its loop then puts bytes without asking, so the proof
  needs what the loop writes: `CharTurnType` says a turn that takes n bytes of the string writes at most 6n of them, or
  12n for ASCII, `TurnsBound` sums that over the turns by `BoundedInduction`, and the quotes make 2.
* `WrittenInReserve` is `WrittenIsReserved` from it.
* `StringsComeBack` puts the writer's loop and the reader's in step. `PieceRead`: one turn of
  `ParseStringToStream()` undoes one turn of `WriteString()`, by `EscapesAgree` (the two tables of escapes),
  `HexRead` (four digits), `CodepointRead` (an escape, or a pair of surrogates) and `DecodedComesBack`.
  `StepInLock` and `ReadsAlong` go through all turns, and the closing quote ends both. The text before and after the
  string is arbitrary. The reader does not validate encodings, which is how n3rv calls it; then a string that is
  not UTF-8 comes back too, from the UTF-8 writer.

**Resolver_proofs.** The code counts dots and runs a regular expression; the documentation speaks of terms.

* `ScopeStaysTheCallers`. A dot's rank, the number of dots up to it, grows from each to the next
  (`RankStep`, `RankMonotonic`), so there is one dot of each rank (`DotAtIsKth`, `DotAtUnique`) and the
  terms are what lies between. A part without dots and a dot, put in front, moves each cut by its length
  (`PrependedCut`), so it adds one first term and leaves the others alone (`PrependedTerms`).
* `DocumentedNodesAreFound`. `Embedding` is a run of the search: the position in the text before each
  symbol of the address. A run is a match (`EmbeddingFound`, by `BoundedInduction` over the recursive function of
  `Found`), a documented term has a run that covers its text (`GlobEmbeds`), and runs over two texts join
  at the dot (`EmbedsJoined`).
* `DeferredOnlyWhenUnlisted` follows: the one candidate is the documented node, the split at the last dot gives the
  fourth term (`FourTerms`), and `blookup()` compares it with every binding of the node.

The converse is false of the code, and not stated: the search is unanchored and a dot matches any
symbol, so nodes may be candidates that no term names.

### Model-checked only

* Liveness (`EveryCallReturns`, `PublishedReachesJoined`, `LoneCallConnects`, `WaitingIsReceived`,
  `EveryMainRuns`, `StopEndsTheLoop`, `DestructorReturns`, `OrdersAnswered`): fairness and `ENABLED` are out
  of the prover's reach.
* What the parsers, documents, expressions and schemas compute: they are recursive operators on nested values, which
  the prover does not take (`ParsersAgree`, `NumbersAreExact`, `EqualMeansContent`, `AcceptsAsDefined`,
  `EditsKeepMembers`). Of `ReceivedAsSent`, `StringsComeBack` is the part about strings, keys and names; of
  `EncodingsReadBack`, `ValidatedIsWellFormed` and `DecodedComesBack` are the part about UTF-8. The other encodings
  and whole documents are model-checked.
* `BlocksDisjoint` of a document: which blocks a value has is a recursive operator on nested values.
  `HeldStayDisjoint` is the part of it that is about the pool.
* `NeverForgotten`, `EventuallyConnected` and the other properties of the finding runs are false of the code.

## 6. Not modelled, and why

* The logger: a level filter and a list of streams that nothing else reads.
* The set-up of the examples `hello`, `httpserv` and `topology-fetch` beyond what `Service` and
  `HttpGateway` have, and the arithmetic of the factorial, which is a payload.
* Binary floating point: `dtoa.h`, `strtod.h`, `biginteger.h`, `diyfp.h`. It is arithmetic on 64 bits and tables of
  constants, and no message of n3rv holds a double.
* The reader's flags for full precision, numbers as strings, NaN and Inf, and its in-situ mode; the
  writer's doubles and raw values; the file and iostream adapters, which copy bytes and are not used.
* Schemas fetched from elsewhere, for which the program gives no provider, and the handler that may
  follow a validator.
* A sender that is not this library: a request whose action is neither `subscribe` nor `topology` leaves
  the REP socket without an answer and ends the controller's loop.
* ZeroMQ, libevent and the protobuf library themselves: external, from how `src/` uses them.
* Tests, documentation and build files: read for what the program is said to do.

## 7. Plan

What is left is to prove more of what the runs check:

1. `Members`: that an edit changes what it names and nothing else, as a theorem of the abstract module.
2. `HttpGateway`: which entries the walk can leave in `uri_dir_map`.
