----------------------------- MODULE Protocol ------------------------------
(***************************************************************************)
(* Messages, directories and topologies as texts: both versions of         *)
(* protocol.cpp, of src/protocol/json and src/protocol/protobuf, with the  *)
(* parse() and serialize() of                                              *)
(* src/n3rvtopology.cpp.  A build links one of the two versions; a         *)
(* topology is JSON in both.                                               *)
(*                                                                         *)
(* Strings are sequences of bytes.  The names of members, which are        *)
(* constants of the code, are single letters.                              *)
(***************************************************************************)
EXTENDS JsonDocument, ProtobufWire

CONSTANT LengthBlock     \* 128

t128bug(q) == IF Len(q) % LengthBlock = 0 THEN Append(q, 10) ELSE q

\* std::string::c_str() as the functions that take a char* read it.
CString(s) ==
    LET nul == {i \in 1 .. Len(s) : s[i] = 0}
    IN  IF nul = {} THEN s ELSE SubSeq(s, 1, (CHOOSE i \in nul : \A j \in nul : i <= j) - 1)

Joined(ss) == FoldLeft(LAMBDA t, s : t \o s, <<>>, ss)
Each(values, Op(_)) == [i \in DOMAIN values |-> Op(values[i])]

Name == [sender |-> <<115>>, action |-> <<97>>, args |-> <<103>>, payload |-> <<112>>,
         namespace |-> <<110>>, service_class |-> <<99>>, name |-> <<109>>, ip |-> <<105>>,
         bindings |-> <<98>>, port |-> <<111>>, socket_type |-> <<107>>, topology |-> <<116>>,
         binds |-> <<66>>, connects |-> <<120>>, receive_callbacks |-> <<114>>,
         ml_callbacks |-> <<119>>, uid |-> <<117>>, lookup |-> <<108>>, type |-> <<121>>]

\* An assert() of the code has failed.
Aborted == [k |-> "Aborted"]
Checked(strings, arrays, ints, result) ==
    IF \/ \E i \in DOMAIN strings : strings[i] = NoString
       \/ \E i \in DOMAIN arrays : arrays[i].k # "Array"
       \/ \E i \in DOMAIN ints : ints[i] = NoInt
    THEN Aborted ELSE result
Aborts(results) == \E i \in DOMAIN results : results[i] = Aborted

---------------------------------------------------------------------------
(* json/protocol.cpp: the events sent to the writer, and what is taken     *)
(* from the document that was read.                                        *)

Str(s) == [k |-> "String", s |-> CString(s)]
Named(name, s) == <<Str(Name[name]), Str(s)>>
NamedInt(name, n) == <<Str(Name[name]), [k |-> "Int", v |-> n]>>
InObject(events) == <<[k |-> "StartObject"]>> \o events \o <<[k |-> "EndObject"]>>
InArray(events) == <<[k |-> "StartArray"]>> \o events \o <<[k |-> "EndArray"]>>
List(name, values, Op(_)) ==
    <<Str(Name[name])>> \o InArray(Joined(Each(values, Op)))

\* What the code reads of an object, an element or an array.
Field(v, name) == Member(v, Name[name])
Text(v, name) == StringIn(Field(v, name))
Items(v, name, Op(_)) ==
    IF Field(v, name).k = "Array" THEN Each(Field(v, name).e, Op) ELSE <<>>

serialize_msg(msg) ==
    InObject(Named("sender", msg.sender) \o Named("action", msg.action)
             \o List("args", msg.args, LAMBDA a : <<Str(a)>>) \o Named("payload", msg.payload))

parse_msg(v) ==
    LET checked(msg) == Checked(<<msg.sender, msg.action, msg.payload>> \o msg.args,
                                <<Field(v, "args")>>, <<>>, msg)
    IN  checked([k |-> "Message", sender |-> Text(v, "sender"), action |-> Text(v, "action"),
                 args |-> Items(v, "args", StringIn), payload |-> Text(v, "payload")])

serialize_directory(directory) ==
    LET binding(b) == InObject(Named("name", b.name) \o NamedInt("port", b.port)
                               \o NamedInt("socket_type", b.socket_type))
        node(q) == InObject(Named("namespace", q.namespace_)
                            \o Named("service_class", q.service_class)
                            \o Named("name", q.node_name) \o Named("ip", q.ip)
                            \o List("bindings", q.bindings, binding))
    IN  InArray(Joined(Each(directory, node)))

parse_binding(b) ==
    LET checked(r) == Checked(<<r.name>>, <<>>, <<r.port, r.socket_type>>, r)
    IN  checked([name |-> Text(b, "name"), port |-> GetInt(Field(b, "port")),
                 socket_type |-> GetInt(Field(b, "socket_type"))])

parse_node(q) ==
    LET checked(r) ==
            IF Aborts(r.bindings) THEN Aborted
            ELSE Checked(<<r.namespace_, r.service_class, r.node_name, r.ip>>,
                         <<Field(q, "bindings")>>, <<>>, r)
    IN  checked([namespace_ |-> Text(q, "namespace"), service_class |-> Text(q, "service_class"),
                 node_name |-> Text(q, "name"), ip |-> Text(q, "ip"),
                 bindings |-> Items(q, "bindings", parse_binding)])

parse_directory(v) ==
    LET directory(nodes) == IF Aborts(nodes) THEN Aborted
                            ELSE [k |-> "Directory", nodes |-> nodes]
    IN  IF v.k # "Array" THEN Aborted ELSE directory(Each(v.e, parse_node))

---------------------------------------------------------------------------
(* n3rvtopology.cpp.  A topology maps class names to what is known of the  *)
(* class; its std::map is walked in the order of the names.                *)

serialize(svclasses) ==
    LET bind(b) == InObject(Named("name", b.name) \o NamedInt("port", b.port)
                            \o Named("type", b.type))
        connection(c) == InObject(Named("uid", c.uid) \o Named("lookup", c.lookup)
                                  \o Named("type", c.type))
        callback(c) == InArray(<<Str(c.uid), Str(c.callback_name)>>)
        class(s) == LET n == svclasses[s]
                    IN  InObject(Named("namespace", n.namespace_) \o Named("service_class", s)
                                 \o List("binds", n.bindings, bind)
                                 \o List("connects", n.connections, connection)
                                 \o List("receive_callbacks", n.receive_callbacks, callback)
                                 \o List("ml_callbacks", n.ml_callbacks, callback))
        names == SetToSortSeq(DOMAIN svclasses, LAMBDA s, t : s[1] < t[1])
    IN  InObject(List("topology", names, class))

ParseBind(v) ==
    LET checked(r) == Checked(<<r.name, r.type>>, <<>>, <<r.port>>, r)
    IN  checked([name |-> Text(v, "name"), port |-> GetInt(Field(v, "port")),
                 type |-> Text(v, "type")])

ParseConnection(v) ==
    LET checked(r) == Checked(<<r.uid, r.lookup, r.type>>, <<>>, <<>>, r)
    IN  checked([uid |-> Text(v, "uid"), lookup |-> Text(v, "lookup"), type |-> Text(v, "type")])

ParseCallback(v) ==
    LET checked(r) == Checked(<<r.uid, r.callback_name>>, <<>>, <<>>, r)
    IN  IF v.k # "Array" \/ Len(v.e) < 2 THEN Aborted
        ELSE checked([uid |-> StringIn(v.e[1]), callback_name |-> StringIn(v.e[2])])

\* One entry of the text.
ParseClass(v) ==
    LET lists == <<Field(v, "binds"), Field(v, "connects"), Field(v, "receive_callbacks"),
                   Field(v, "ml_callbacks")>>
        checked(r) ==
            IF Aborts(r.bindings \o r.connections \o r.receive_callbacks \o r.ml_callbacks)
            THEN Aborted
            ELSE Checked(<<r.namespace_, Text(v, "service_class")>>, lists, <<>>,
                         [class |-> Text(v, "service_class"), svc |-> r])
    IN  checked([namespace_ |-> Text(v, "namespace"), bindings |-> Items(v, "binds", ParseBind),
                 connections |-> Items(v, "connects", ParseConnection),
                 receive_callbacks |-> Items(v, "receive_callbacks", ParseCallback),
                 ml_callbacks |-> Items(v, "ml_callbacks", ParseCallback)])

\* operator[] of the map replaces an earlier entry of the same class,
\* whatever its namespace.
parse(v) ==
    LET replace(t, e) == (e.class :> e.svc) @@ t
        topology(entries) ==
            IF Field(v, "topology").k # "Array" \/ Aborts(entries) THEN Aborted
            ELSE [k |-> "Topology", svclasses |-> FoldLeft(replace, <<>>, entries)]
    IN  topology(Items(v, "topology", ParseClass))

\* load(): getline() stops after the last line, which is given an end too.
load(file) == Append(file, Newline)

---------------------------------------------------------------------------
(* protobuf/protocol.cpp over n3rvproto.proto. *)

SerializeMsg(msg) ==
    t128bug(BytesField(1, msg.sender) \o BytesField(2, msg.action)
            \o Joined(Each(msg.args, LAMBDA a : BytesField(3, a))) \o BytesField(4, msg.payload))

ParseMsg(text) ==
    LET of(m) == [k |-> "Message", sender |-> Single(m, 1, <<>>), action |-> Single(m, 2, <<>>),
                  args |-> Repeated(m, 3), payload |-> Single(m, 4, <<>>)]
    IN  of(ParseFields(text))

SerializeDirectory(directory) ==
    LET binding(b) == BytesField(6, BytesField(1, b.name) \o IntField(2, b.port)
                                    \o IntField(3, b.socket_type))
        node(q) == BytesField(1, BytesField(1, q.namespace_) \o BytesField(2, q.service_class)
                                 \o BytesField(3, q.node_name) \o BytesField(4, q.ip)
                                 \o Joined(Each(q.bindings, binding)))
    IN  t128bug(Joined(Each(directory, node)))

BindingOf(m) == [name |-> Single(m, 1, <<>>), port |-> Single(m, 2, 0),
                 socket_type |-> Single(m, 3, 0)]
NodeOf(m) == [namespace_ |-> Single(m, 1, <<>>), service_class |-> Single(m, 2, <<>>),
              node_name |-> Single(m, 3, <<>>), ip |-> Single(m, 4, <<>>),
              bindings |-> Each(Repeated(m, 6), LAMBDA s : BindingOf(ParseFields(s)))]

\* The directories a receiver may hold: the library may have added the node
\* it could not read the length of.
ParseDirectory(text) ==
    LET directory(nodes) == [k |-> "Directory", nodes |-> nodes]
        of(m, nodes) == {directory(nodes)} \cup
                        {directory(Append(nodes, NodeOf(ParseFields(<<>>)))) : t \in {1} \cap {m.torn}}
        parsed(m) == of(m, Each(Repeated(m, 1), LAMBDA s : NodeOf(ParseFields(s))))
    IN  parsed(ParseFields(text))
=============================================================================
