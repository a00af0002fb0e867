--------------------------- MODULE Transmission ----------------------------
(***************************************************************************)
(* From one program to the other: a message, a directory or a topology is  *)
(* written call by call, its text is sent, read, built into a document     *)
(* event by event and taken apart.  With protobuf the library does the     *)
(* steps in between.                                                       *)
(***************************************************************************)
EXTENDS JsonReader, JsonWriter, Protocol

CONSTANT Jobs       \* records [kind, value, via, pretty, unicode]

\* The writer of the sending program is the variable of JsonWriter.
VARIABLES job,      \* what is sent
          stage,    \* "writing", "sent", "building", "received"
          calls,    \* the calls of the writer still to come, then the events
          text,     \* the text
          document, \* the document of the receiving program
          received  \* what the receiver made of it

vars == <<job, stage, calls, writer, text, document, received>>

Nothing == [k |-> "Nothing"]

Calls(j) == CASE j.kind = "message"   -> serialize_msg(j.value)
              [] j.kind = "directory" -> serialize_directory(j.value)
              [] j.kind = "topology"  -> serialize(j.value)
              [] OTHER                -> j.value

Start(j) ==
    /\ job = j
    /\ stage = "writing"
    /\ calls = IF j.via = "protobuf" THEN <<>> ELSE Calls(j)
    /\ writer = NewWriter(j.pretty, j.unicode)
    /\ text = <<>> /\ document = NewDocument /\ received = Nothing

Init == \E j \in Jobs : Start(j)

\* One call of serialize_msg(), serialize_directory() or serialize().
WriteCall ==
    /\ stage = "writing" /\ calls # <<>>
    /\ writer' = Write(writer, Head(calls))
    /\ calls' = Tail(calls)
    /\ UNCHANGED <<job, stage, text, document, received>>

\* The text in the buffer becomes the message, or the answer to a topology
\* request, or the file a topology is loaded from.
SendText ==
    /\ stage = "writing" /\ calls = <<>> /\ job.via # "protobuf"
    /\ writer' = GetString(writer)
    /\ LET written == writer'.os.data
       IN  text' = CASE job.kind \in {"message", "directory"} -> t128bug(written)
                     [] job.via = "file" -> load(written)
                     [] OTHER -> written
    /\ stage' = "sent"
    /\ UNCHANGED <<job, calls, document, received>>

SendProtobuf ==
    /\ stage = "writing" /\ job.via = "protobuf"
    /\ text' = IF job.kind = "message" THEN SerializeMsg(job.value)
               ELSE SerializeDirectory(job.value)
    /\ stage' = "sent"
    /\ UNCHANGED <<job, calls, writer, document, received>>

\* Parse<0>(): the reader's events, which the document will handle.
ReadText ==
    /\ stage = "sent" /\ job.via # "protobuf"
    /\ \E r \in {Parse([text |-> text, flags |-> {}])} :
          calls' = r.ev /\ document' = [document EXCEPT !.err = r.err]
    /\ stage' = "building"
    /\ UNCHANGED <<job, writer, text, received>>

Build ==
    /\ stage = "building" /\ calls # <<>>
    /\ document' = Handle(document, Head(calls))
    /\ calls' = Tail(calls)
    /\ UNCHANGED <<job, stage, writer, text, received>>

Extract ==
    /\ stage = "building" /\ calls = <<>>
    /\ document' = Finish(document, document.err)
    /\ LET root == document'.root
       IN  received' = CASE job.kind = "message"   -> parse_msg(root)
                         [] job.kind = "directory" -> parse_directory(root)
                         [] job.kind = "topology"  -> parse(root)
                         [] OTHER -> [k |-> "Events", events |-> Accept(root)]
    /\ stage' = "received"
    /\ UNCHANGED <<job, calls, writer, text>>

ReceiveProtobuf ==
    /\ stage = "sent" /\ job.via = "protobuf"
    /\ received' \in IF job.kind = "message" THEN {ParseMsg(text)} ELSE ParseDirectory(text)
    /\ stage' = "received"
    /\ UNCHANGED <<job, calls, writer, text, document>>

Next == WriteCall \/ SendText \/ SendProtobuf \/ ReadText \/ Build \/ Extract \/ ReceiveProtobuf

---------------------------------------------------------------------------
(* Properties. *)

\* The JSON versions pass strings as char*, the protobuf ones as they are.
RECURSIVE Cut(_)
Cut(v) == [f \in DOMAIN v |->
              CASE f \in {"port", "socket_type", "k"} -> v[f]
                [] f = "args" -> Each(v[f], CString)
                [] f \in {"bindings", "connections", "receive_callbacks", "ml_callbacks"} ->
                      Each(v[f], Cut)
                [] OTHER -> CString(v[f])]

\* A writer's call and the event it is read back as differ in the type of a
\* number (an int that is not negative is read as unsigned and given as the
\* narrowest type it has), in Key for String, and in the counts.
Meaning(event) ==
    CASE event.k \in {"Int", "Uint", "Int64", "Uint64"} -> [v |-> event.v]
      [] event.k \in {"Key", "String"} -> [s |-> event.s]
      [] OTHER -> [k |-> event.k]

BlankNode(node) == node.service_class = <<>> /\ node.node_name = <<>> /\ node.bindings = <<>>

\* What is received is what was sent: whatever bytes a name or a payload
\* holds, through quotes, escapes and (ASCII target) surrogate pairs,
\* whatever the length of the text and the newline t128bug() puts after it,
\* the writer finds every End at its Start and ends with one value, the
\* reader finds the same fields, and no assertion of either side fails.
\* The code keeps two exceptions: a string that holds a NUL ends there on the
\* JSON side, and a protobuf directory with that newline may come with a
\* blank node more.
ReceivedAsSent ==
    stage = "received" =>
        /\ job.via # "protobuf" => /\ writer.ok /\ IsComplete(writer)
                                  /\ document.err = "None" /\ ~document.stack.failed
        /\ CASE job.kind = "message" ->
                    received = [k |-> "Message"] @@
                               (IF job.via = "protobuf" THEN job.value ELSE Cut(job.value))
              [] job.kind = "directory" /\ job.via = "protobuf" ->
                    /\ received.k = "Directory"
                    /\ \/ received.nodes = job.value
                       \/ /\ Len(text) % LengthBlock = 1
                          /\ Front(received.nodes) = job.value
                          /\ BlankNode(Last(received.nodes))
              [] job.kind = "directory" ->
                    received = [k |-> "Directory", nodes |-> Each(job.value, Cut)]
              [] job.kind = "topology" ->
                    received = [k |-> "Topology",
                                svclasses |-> [c \in DOMAIN job.value |-> Cut(job.value[c])]]
              [] OTHER -> Each(received.events, Meaning) = Each(job.value, Meaning)
=============================================================================
