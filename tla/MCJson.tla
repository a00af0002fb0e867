------------------------------- MODULE MCJson ------------------------------
(***************************************************************************)
(* The uses of the JSON code side by side, one per behaviour: texts read   *)
(* by both parsers (JsonTexts), the message protocol from writer to reader *)
(* (Transmission, extended), the edits of a document (JsonValues), the     *)
(* encodings of a byte stream (JsonEncodings), regular expressions         *)
(* (JsonRegex), pointers into a document (JsonPointer) and schemas         *)
(* (JsonSchema).  The widths of the numbers are small in the first, the    *)
(* third and the last two, for texts to cross them within a few digits; a  *)
(* use that is not the behaviour's rests in one of its initial states.     *)
(***************************************************************************)
EXTENDS Transmission

VARIABLES use,                                      \* the use of this behaviour
          script, typedText, typed, read, iterated, \* of JsonTexts
          object, array, spare, pool, call, edits,  \* of JsonValues
          stream, points, bytes,                    \* of JsonEncodings
          expression, tokens, regex,                \* of JsonRegex
          task, source, pointer, root, hand, edit, count,   \* of JsonPointer
          schemaDocument, instance, fed, validator                \* of JsonSchema

Chars(S) == {<<c>> : c \in S}

(* Texts: numbers, the grammar with and without its options, strings.      *)

NumberTexts == [seed |-> <<>>, more |-> 5, flags |-> {},
                pieces |-> Chars({48, 49, 50, 51, 53, 54, 56, 57, Minus, Point, 101})]

Grammar(flags) == [seed |-> <<>>, more |-> 5, flags |-> flags,
                   pieces |-> Chars({LBracket, RBracket, LBrace, RBrace, Comma, Colon, Space, 49})
                              \cup {<<Quote, 97, Quote>>, <<110, 117, 108, 108>>, <<102, 97>>}]

CommentTexts == [seed |-> <<LBracket, 49>>, more |-> 4, flags |-> {"Comments"},
                 pieces |-> Chars({RBracket, Comma, Slash, Star, 49, Newline})
                            \cup {<<Slash, Star>>, <<Star, Slash>>, <<Slash, Slash>>}]

Hex4(a, b, c, d) == <<Backslash, LowerU, a, b, c, d>>
StringTexts(flags) ==
    [seed |-> <<Quote>>, more |-> 3, flags |-> flags,
     pieces |-> {<<Quote>>, <<97>>, <<10>>, <<31>>, <<Backslash, 110>>, <<Backslash, 120>>,
                 Hex4(48, 48, 101, 57), Hex4(68, 56, 51, 68), Hex4(68, 69, 48, 48),
                 Hex4(68, 66, 70, 70), Hex4(68, 70, 70, 70), Hex4(48, 48, 71, 48),
                 <<195>>, <<169>>, <<192, 128>>, <<195, 169>>, <<224, 128, 128>>, <<224, 160, 128>>,
                 <<237, 159, 191>>, <<237, 160, 128>>, <<240, 128, 128, 128>>,
                 <<240, 144, 128, 128>>, <<244, 143, 191, 191>>, <<244, 144, 128, 128>>}]

TextsUsed == {NumberTexts, Grammar({}), Grammar({"StopWhenDone"}), Grammar({"TrailingCommas"}),
              CommentTexts, StringTexts({}), StringTexts({"ValidateEncoding"})}

T == INSTANCE JsonTexts WITH
        Scripts <- TextsUsed, text <- typedText,
        IntBits <- 5, LongBits <- 8, SignificandDigits <- 4, FastLimit <- 15,
        HugeDouble <- 1000, MaxExponent <- 12, HugeExponent <- 1000

(* Edits. *)

ScalarsUsed == {[k |-> "Number", v |-> 1, p |-> 0, flags |-> {"Int", "Uint", "Int64", "Uint64"}],
                [k |-> "String", s |-> <<97, 98, 99>>, at |-> Nowhere]}

V == INSTANCE JsonValues WITH
        Names <- Chars({97, 98}), Scalars <- ScalarsUsed,
        ChunkCapacity <- 64, DefaultCapacity <- 1, UserBuffers <- {0, 40}, MaxEdits <- 4,
        IntBits <- 5, LongBits <- 8, FastLimit <- 15, HugeDouble <- 1000

(* Messages, directories, topologies and values that are sent. *)

Bytes == {<<>>, <<97>>, <<Quote, Backslash>>, <<1, 10, 11, 31>>, <<195, 169>>, <<98, 0, 97>>}
Messages == [sender : {<<97>>, <<1, 10>>}, action : {<<98>>},
             args : {<<>>, <<<<Quote>>>>, <<<<97>>, <<195, 169>>>>}, payload : Bytes]
Bindings == {<<>>, <<[name |-> <<98>>, port |-> 65535, socket_type |-> 4]>>,
             <<[name |-> <<98>>, port |-> 0, socket_type |-> 1],
               [name |-> <<>>, port |-> 300, socket_type |-> 8]>>}
ANode(b) == [namespace_ |-> <<110>>, service_class |-> <<99>>, node_name |-> <<101>>,
             ip |-> <<49, 46, 49>>, bindings |-> b]
Directories == {<<>>} \cup {<<ANode(b)>> : b \in Bindings}
                      \cup {<<ANode(b), ANode(c)>> : b, c \in Bindings}
AClass == [namespace_ |-> <<110>>, bindings |-> <<[name |-> <<98>>, port |-> 0, type |-> <<80>>]>>,
           connections |-> <<[uid |-> <<99>>, lookup |-> <<97>>, type |-> <<83>>]>>,
           receive_callbacks |-> <<[uid |-> <<99>>, callback_name |-> <<100>>]>>,
           ml_callbacks |-> <<>>]
Topologies == {<<>>, <<97>> :> AClass,
               (<<97>> :> AClass) @@ (<<98>> :> [AClass EXCEPT !.connections = <<>>])}

Wide == 2 ^ (IntBits - 1)
Integers_ == [k : {"Int"}, v : {0, 9, 10, 99, 100, 9999, 10000, 12345678, 99999999, 100000000,
                                Wide - 1, -1, -Wide}]
        \cup [k : {"Uint"}, v : {Wide - 1, Wide, 2 * Wide - 1}]
        \cup [k : {"Int64"}, v : {2 * Wide, 2 * Wide - 1, -Wide - 1, -2 * Wide}]
        \cup [k : {"Uint64"}, v : {2 * Wide, 4 * Wide - 1, Wide}]
Values == {<<i>> : i \in Integers_}
     \cup {<<[k |-> k]>> : k \in {"Null", "True", "False"}}
     \cup {InArray(<<>>), InObject(<<>>),
           InArray(<<[k |-> "Null"]>> \o InObject(<<[k |-> "Key", s |-> <<97>>], [k |-> "True"]>>)
                   \o <<[k |-> "False"]>>)}
Pieces == Chars({97, 1, 10, Quote}) \cup
          {<<195, 169>>, <<237, 159, 191>>, <<224, 160, 128>>, <<240, 144, 128, 128>>,
           <<244, 143, 191, 191>>}
StringValues == {<<[k |-> "String", s |-> s \o t]>> : s, t \in Pieces}

Job(kind, via, values, unicode) ==
    {[kind |-> kind, via |-> via, value |-> v, pretty |-> kind # "value", unicode |-> u] :
        v \in values, u \in unicode}
JobsUsed ==
    UNION {Job("message", via, Messages, {TRUE}) : via \in {"json", "protobuf"}}
    \cup UNION {Job("directory", via, Directories, {TRUE}) : via \in {"json", "protobuf"}}
    \cup UNION {Job("topology", via, Topologies, {TRUE}) : via \in {"json", "file"}}
    \cup Job("value", "json", Values, {TRUE})
    \cup Job("value", "json", StringValues, BOOLEAN)

(* Streams: every encoding read in every way, and units that are no text. *)

UnitsUsed ==
    [UTF8  |-> {0, 127, 128, 143, 144, 159, 160, 191, 193, 194, 224, 237, 240, 244, 245},
     UTF16 |-> {97, 55295, 55296, 56319, 56320, 57343, 57344, 65535},
     UTF32 |-> {97, 55296, 65536, 1114111, 1114112, 2130706432},
     ASCII |-> {0, 97, 127, 128, 255}]

E == INSTANCE JsonEncodings WITH
        Points <- {34, 49, 233, 256, 61440, 65279, 65536, 1114111},
        RawUnits <- UnitsUsed, MaxWrites <- 3

(* Expressions: groups and repetitions nested, copies of them, classes. *)

AtomsUsed ==
       (<<97>> :> {97}) @@ (<<98>> :> {98}) @@ (<<195, 169>> :> {233}) @@ (<<46>> :> {97, 98, 233})
    @@ (<<92, 42>> :> {})                               \* \*
    @@ (<<91, 97, 45, 98, 93>> :> {97, 98})             \* [a-b]
    @@ (<<91, 94, 97, 93>> :> {98, 233})                \* [^a]
    @@ (<<91, 94, 98, 45, 93>> :> {97, 233})            \* [^b-]
    @@ (<<91, 45, 98, 97, 93>> :> {97, 98})             \* [-ba]
QuantifiersUsed ==
       (<<42>> :> <<0, -1>>) @@ (<<43>> :> <<1, -1>>) @@ (<<63>> :> <<0, 1>>)
    @@ (<<123, 50, 125>> :> <<2, 2>>) @@ (<<123, 50, 44, 125>> :> <<2, -1>>)
    @@ (<<123, 49, 44, 51, 125>> :> <<1, 3>>) @@ (<<123, 48, 44, 50, 125>> :> <<0, 2>>)
ExpressionsUsed ==
    {[seed |-> <<>>, more |-> 5, tokens |-> Chars({40, 41, 42, 63, 97, 98, 124})],
     [seed |-> <<<<40>>, <<97>>>>, more |-> 4, tokens |-> DOMAIN QuantifiersUsed \cup Chars({41, 98, 124})],
     [seed |-> <<>>, more |-> 3,
      tokens |-> DOMAIN AtomsUsed \cup Chars({36, 42, 92, 94, 124})
                 \cup {<<91, 93>>, <<123, 49>>, <<123, 48, 125>>}]}

X == INSTANCE JsonRegex WITH
        Atoms <- AtomsUsed, Quantifiers <- QuantifiersUsed, Expressions <- ExpressionsUsed,
        Subjects <- UNION {[1 .. n -> {97, 98}] : n \in 0 .. 3} \cup {<<233>>, <<97, 233>>}

(* Pointers: texts and appended tokens, and edits through nested pointers. *)

PointerTasks ==
    {[pieces  |-> Chars({47, 97, 48, 54, 126, 35, 37, 32, 195}) \cup
                  {<<50, 53>>, <<126, 48>>, <<126, 49>>, <<195, 169>>,
                   <<37, 52, 49>>, <<37, 50, 70>>, <<37, 55, 69>>, <<37, 48, 48>>,
                   <<37, 67, 51>>, <<37, 67, 51, 37, 97, 57>>},   \* %41 %2F %7E %00 %C3 %C3%a9
      names   |-> {<<>>, <<97>>, <<48>>, <<47, 126>>, <<195>>, <<195, 169>>},
      indices |-> {0, 7, 25, 254}, more |-> 5, edits |-> 0],
     [pieces |-> {}, names |-> {}, indices |-> {}, more |-> 0, edits |-> 3]}

P == INSTANCE JsonPointer WITH
        IndexBits <- 8, Tasks <- PointerTasks,
        Pointers <- {<<>>, <<47, 97>>, <<47, 48>>, <<47, 49>>, <<47, 45>>, <<47, 97, 47, 49>>,
                     <<47, 97, 47, 45>>, <<47, 48, 47, 97>>, <<47, 97, 47, 98>>},
        Givens <- {[k |-> "Number", items |-> <<>>],
                   [k |-> "Array", items |->
                       <<[name |-> <<>>, value |-> [k |-> "Null", items |-> <<>>]],
                         [name |-> <<>>, value |-> [k |-> "True", items |-> <<>>]]>>]}

(* Schemas, with instances that each of them accepts or refuses. *)

D == INSTANCE SchemaExamples
Z == INSTANCE JsonSchema WITH
        Documents <- D!DocumentsUsed, Instances <- D!InstancesUsed, Fragments <- D!FragmentsUsed,
        Language <- D!LanguageUsed, CodePoints <- D!CodePointsUsed, LongMax <- 7

---------------------------------------------------------------------------
textVars == <<script, typedText, typed, read, iterated>>
valueVars == <<object, array, spare, pool, call, edits>>
streamVars == <<stream, points, bytes>>
regexVars == <<expression, tokens, regex>>
pointerVars == <<task, source, pointer, root, hand, edit, count>>
schemaVars == <<schemaDocument, instance, fed, validator>>
allVars == <<use, vars, textVars, valueVars, streamVars, regexVars, pointerVars, schemaVars>>

JsonInit ==
    /\ use \in {"texts", "transmission", "values", "streams", "regex", "pointer", "schema"}
    /\ IF use = "texts" THEN T!Init ELSE T!Start(CommentTexts, CommentTexts.seed)
    /\ IF use = "transmission" THEN Init ELSE Start(CHOOSE j \in Jobs : j.via = "protobuf")
    /\ V!Init /\ (use = "values" \/ pool = <<>>)
    /\ IF use = "streams" THEN E!Init ELSE E!Open(CHOOSE s \in E!Streams : s.raw)
    /\ IF use = "regex" THEN X!Init ELSE X!Begin(CHOOSE e \in ExpressionsUsed : e.more = 5)
    /\ IF use = "pointer" THEN P!Init ELSE P!Begin(CHOOSE k \in PointerTasks : k.edits = 0)
    /\ IF use = "schema" THEN Z!Init ELSE Z!Begin(D!Type("integer"), D!Null)

JsonNext ==
    \/ use = "texts" /\ T!Next
       /\ UNCHANGED <<use, vars, valueVars, streamVars, regexVars, pointerVars, schemaVars>>
    \/ use = "transmission" /\ Next
       /\ UNCHANGED <<use, textVars, valueVars, streamVars, regexVars, pointerVars, schemaVars>>
    \/ use = "values" /\ V!Next
       /\ UNCHANGED <<use, vars, textVars, streamVars, regexVars, pointerVars, schemaVars>>
    \/ use = "streams" /\ E!Next
       /\ UNCHANGED <<use, vars, textVars, valueVars, regexVars, pointerVars, schemaVars>>
    \/ use = "regex" /\ X!Next
       /\ UNCHANGED <<use, vars, textVars, valueVars, streamVars, pointerVars, schemaVars>>
    \/ use = "pointer" /\ P!Next
       /\ UNCHANGED <<use, vars, textVars, valueVars, streamVars, regexVars, schemaVars>>
    \/ use = "schema" /\ Z!Next
       /\ UNCHANGED <<use, vars, textVars, valueVars, streamVars, regexVars, pointerVars>>

JsonSpec == JsonInit /\ [][JsonNext]_allVars

\* Texts: both parsers (Parse and IterativeParse of reader.h) accept the same
\* texts, send the same events and stop at the same byte.
ParsersAgree == use = "texts" => T!ParsersAgree

\* Texts: ParseNumber delivers the number that is written, in the narrowest
\* type that holds it.
NumbersAreExact == use = "texts" => T!NumbersAreExact

\* Streams, texts and pointers: what a stream of any encoding is read as is
\* what was written to it, what is validated, by the encoding or by the parser
\* under kParseValidateEncoding, is Unicode, and the text and the URI fragment
\* that Stringify writes of a pointer are parsed to the same pointer.
EncodingsReadBack ==
    /\ use = "texts" => T!ValidatedIsUnicode
    /\ use = "streams" => E!EncodingsReadBack
    /\ use = "pointer" => P!PointersReadBack

\* Expressions and schemas: Match and Search find what the expression says; a
\* validator refuses what the schema does, and reports what is at fault.
AcceptsAsDefined ==
    /\ use = "regex" => X!RegexMatchesLanguage
    /\ use = "schema" => Z!VerdictIsRight

\* Edits: AddMember, RemoveMember, Erase and the others do to the members
\* what they say, and an edit through a pointer changes the value the
\* pointer leads to and none beside it.
EditsKeepMembers == V!EditsKeepMembers /\ P!PointerEditsInPlace

\* Edits: no two blocks the pool has given out overlap.
BlocksDisjoint == use = "values" => V!BlocksDisjoint

\* Edits: operator== compares the contents of two values.
EqualMeansContent == use = "values" => V!EqualMeansContent
=============================================================================
