---------------------------- MODULE JsonReader ----------------------------
(***************************************************************************)
(* The two parsers of src/protocol/json/rapidjson/reader.h: the recursive  *)
(* descent of Parse(), which n3rv uses (Document::Parse<0>), and the       *)
(* state machine of IterativeParse().                                      *)
(***************************************************************************)
EXTENDS JsonNumbers

Literals == (110 :> [letters |-> NullLetters, event |-> [k |-> "Null"]])
         @@ (116 :> [letters |-> TrueLetters, event |-> [k |-> "True"]])
         @@ (102 :> [letters |-> FalseLetters, event |-> [k |-> "False"]])

Blank(x, r) == SkipWhitespaceAndComments(x, r)
Trailing(x, r, c) == "TrailingCommas" \in x.flags /\ Peek(x, r.at) = c

RECURSIVE ParseValue(_, _)
RECURSIVE ParseMembers(_, _, _)
RECURSIVE ParseElements(_, _, _)

\* The loop of ParseObject after n members: a name, a colon, a value.
ParseMembers(x, r, n) ==
    LET end == [k |-> "EndObject", n |-> n + 1]
        comma(next) == CASE Failed(next) -> next
                         [] Trailing(x, next, RBrace) -> Emit(Take(next), end)
                         [] OTHER -> ParseMembers(x, next, n + 1)
        member(r2) == CASE Failed(r2) -> r2
                        [] Peek(x, r2.at) = RBrace -> Emit(Take(r2), end)
                        [] Peek(x, r2.at) = Comma -> comma(Blank(x, Take(r2)))
                        [] OTHER -> Fail(r2, "ObjectMissCommaOrCurlyBracket")
        value(r1) == member(Blank(x, ParseValue(x, r1)))
        name(r0)  == value(Blank(x, Expect(x, Blank(x, r0), Colon, "ObjectMissColon")))
    IN  CASE Failed(r) -> r
          [] Peek(x, r.at) = Quote -> name(ParseString(x, r, TRUE))
          [] OTHER -> Fail(r, "ObjectMissName")

ParseObject(x, r) ==
    LET inside(b) == IF ~Failed(b) /\ Peek(x, b.at) = RBrace
                     THEN Emit(Take(b), [k |-> "EndObject", n |-> 0])
                     ELSE ParseMembers(x, b, 0)
    IN  inside(Blank(x, Emit(Take(r), [k |-> "StartObject"])))

\* The loop of ParseArray after n elements.
ParseElements(x, r, n) ==
    LET end == [k |-> "EndArray", n |-> n + 1]
        comma(next) == CASE Failed(next) -> next
                         [] Trailing(x, next, RBracket) -> Emit(Take(next), end)
                         [] OTHER -> ParseElements(x, next, n + 1)
        element(r1) == CASE Failed(r1) -> r1
                         [] Peek(x, r1.at) = RBracket -> Emit(Take(r1), end)
                         [] Peek(x, r1.at) = Comma -> comma(Blank(x, Take(r1)))
                         [] OTHER -> Fail(r1, "ArrayMissCommaOrSquareBracket")
    IN  element(Blank(x, ParseValue(x, r)))

ParseArray(x, r) ==
    LET inside(b) == IF ~Failed(b) /\ Peek(x, b.at) = RBracket
                     THEN Emit(Take(b), [k |-> "EndArray", n |-> 0])
                     ELSE ParseElements(x, b, 0)
    IN  inside(Blank(x, Emit(Take(r), [k |-> "StartArray"])))

ParseScalar(x, r) ==
    LET c == Peek(x, r.at)
    IN  CASE Failed(r) -> r
          [] c \in DOMAIN Literals -> ParseLiteral(x, r, Literals[c].letters, Literals[c].event)
          [] c = Quote -> ParseString(x, r, FALSE)
          [] OTHER -> ParseNumber(x, r)

ParseValue(x, r) ==
    CASE Failed(r) -> r
      [] Peek(x, r.at) = LBrace -> ParseObject(x, r)
      [] Peek(x, r.at) = LBracket -> ParseArray(x, r)
      [] OTHER -> ParseScalar(x, r)

Fresh == [at |-> 1, ev |-> <<>>, err |-> "None"]

Parse(x) ==
    LET end(r) == IF ~Failed(r) /\ Peek(x, r.at) # Nul THEN Fail(r, "DocumentRootNotSingular")
                  ELSE r
        root(value) == IF Failed(value) \/ "StopWhenDone" \in x.flags THEN value
                       ELSE end(Blank(x, value))
        start(b) == CASE Failed(b) -> b
                      [] Peek(x, b.at) = Nul -> Fail(b, "DocumentEmpty")
                      [] OTHER -> root(ParseValue(x, b))
    IN  start(Blank(x, Fresh))

---------------------------------------------------------------------------
(* IterativeParse: a table takes the state and the next token to a new     *)
(* state, Transit does the step, the stack keeps for every open object or  *)
(* array the state to return to and the commas seen in it.                 *)

Tokenize(c) ==
    CASE c = LBracket -> "["   [] c = RBracket -> "]"
      [] c = LBrace -> "{"     [] c = RBrace -> "}"
      [] c = Comma -> ","      [] c = Colon -> ":"
      [] c = Quote -> "String" [] OTHER -> "Scalar"

Opening(v) == ("[" :> "ArrayInitial") @@ ("{" :> "ObjectInitial")
              @@ ("String" :> v) @@ ("Scalar" :> v)

\* G without its error entries.
Table == [Start             |-> Opening("Value"),
          ObjectInitial     |-> ("}" :> "ObjectFinish") @@ ("String" :> "MemberKey"),
          MemberKey         |-> (":" :> "KeyValueDelimiter"),
          KeyValueDelimiter |-> Opening("MemberValue"),
          MemberValue       |-> ("}" :> "ObjectFinish") @@ ("," :> "MemberDelimiter"),
          MemberDelimiter   |-> ("}" :> "ObjectFinish") @@ ("String" :> "MemberKey"),
          ArrayInitial      |-> Opening("Element") @@ ("]" :> "ArrayFinish"),
          Element           |-> ("]" :> "ArrayFinish") @@ ("," :> "ElementDelimiter"),
          ElementDelimiter  |-> Opening("Element") @@ ("]" :> "ArrayFinish")]

Predict(state, token) ==
    IF state \in DOMAIN Table /\ token \in DOMAIN Table[state]
    THEN Table[state][token] ELSE "Error"

\* The state in which an object or array that opens in src leaves it.
ReturnTo(src) ==
    CASE src \in {"ArrayInitial", "ElementDelimiter"} -> "Element"
      [] src = "KeyValueDelimiter" -> "MemberValue"
      [] OTHER -> src

\* Mutation: the last value before the bracket not counted.
CloseUncounted(x, m, missing, last, event) ==
    LET frame == m.stack[Len(m.stack)]
    IN  IF m.state \in {"MemberDelimiter", "ElementDelimiter"}
              /\ "TrailingCommas" \notin x.flags
        THEN [m EXCEPT !.state = "Error", !.r = Fail(@, missing)]
        ELSE [state |-> IF frame.state = "Start" THEN "Finish" ELSE frame.state,
              stack |-> Front(m.stack),
              r     |-> Take(Emit(m.r, [k |-> event, n |-> frame.count]))]

\* m == [state, stack, r]: one closing bracket.
Close(x, m, missing, last, event) ==
    LET frame == m.stack[Len(m.stack)]
        n     == IF m.state = last THEN frame.count + 1 ELSE frame.count
    IN  IF m.state \in {"MemberDelimiter", "ElementDelimiter"}
              /\ "TrailingCommas" \notin x.flags
        THEN [m EXCEPT !.state = "Error", !.r = Fail(@, missing)]
        ELSE [state |-> IF frame.state = "Start" THEN "Finish" ELSE frame.state,
              stack |-> Front(m.stack),
              r     |-> Take(Emit(m.r, [k |-> event, n |-> n]))]

Transit(x, m, dst) ==
    LET read(r) == [m EXCEPT !.r = r, !.state = IF Failed(r) THEN "Error"
                                                ELSE IF dst = "Value" THEN "Finish" ELSE dst]
        count == [m.stack EXCEPT ![Len(m.stack)].count = @ + 1]
    IN  CASE dst = "Error" -> [m EXCEPT !.state = dst]
          [] dst \in {"ObjectInitial", "ArrayInitial"} ->
                [state |-> dst,
                 stack |-> Append(m.stack, [state |-> ReturnTo(m.state), count |-> 0]),
                 r     |-> Take(Emit(m.r, [k |-> IF dst = "ObjectInitial" THEN "StartObject"
                                                 ELSE "StartArray"]))]
          [] dst = "MemberKey" -> read(ParseString(x, m.r, TRUE))
          [] dst = "KeyValueDelimiter" -> read(Take(m.r))
          [] dst \in {"MemberValue", "Element", "Value"} -> read(ParseValue(x, m.r))
          [] dst \in {"MemberDelimiter", "ElementDelimiter"} ->
                [state |-> dst, stack |-> count, r |-> Take(m.r)]
          [] dst = "ObjectFinish" -> Close(x, m, "ObjectMissName", "MemberValue", "EndObject")
          [] OTHER -> Close(x, m, "ValueInvalid", "Element", "EndArray")

HandleError(src, r) ==
    CASE Failed(r) -> r
      [] src = "Start" -> Fail(r, "DocumentEmpty")
      [] src = "Finish" -> Fail(r, "DocumentRootNotSingular")
      [] src \in {"ObjectInitial", "MemberDelimiter"} -> Fail(r, "ObjectMissName")
      [] src = "MemberKey" -> Fail(r, "ObjectMissColon")
      [] src = "MemberValue" -> Fail(r, "ObjectMissCommaOrCurlyBracket")
      [] src \in {"KeyValueDelimiter", "ArrayInitial", "ElementDelimiter"} ->
            Fail(r, "ValueInvalid")
      [] OTHER -> Fail(r, "ArrayMissCommaOrSquareBracket")

RECURSIVE IterateFrom(_, _)
IterateFrom(x, m) ==
    LET on(next) ==
            CASE next.state = "Error" -> HandleError(m.state, next.r)
              [] "StopWhenDone" \in x.flags /\ next.state = "Finish" -> next.r
              [] OTHER -> IterateFrom(x, [next EXCEPT !.r = Blank(x, @)])
    IN  CASE Failed(m.r) -> m.r
          [] Peek(x, m.r.at) # Nul ->
                on(Transit(x, m, Predict(m.state, Tokenize(Peek(x, m.r.at)))))
          [] m.state = "Finish" -> m.r
          [] OTHER -> HandleError(m.state, m.r)

IterativeParse(x) ==
    IterateFrom(x, [state |-> "Start", stack |-> <<>>, r |-> Blank(x, Fresh)])
=============================================================================
