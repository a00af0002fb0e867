----------------------------- MODULE JsonSchema -----------------------------
(***************************************************************************)
(* schema.h: a schema document is compiled, and a validator takes the      *)
(* events of an instance one by one, with a stack of contexts and with     *)
(* validators inside the contexts that take the same events.  A compiled   *)
(* schema is its pointer into the document, a sequence of names, and what  *)
(* its fields hold is read from there.  A hash code is one-to-one on what  *)
(* is hashed; patterns are the sets of names they find; strings are UTF-8. *)
(* Numbers count halves: an odd one can only be a double.                  *)
(***************************************************************************)
EXTENDS Integers, Sequences, SequencesExt, FiniteSets, TLC

CONSTANTS Documents,   \* schema documents
          Instances,   \* values that are validated
          Fragments,   \* local references, and the pointers they stand for
          Language,    \* patterns, and the names each finds
          CodePoints,  \* strings, and how many code points each has
          LongMax      \* the largest int64_t; scaled

VARIABLES schemaDocument, \* the document that is compiled
          instance,       \* the value the events come from
          fed,            \* how many of them the validator has taken
          validator       \* GenericSchemaValidator

vars == <<schemaDocument, instance, fed, validator>>

Missing == [k |-> "Missing"]

Member(v, name) ==
    LET same == IF v.k = "Object" THEN SelectSeq(v.items, LAMBDA m : m.name = name) ELSE <<>>
    IN  IF same = <<>> THEN Missing ELSE Head(same).value

Child(v, token) ==
    LET at == IF v.k = "Array" THEN {i \in DOMAIN v.items : ToString(i - 1) = token} ELSE {}
    IN  IF at = {} THEN Member(v, token) ELSE v.items[CHOOSE i \in at : TRUE]

RECURSIVE Events(_)
\* What Accept sends for a value.
Events(v) ==
    CASE v.k = "Array" ->
           <<[k |-> "StartArray"]>> \o FlattenSeq([i \in DOMAIN v.items |-> Events(v.items[i])])
           \o <<[k |-> "EndArray", n |-> Len(v.items)]>>
      [] v.k = "Object" ->
           <<[k |-> "StartObject"]>>
           \o FlattenSeq([i \in DOMAIN v.items |->
                             <<[k |-> "Key", s |-> v.items[i].name]>> \o Events(v.items[i].value)])
           \o <<[k |-> "EndObject", n |-> Len(v.items)]>>
      [] OTHER -> <<v>>

---------------------------------------------------------------------------
(* The schema document. *)

At(p) == FoldLeft(Child, schemaDocument, p)

NoSchema == <<"(none)">>
Typeless == <<"(typeless)">>

RECURSIVE Referred(_)
\* HandleRefSchema: a chain of local references is followed to its end.
\* (A chain that is a circle is followed for ever; a reference to a value
\* that is no object ends in an assertion.)
Referred(p) ==
    LET ref == Member(At(p), "$ref") IN
    IF ref.k = "String" /\ ref.s \in DOMAIN Fragments THEN Referred(Fragments[ref.s]) ELSE p

\* The schema of a place in the document: every object has one.
Compiled(p) == IF At(Referred(p)).k = "Object" THEN Referred(p) ELSE NoSchema

OrTypeless(p) == IF Compiled(p) = NoSchema THEN Typeless ELSE Compiled(p)

Keyword(p, name) == IF p = Typeless THEN Missing ELSE Member(At(p), name)

BoolOr(p, name, default) ==
    LET v == Keyword(p, name) IN IF v.k \in {"True", "False"} THEN v.k = "True" ELSE default

IsUint64(v) == v.k = "Number" /\ v.form # "Double" /\ v.n >= 0
IsInt64(v)  == v.k = "Number" /\ v.form # "Double" /\ v.n <= 2 * LongMax

Names(v)   == IF v.k = "Object" THEN {v.items[i].name : i \in DOMAIN v.items} ELSE {}
Strings(v) ==
    IF v.k # "Array" THEN {}
    ELSE {v.items[i].s : i \in {j \in DOMAIN v.items : v.items[j].k = "String"}}

Types(p) ==
    LET v == Keyword(p, "type")
        named == IF v.k = "String" THEN {v.s} ELSE Strings(v)
    IN  IF v = Missing THEN {"null", "boolean", "object", "array", "string", "number", "integer"}
        ELSE named \cup (IF "number" \in named THEN {"integer"} ELSE {})

Required(p)   == Strings(Keyword(p, "required"))
Dependency(p, name) == Member(Keyword(p, "dependencies"), name)
Dependents(p) == Names(Keyword(p, "dependencies"))

Properties(p) ==
    Names(Keyword(p, "properties")) \cup Required(p) \cup Dependents(p)
        \cup UNION {Strings(Dependency(p, d)) : d \in Dependents(p)}

\* Those whose regular expression is valid and finds the name.
PatternSchemas(p, name) ==
    LET patterns == Keyword(p, "patternProperties")
        found == IF patterns.k # "Object" THEN <<>>
                 ELSE SelectSeq(patterns.items, LAMBDA m : m.name \in DOMAIN Language
                                                           /\ name \in Language[m.name])
    IN  [i \in DOMAIN found |-> Compiled(p \o <<"patternProperties", found[i].name>>)]

\* The keywords whose subschemas see the whole value, as paths to them.
Group(p, name) ==
    LET v == Keyword(p, name) IN
    IF v.k = "Array" THEN {<<name, ToString(i - 1)>> : i \in DOMAIN v.items} ELSE {}

Parallels(p) ==
    Group(p, "allOf") \cup Group(p, "anyOf") \cup Group(p, "oneOf")
    \cup (IF Keyword(p, "not") = Missing THEN {} ELSE {<<"not">>})
    \cup {<<"dependencies", d>> : d \in {n \in Dependents(p) : Dependency(p, n).k = "Object"}}

\* An empty tuple is not allocated and counts as none.
ElementSchema(p, index) ==
    LET items == Keyword(p, "items")
        list  == Compiled(Append(p, "items"))
    IN  CASE items.k = "Object" /\ list # NoSchema -> list
          [] items.k = "Array" /\ items.items # <<>> ->
               IF index < Len(items.items) THEN Compiled(p \o <<"items", ToString(index)>>)
               ELSE IF Compiled(Append(p, "additionalItems")) # NoSchema
                    THEN Compiled(Append(p, "additionalItems"))
               ELSE IF BoolOr(p, "additionalItems", TRUE) THEN Typeless ELSE NoSchema
          [] OTHER -> Typeless

---------------------------------------------------------------------------
(* The hasher: a stack of codes.  Members are combined with exclusive or:  *)
(* in any order, and two alike cancel out.  So are a name and its value:   *)
(* they may change places, and cancel out when they are the same string.   *)

Popped(h, n) == SubSeq(h, 1, Len(h) - n)
Tops(h, n)   == SubSeq(h, Len(h) - n + 1, Len(h))

\* Mutation: the codes of members are combined in the order they come.
HashObjectOrdered(kv) == [k |-> "Object", kv |-> kv]

HashObject(kv) ==
    LET at == 1 .. Len(kv) \div 2
        member(i) == {kv[2 * i - 1], kv[2 * i]}
        odd(q) == Cardinality({i \in at : member(i) = q}) % 2 = 1
    IN  [k |-> "Object", kv |-> {q \in {member(i) : i \in at} : odd(q) /\ Cardinality(q) = 2}]

Hashed(h, e) ==
    CASE e.k \in {"StartObject", "StartArray"} -> h
      [] e.k = "EndObject" -> Append(Popped(h, 2 * e.n), HashObject(Tops(h, 2 * e.n)))
      [] e.k = "EndArray"  -> Append(Popped(h, e.n), [k |-> "Array", e |-> Tops(h, e.n)])
      [] e.k = "Key"       -> Append(h, [k |-> "String", s |-> e.s])
      [] e.k = "Number"    -> Append(h, [k |-> "Number", n |-> e.n])
      [] OTHER             -> Append(h, e)

HashCode(v) == Last(FoldLeft(Hashed, <<>>, Events(v)))

EnumCodes(p) ==
    LET v == Keyword(p, "enum") IN
    IF v.k = "Array" THEN {HashCode(v.items[i]) : i \in DOMAIN v.items} ELSE {}

---------------------------------------------------------------------------
(* Contexts and validators. *)

Context(p) ==
    [schema |-> p, valueSchema |-> NoSchema, patternSchemas |-> <<>>, valuePatternType |-> "only",
     objectPatternType |-> "only", patternValidators |-> <<>>, validators |-> <<>>,
     hasher |-> FALSE, codes |-> <<>>, elements |-> {}, propertyExist |-> {}, inArray |-> FALSE,
     index |-> 0, valueUniqueness |-> FALSE, arrayUniqueness |-> FALSE, invalidKeyword |-> "none"]

\* The null handler takes what passes; status replaces valid_.
NewValidator(p) == [root |-> p, stack |-> <<>>, path |-> <<>>, status |-> "valid"]

Current(v) == Last(v.stack)
With(v, c) == [v EXCEPT !.stack = Append(Front(v.stack), c)]
Then(v, Step(_)) == IF v.status = "valid" THEN Step(v) ELSE v

Invalid(v, keyword) ==
    [With(v, [Current(v) EXCEPT !.invalidKeyword = keyword]) EXCEPT !.status = "invalid"]

\* A null or wild pointer, or a failed assertion.
Undefined(v) == [v EXCEPT !.status = "undefined"]

\* The first of some <<keyword, holds>> that does not hold.
Require(v, checks) ==
    LET failed == SelectSeq(checks, LAMBDA c : ~c[2])
    IN  IF failed = <<>> THEN v ELSE Invalid(v, Head(failed)[1])

ElementBegun(v) ==
    LET c == Current(v)
        element == ElementSchema(c.schema, c.index)
        w == [v EXCEPT !.path = Append(@, ToString(c.index))]
    IN  IF element # NoSchema
        THEN With(w, [c EXCEPT !.valueSchema = element, !.index = @ + 1,
                               !.valueUniqueness = @ \/ BoolOr(c.schema, "uniqueItems", FALSE)])
        ELSE IF c.index < Len(Keyword(c.schema, "items").items) THEN Undefined(w)
        ELSE Invalid(w, "items")

\* Without a schema for the value, what follows happens to its parent.
ValuePushed(v) ==
    LET parent == Current(v)
        w == IF parent.valueSchema = NoSchema THEN v
             ELSE [v EXCEPT !.stack = Append(@, Context(parent.valueSchema))]
        c == [Current(w) EXCEPT !.arrayUniqueness = parent.valueUniqueness]
        schemas == parent.patternSchemas
    IN  IF schemas = <<>> THEN With(w, c)
        ELSE IF Contains(schemas, NoSchema) \/ c.patternValidators # <<>> THEN Undefined(w)
        ELSE With(w, [c EXCEPT !.objectPatternType = parent.valuePatternType,
                               !.patternValidators = [i \in DOMAIN schemas |-> NewValidator(schemas[i])]])

BeginValue(v) ==
    IF v.stack = <<>> THEN [v EXCEPT !.stack = <<Context(v.root)>>]
    ELSE Then(IF Current(v).inArray THEN ElementBegun(v) ELSE v, ValuePushed)

CreateParallelValidator(v) ==
    LET c == Current(v)
        keys == Parallels(c.schema)
        created == [key \in keys |-> NewValidator(Compiled(c.schema \o key))]
        hashes == EnumCodes(c.schema) # {} \/ c.arrayUniqueness
        h == [c EXCEPT !.hasher = @ \/ hashes, !.codes = IF hashes THEN <<>> ELSE @]
    IN  IF keys = {} THEN With(v, h)
        ELSE IF DOMAIN c.validators # {} \/ \E key \in keys : created[key].root = NoSchema THEN Undefined(v)
        ELSE With(v, [h EXCEPT !.validators = created])

(* The keywords of scalars. *)

IsAbove(n, m, exclusive) == IF exclusive THEN n > m ELSE n >= m

MinimumHolds(p, e) ==
    LET m == Keyword(p, "minimum")
        above == IsAbove(e.n, m.n, BoolOr(p, "exclusiveMinimum", FALSE))
    IN  CASE m.k # "Number" -> TRUE
          [] e.form = "Int" /\ ~IsInt64(m) /\ IsUint64(m) -> FALSE
          [] e.form = "Uint" /\ ~IsUint64(m) /\ IsInt64(m) -> TRUE
          [] OTHER -> above

MaximumHolds(p, e) ==
    LET m == Keyword(p, "maximum")
        below == IsAbove(m.n, e.n, BoolOr(p, "exclusiveMaximum", FALSE))
    IN  CASE m.k # "Number" -> TRUE
          [] e.form = "Int" /\ ~IsInt64(m) /\ IsUint64(m) -> TRUE
          [] e.form = "Uint" /\ ~IsUint64(m) /\ IsInt64(m) -> FALSE
          [] OTHER -> below

MultipleHolds(p, e) ==
    LET m == Keyword(p, "multipleOf")
        magnitude == IF e.n < 0 THEN -e.n ELSE e.n
    IN  m.k # "Number" \/ m.n <= 0 \/ magnitude % m.n = 0

NumberChecked(v, e) ==
    LET p == Current(v).schema IN
    Require(v, <<<<"type", (IF e.form = "Double" THEN {"number"} ELSE {"number", "integer"})
                               \cap Types(p) # {}>>,
                 <<"minimum", MinimumHolds(p, e)>>, <<"maximum", MaximumHolds(p, e)>>,
                 <<"multipleOf", MultipleHolds(p, e)>>>>)

\* A bound that is no unsigned integer is no bound.
AtLeast(count, p, name) == IsUint64(Keyword(p, name)) => 2 * count >= Keyword(p, name).n
AtMost(count, p, name)  == IsUint64(Keyword(p, name)) => 2 * count <= Keyword(p, name).n

StringChecked(v, e) ==
    LET p == Current(v).schema
        pattern == Keyword(p, "pattern")
    IN  Require(v, <<<<"type", "string" \in Types(p)>>,
                     <<"minLength", AtLeast(CodePoints[e.s], p, "minLength")>>,
                     <<"maxLength", AtMost(CodePoints[e.s], p, "maxLength")>>,
                     <<"pattern", pattern.k = "String" /\ pattern.s \in DOMAIN Language
                                      => e.s \in Language[pattern.s]>>>>)

OfType(v, type) == Require(v, <<<<"type", type \in Types(Current(v).schema)>>>>)

ObjectStarted(v) ==
    With(v, [Current(v) EXCEPT !.propertyExist = {}, !.patternSchemas = <<>>])
ArrayStarted(v) == With(v, [Current(v) EXCEPT !.index = 0, !.inArray = TRUE])

Checked(v, e) ==
    CASE e.k = "Null"   -> OfType(v, "null")
      [] e.k = "Number" -> NumberChecked(v, e)
      [] e.k = "String" -> StringChecked(v, e)
      [] e.k = "StartObject" -> Then(OfType(v, "object"), ObjectStarted)
      [] e.k = "StartArray"  -> Then(OfType(v, "array"), ArrayStarted)
      [] OTHER -> OfType(v, "boolean")

(* Objects and arrays. *)

KeyChecked(v, e) ==
    LET c == Current(v)
        p == c.schema
        found == PatternSchemas(p, e.s)
        additional == Compiled(Append(p, "additionalProperties"))
        exists == Dependents(p) # {} \/ Required(p) # {}
        d == [c EXCEPT !.patternSchemas = found]
        beside(schema, type) ==
            IF found = <<>> THEN [d EXCEPT !.valueSchema = schema]
            ELSE [d EXCEPT !.patternSchemas = Append(@, schema), !.valueSchema = Typeless,
                           !.valuePatternType = type]
    IN  IF e.s \in Properties(p)
        THEN With(v, [beside(OrTypeless(p \o <<"properties", e.s>>), "property") EXCEPT
                         !.propertyExist = IF exists THEN @ \cup {e.s} ELSE @])
        ELSE IF additional # NoSchema THEN With(v, beside(additional, "additional"))
        ELSE IF BoolOr(p, "additionalProperties", TRUE)
             THEN With(v, [d EXCEPT !.valueSchema = Typeless])
        ELSE IF found = <<>> THEN Invalid(With(v, d), "additionalProperties")
        ELSE With(v, d)

DependencyHolds(c, d) ==
    LET v == Dependency(c.schema, d) IN
    CASE v.k = "Array"  -> Strings(v) \subseteq c.propertyExist
      [] v.k = "Object" -> c.validators[<<"dependencies", d>>].status = "valid"
      [] OTHER -> TRUE

ObjectChecked(v, e) ==
    LET c == Current(v)
        p == c.schema
    IN  Require(v, <<<<"required", Required(p) \subseteq c.propertyExist>>,
                     <<"minProperties", AtLeast(e.n, p, "minProperties")>>,
                     <<"maxProperties", AtMost(e.n, p, "maxProperties")>>,
                     <<"dependencies", \A d \in Dependents(p) \cap c.propertyExist : DependencyHolds(c, d)>>>>)

ArrayChecked(v, e) ==
    LET p == Current(v).schema
    IN  Require(With(v, [Current(v) EXCEPT !.inArray = FALSE]),
                <<<<"minItems", AtLeast(e.n, p, "minItems")>>, <<"maxItems", AtMost(e.n, p, "maxItems")>>>>)

(* The end of a value. *)

Accepts(w) == w.status = "valid"

\* patternPropertiesValidators: the last is the property's or the additional
\* properties', unless only patterns found the name.
PatternsHold(c) ==
    LET all == c.patternValidators
        patterns == IF c.objectPatternType = "only" THEN all ELSE Front(all)
        patternValid == \A i \in DOMAIN patterns : Accepts(patterns[i])
    IN  CASE all = <<>> -> TRUE
          [] c.objectPatternType = "only"     -> patternValid
          [] c.objectPatternType = "property" -> patternValid /\ Accepts(Last(all))
          [] OTHER                            -> patternValid \/ Accepts(Last(all))

Valid(c, name) == {key \in DOMAIN c.validators : Head(key) = name /\ Accepts(c.validators[key])}

ValueChecked(v) ==
    LET c == Current(v)
        p == c.schema
        codes == EnumCodes(p)
    IN  Require(v, <<<<"patternProperties", PatternsHold(c)>>,
                     <<"enum", codes # {} => Last(c.codes) \in codes>>,
                     <<"allOf", Valid(c, "allOf") = Group(p, "allOf")>>,
                     <<"anyOf", Group(p, "anyOf") # {} => Valid(c, "anyOf") # {}>>,
                     <<"oneOf", Group(p, "oneOf") # {} => Cardinality(Valid(c, "oneOf")) = 1>>,
                     <<"not", Valid(c, "not") = {}>>>>)

\* The parent of an array's element has seen its code, or sees it now.
ElementEnded(v, code) ==
    LET c == Current(v) IN
    CASE v.stack = <<>> \/ ~c.valueUniqueness -> v
      [] code \in c.elements -> Invalid(v, "uniqueItems")
      [] OTHER -> With(v, [c EXCEPT !.elements = @ \cup {code}])

\* Mutation: what the last value left is not removed.
TokenKept(v) == v

TokenRemoved(v) == [v EXCEPT !.path = IF @ = <<>> THEN @ ELSE Front(@)]

ValueEnded(v) ==
    LET c == Current(v)
        code == IF c.arrayUniqueness THEN Last(c.codes) ELSE Missing
    IN  Then(ElementEnded([v EXCEPT !.stack = Front(@)], code), TokenRemoved)

EndValue(v) == Then(ValueChecked(v), ValueEnded)

RECURSIVE Feed(_, _)
\* Every context's hasher and validators take the event too.
Parallel(v, e) ==
    LET fedTo(w) == Feed(w, e)
        taken(c) == [c EXCEPT !.codes = IF c.hasher THEN Hashed(@, e) ELSE @,
                              !.validators = [key \in DOMAIN @ |-> fedTo(@[key])],
                              !.patternValidators = [i \in DOMAIN @ |-> fedTo(@[i])]]
        w == [v EXCEPT !.stack = [i \in DOMAIN @ |-> taken(@[i])]]
    IN  IF \E i \in DOMAIN w.stack :
              \/ \E key \in DOMAIN w.stack[i].validators : w.stack[i].validators[key].status = "undefined"
              \/ \E j \in DOMAIN w.stack[i].patternValidators :
                    w.stack[i].patternValidators[j].status = "undefined"
        THEN Undefined(w) ELSE w

Feed(v, e) ==
    LET begun == Then(Then(BeginValue(v), LAMBDA w : Checked(w, e)), CreateParallelValidator)
        inParallel == Then(begun, LAMBDA w : Parallel(w, e))
        ended(Check(_, _)) == Then(Then(Parallel(v, e), LAMBDA w : Check(w, e)), EndValue)
    IN  CASE v.status # "valid" -> v
          [] e.k \in {"Key", "EndObject", "EndArray"} /\ v.stack = <<>> -> Undefined(v)
          [] e.k = "Key" -> Then(KeyChecked([v EXCEPT !.path = Append(@, e.s)], e),
                                 LAMBDA w : Parallel(w, e))
          [] e.k = "EndObject" -> ended(ObjectChecked)
          [] e.k = "EndArray"  -> ended(ArrayChecked)
          [] e.k \in {"StartObject", "StartArray"} -> inParallel
          [] OTHER -> Then(inParallel, EndValue)

---------------------------------------------------------------------------
Fresh == NewValidator(OrTypeless(<<>>))

\* (The document is read by Fresh, so it is chosen first.)
Begin(d, v) == schemaDocument = d /\ instance = v /\ fed = 0 /\ validator = Fresh

Init == \E d \in Documents, v \in Instances : Begin(d, v)

\* The reader stops at the first event the handler refuses.
ValidateEvent ==
    /\ validator.status = "valid" /\ fed < Len(Events(instance))
    /\ fed' = fed + 1
    /\ validator' = Feed(validator, Events(instance)[fed + 1])
    /\ UNCHANGED <<schemaDocument, instance>>

\* The validator is used again, whatever became of the first time.
Reset ==
    /\ validator.status # "valid" \/ fed = Len(Events(instance))
    /\ fed' = 0
    /\ validator' = [validator EXCEPT !.stack = <<>>, !.path = <<>>, !.status = "valid"]
    /\ UNCHANGED <<schemaDocument, instance>>

Next == ValidateEvent \/ Reset

---------------------------------------------------------------------------
(* What a schema means: the keywords of draft 4, each about a whole value. *)

RECURSIVE Same(_, _)
\* Equal as JSON: numbers by value, objects in any order.
Same(v, u) ==
    CASE {v.k, u.k} = {"Number"} -> v.n = u.n
      [] {v.k, u.k} = {"Array"} ->
           /\ Len(v.items) = Len(u.items)
           /\ \A i \in DOMAIN v.items : Same(v.items[i], u.items[i])
      [] {v.k, u.k} = {"Object"} ->
           Names(v) = Names(u) /\ \A name \in Names(v) : Same(Member(v, name), Member(u, name))
      [] OTHER -> v = u

TypesOf(v) ==
    CASE v.k = "Number" -> IF v.form = "Double" THEN {"number"} ELSE {"number", "integer"}
      [] v.k = "Null"   -> {"null"}
      [] v.k = "String" -> {"string"}
      [] v.k = "Array"  -> {"array"}
      [] v.k = "Object" -> {"object"}
      [] OTHER -> {"boolean"}

Finds(pattern, name) == pattern \in DOMAIN Language /\ name \in Language[pattern]

\* A member no property and no pattern speaks of; an element behind the tuple.
IsAdditional(p, name) ==
    /\ name \notin Names(Keyword(p, "properties"))
    /\ \A pattern \in Names(Keyword(p, "patternProperties")) : ~Finds(pattern, name)

RECURSIVE Satisfies(_, _)
Under(v, p) == Satisfies(Referred(p), v)

\* What additionalProperties or additionalItems lets in.
Admitted(p, keyword, v) ==
    CASE Keyword(p, keyword).k = "Object" -> Under(v, Append(p, keyword))
      [] OTHER -> Keyword(p, keyword).k = "True"

OfObject(p, keyword, k, v) ==
    CASE keyword = "required" -> \A i \in DOMAIN k.items : k.items[i].s \in Names(v)
      [] keyword = "minProperties" -> 2 * Len(v.items) >= k.n
      [] keyword = "maxProperties" -> 2 * Len(v.items) <= k.n
      [] keyword = "dependencies" ->
           \A name \in Names(k) \cap Names(v) :
              IF Member(k, name).k = "Array" THEN Strings(Member(k, name)) \subseteq Names(v)
              ELSE Under(v, p \o <<keyword, name>>)
      [] keyword = "properties" ->
           \A name \in Names(k) \cap Names(v) : Under(Member(v, name), p \o <<keyword, name>>)
      [] keyword = "patternProperties" ->
           \A pattern \in Names(k), name \in Names(v) :
              Finds(pattern, name) => Under(Member(v, name), p \o <<keyword, pattern>>)
      [] keyword = "additionalProperties" ->
           \A name \in Names(v) : IsAdditional(p, name) =>
              Admitted(p, keyword, Member(v, name))
      [] OTHER -> TRUE

OfArray(p, keyword, k, v) ==
    CASE keyword = "items" ->
           IF k.k = "Object" THEN \A i \in DOMAIN v.items : Under(v.items[i], Append(p, keyword))
           ELSE \A i \in DOMAIN k.items \cap DOMAIN v.items :
                   Under(v.items[i], p \o <<keyword, ToString(i - 1)>>)
      [] keyword = "additionalItems" ->
           Keyword(p, "items").k = "Array" =>
              \A i \in DOMAIN v.items \ DOMAIN Keyword(p, "items").items :
                 Admitted(p, keyword, v.items[i])
      [] keyword = "minItems" -> 2 * Len(v.items) >= k.n
      [] keyword = "maxItems" -> 2 * Len(v.items) <= k.n
      [] keyword = "uniqueItems" ->
           k.k = "True" => \A i, j \in DOMAIN v.items : i # j => ~Same(v.items[i], v.items[j])
      [] OTHER -> TRUE

OfString(keyword, k, v) ==
    CASE keyword = "minLength" -> 2 * CodePoints[v.s] >= k.n
      [] keyword = "maxLength" -> 2 * CodePoints[v.s] <= k.n
      [] keyword = "pattern"   -> k.s \in DOMAIN Language => Finds(k.s, v.s)
      [] OTHER -> TRUE

OfNumber(p, keyword, k, v) ==
    CASE keyword = "minimum" ->
           IF Keyword(p, "exclusiveMinimum").k = "True" THEN v.n > k.n ELSE v.n >= k.n
      [] keyword = "maximum" ->
           IF Keyword(p, "exclusiveMaximum").k = "True" THEN v.n < k.n ELSE v.n <= k.n
      [] keyword = "multipleOf" -> v.n % k.n = 0
      [] OTHER -> TRUE

Meets(p, keyword, v) ==
    LET k == Member(At(p), keyword)
        places == {p \o <<keyword, ToString(i - 1)>> : i \in DOMAIN k.items}
    IN  CASE keyword = "type"  -> TypesOf(v) \cap (IF k.k = "String" THEN {k.s} ELSE Strings(k)) # {}
          [] keyword = "enum"  -> \E i \in DOMAIN k.items : Same(k.items[i], v)
          [] keyword = "allOf" -> \A q \in places : Under(v, q)
          [] keyword = "anyOf" -> \E q \in places : Under(v, q)
          [] keyword = "oneOf" -> Cardinality({q \in places : Under(v, q)}) = 1
          [] keyword = "not"   -> ~Under(v, Append(p, keyword))
          [] v.k = "Object" -> OfObject(p, keyword, k, v)
          [] v.k = "Array"  -> OfArray(p, keyword, k, v)
          [] v.k = "String" -> OfString(keyword, k, v)
          [] v.k = "Number" -> OfNumber(p, keyword, k, v)
          [] OTHER -> TRUE

Satisfies(p, v) == \A keyword \in Names(At(p)) : Meets(p, keyword, v)

RECURSIVE Within(_)
\* A value and all that is in it.
Within(v) ==
    {v} \cup (CASE v.k = "Array"  -> UNION {Within(v.items[i]) : i \in DOMAIN v.items}
               [] v.k = "Object" -> UNION {Within(v.items[i].value) : i \in DOMAIN v.items}
               [] OTHER -> {})

Members(v) == UNION {{o.items[i].value : i \in DOMAIN o.items} : o \in {w \in Within(v) : w.k = "Object"}}

\* Where the validator is right (see the README): no name is left to patterns
\* alone by "additionalProperties", and objects that are compared by their
\* hash codes have no strings for members.
Settled ==
    LET objects == {o \in Within(schemaDocument) : o.k = "Object"}
        enumerated == {Member(o, "enum") : o \in objects} \ {Missing}
        hashing == enumerated # {} \/ \E o \in objects : "uniqueItems" \in Names(o)
    IN  /\ \A o \in objects : ~({"patternProperties", "additionalProperties"} \subseteq Names(o))
        /\ hashing => \A v \in enumerated \cup {instance} : \A m \in Members(v) : m.k # "String"

\* The value the reported pointer, schema and keyword are about.
Culprit ==
    LET c == Current(validator)
        keyword == c.invalidKeyword
        whole == keyword \in {"items", "uniqueItems", "additionalProperties"}
        path == IF whole THEN Front(validator.path) ELSE validator.path
    IN  [schema |-> c.schema, keyword |-> IF keyword = "items" THEN "additionalItems" ELSE keyword,
         value |-> FoldLeft(Child, instance, path)]

\* GenericSchemaValidator (schema.h:1567): what it refuses, at whatever event,
\* the schema does not allow, and the pointers and the keyword it reports name
\* a value that keyword refuses; what it takes to the end is allowed.  It holds
\* though the keywords are checked on events, by validators side by side.
VerdictIsRight ==
    Settled =>
       /\ validator.status # "undefined"
       /\ validator.status = "invalid" =>
             /\ ~Satisfies(Referred(<<>>), instance)
             /\ Current(validator).invalidKeyword # "patternProperties" =>
                   ~Meets(Culprit.schema, Culprit.keyword, Culprit.value)
       /\ validator.status = "valid" /\ fed = Len(Events(instance)) =>
             Satisfies(Referred(<<>>), instance)
=============================================================================
