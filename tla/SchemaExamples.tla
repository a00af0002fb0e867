--------------------------- MODULE SchemaExamples ---------------------------
(***************************************************************************)
(* Schema documents and instances for JsonSchema, as the JSON they are.    *)
(***************************************************************************)
EXTENDS Integers, Sequences, TLC

Null == [k |-> "Null"]
Yes  == [k |-> "True"]
No   == [k |-> "False"]
Whole(n)    == [k |-> "Number", form |-> IF n < 0 THEN "Int" ELSE "Uint", n |-> 2 * n]
Halves(n) == [k |-> "Number", form |-> "Double", n |-> n]
Text(s)   == [k |-> "String", s |-> s]
List(items) == [k |-> "Array", items |-> items]
Map(members) == [k |-> "Object", items |-> members]
In(name, v)   == [name |-> name, value |-> v]
Only(name, v) == Map(<<In(name, v)>>)
Type(name)    == Only("type", Text(name))
Ref(pointer)  == Only("$ref", Text(pointer))

(* Scalars: types, bounds, texts. *)
ScalarSchemas ==
  { Type("integer"), Type("number"), Only("type", List(<<Text("null"), Text("string")>>)),
    Type("object"), Type("array"), Type("boolean"),
    Map(<<In("minimum", Whole(1)), In("maximum", Whole(3))>>),
    Map(<<In("minimum", Whole(1)), In("exclusiveMinimum", Yes), In("maximum", Whole(3)),
        In("exclusiveMaximum", Yes)>>), Only("minimum", Whole(9)),
    Map(<<In("maximum", Whole(9)), In("exclusiveMaximum", Yes)>>), Only("maximum", Whole(-1)),
    Map(<<In("minimum", Halves(-3)), In("exclusiveMinimum", Yes)>>),
    Map(<<In("minimum", Whole(-1)), In("multipleOf", Whole(2))>>),
    Map(<<In("multipleOf", Halves(3)), In("maximum", Halves(3))>>), Only("maximum", Whole(7)),
    Map(<<In("minLength", Whole(1)), In("maxLength", Whole(1))>>), Only("pattern", Text("a")),
    Map(<<In("pattern", Text(")")), In("minLength", Whole(1))>>)}

(* Arrays, and values by enumeration. *)
ArraySchemas ==
  { Map(<<In("items", Type("integer")), In("minItems", Whole(1)), In("maxItems", Whole(2))>>),
    Map(<<In("items", List(<<Type("integer"), Type("string")>>)), In("additionalItems", No)>>),
    Map(<<In("items", List(<<Type("integer")>>)), In("additionalItems", Type("null"))>>),
    Only("items", List(<<Map(<<>>)>>)),
    Map(<<In("uniqueItems", Yes), In("items", Only("uniqueItems", Yes))>>),
    Map(<<In("uniqueItems", Yes), In("items", Only("enum", List(<<Whole(1), Text("a"),
        List(<<Whole(1)>>)>>)))>>),
    Map(<<In("items", Ref("#")), In("uniqueItems", Yes), In("minItems", Whole(1))>>),
    Only("enum", List(<<Map(<<In("a", Whole(1)), In("b", Whole(2))>>), List(<<Whole(1)>>),
        Text("a"), Null, Whole(1)>>))}

(* Objects. *)
ObjectSchemas ==
  { Map(<<In("properties", Map(<<In("a", Type("integer")), In("b", Ref("#/properties/a"))>>)),
        In("required", List(<<Text("a")>>))>>),
    Map(<<In("properties", Only("a", Type("integer"))), In("additionalProperties", No)>>),
    Map(<<In("properties", Only("a", Type("integer"))), In("additionalProperties", Type("string")),
        In("maxProperties", Whole(2))>>),
    Map(<<In("properties", Only("a", Ref("#"))), In("minProperties", Whole(1))>>),
    Map(<<In("patternProperties", Only("a", Type("integer"))), In("properties", Only("ab",
        Only("minimum", Whole(1))))>>),
    Map(<<In("patternProperties", Map(<<In("a", Type("integer")), In("b", Only("maximum",
        Whole(1)))>>)), In("required", List(<<Text("b")>>))>>),
    Only("dependencies", Map(<<In("a", List(<<Text("b")>>)), In("b", Map(<<In("minProperties",
        Whole(2)), In("properties", Only("b", Type("integer")))>>))>>)),
    Map(<<In("dependencies", Only("a", Only("required", List(<<Text("ab")>>)))), In("properties",
        Only("a", Only("minimum", Whole(1))))>>)}

(* Schemas side by side, and references. *)
ParallelSchemas ==
  { Only("allOf", List(<<Type("integer"), Only("minimum", Whole(1))>>)),
    Only("anyOf", List(<<Type("string"), Only("minimum", Whole(2))>>)),
    Only("oneOf", List(<<Only("minimum", Whole(1)), Only("multipleOf", Whole(2))>>)),
    Only("not", Type("integer")),
    Map(<<In("anyOf", List(<<Only("items", Type("integer")), Ref("#/definitions/o")>>)),
        In("definitions", Only("o", Only("required", List(<<Text("a")>>)))), In("type",
        List(<<Text("array"), Text("object")>>))>>),
    Map(<<In("allOf", List(<<Only("properties", Only("a", Only("not", Ref("#/definitions/n")))),
        Only("oneOf", List(<<Only("required", List(<<Text("a")>>)), Only("required",
        List(<<Text("b")>>))>>))>>)), In("definitions", Map(<<In("n", Ref("#/definitions/m")),
        In("m", Type("null"))>>))>>),
    Map(<<In("items", Only("anyOf", List(<<Only("enum", List(<<Whole(1), Whole(2)>>)),
        Map(<<In("uniqueItems", Yes), In("type", Text("array"))>>)>>))), In("uniqueItems", Yes)>>),
    Only("not", Map(<<In("properties", Only("a", Only("not", Only("minimum", Whole(2))))),
        In("required", List(<<Text("a")>>))>>)),
    Only("oneOf", List(<<Map(<<In("type", Text("object")), In("properties", Only("a",
        Ref("#")))>>), Type("integer")>>)),
    Only("properties", Only("a", Ref("#/definitions/none")))}

(* Patterns together with additionalProperties, and names beside texts in an *)
(* enumeration.                                                              *)
UnsettledSchemas ==
  { Map(<<In("patternProperties", Only("a", Type("integer"))), In("additionalProperties", No)>>),
    Map(<<In("type", Text("object")), In("patternProperties", Only("a", Type("integer"))),
        In("additionalProperties", No), In("properties", Only("b", Type("null")))>>),
    Map(<<In("patternProperties", Only("a", Type("integer"))), In("additionalProperties",
        Type("null"))>>), Only("enum", List(<<Only("a", Text("b")), Only("a", Text("a"))>>))}

DocumentsUsed ==
    ScalarSchemas \cup ArraySchemas \cup ObjectSchemas \cup ParallelSchemas \cup UnsettledSchemas

InstancesUsed ==
  { Null, Yes, Whole(-2), Whole(-1), Whole(0), Whole(1), Whole(2), Whole(3), Whole(7), Whole(9), Whole(10),
    Halves(1), Halves(2), Halves(3), Halves(-3), Halves(-4), Text(""), Text("a"), Text("ab"),
    Text("b"), List(<<>>), List(<<Whole(1)>>), List(<<Whole(1), Halves(2)>>), List(<<Whole(1), Whole(2)>>),
    List(<<Whole(1), Whole(2), Whole(3)>>), List(<<Text("a"), Text("a")>>), List(<<Whole(1), Text("a")>>),
    List(<<Whole(1), Text("a"), Null>>), List(<<Whole(1), Null, Null>>),
    List(<<List(<<Whole(1)>>), List(<<Halves(2)>>)>>), List(<<List(<<Whole(1), Whole(1)>>)>>),
    List(<<List(<<Whole(1)>>), List(<<Whole(2)>>)>>), List(<<List(<<Text("a")>>), Whole(1), Whole(2)>>),
    List(<<Map(<<In("a", Whole(1)), In("b", Whole(2))>>), Map(<<In("b", Whole(2)), In("a", Whole(1))>>)>>),
    List(<<Only("a", Whole(1)), Only("b", Whole(1))>>), List(<<List(<<List(<<>>)>>), List(<<>>)>>),
    List(<<List(<<>>), List(<<>>)>>), Map(<<>>), Only("a", Whole(1)), Only("a", Null),
    Only("b", Null), Map(<<In("a", Whole(1)), In("b", Whole(2))>>),
    Map(<<In("b", Whole(2)), In("a", Halves(2))>>), Only("a", Whole(2)), Only("ab", Whole(0)),
    Map(<<In("ab", Whole(1)), In("b", Whole(1))>>), Map(<<In("ab", Text("a")), In("a", Whole(1))>>),
    Map(<<In("b", Null), In("a", Whole(2))>>), Only("a", Only("a", Only("a", Whole(1)))),
    Only("a", Only("a", Map(<<>>))), Only("a", Only("b", Null)),
    Map(<<In("a", Whole(1)), In("ab", Text("b"))>>),
    Map(<<In("a", List(<<Whole(1), Whole(1)>>)), In("b", Whole(1)), In("ab", Whole(2))>>),
    Only("b", Whole(1)), Only("b", Text("a")), List(<<Only("a", Text("b")), Only("b", Text("a"))>>),
    List(<<Only("a", Text("a")), Map(<<>>)>>), Map(<<In("a", Whole(1)), In("b", Text("b"))>>)}

FragmentsUsed ==
       ("#" :> <<>>) @@ ("#/properties/a" :> <<"properties", "a">>)
    @@ ("#/definitions/o" :> <<"definitions", "o">>) @@ ("#/definitions/n" :> <<"definitions", "n">>)
    @@ ("#/definitions/m" :> <<"definitions", "m">>) @@ ("#/definitions/none" :> <<"definitions", "none">>)

\* ")" is no regular expression.
LanguageUsed   == ("a" :> {"a", "ab"}) @@ ("b" :> {"b", "ab"})
CodePointsUsed == ("" :> 0) @@ ("a" :> 1) @@ ("b" :> 1) @@ ("ab" :> 2)
=============================================================================
