--------------------------- MODULE MCSchemaReview ---------------------------
(***************************************************************************)
(* SchemaReview for TLC: one schema with a node of every type, a property    *)
(* named like an annotation and a constant that contains one; for every      *)
(* keyword a value that is another rule and one that is no rule at all.      *)
(***************************************************************************)
EXTENDS SchemaReview

Node(type, members) == Obj(<< <<"type", Str(type)>> >> \o members)
Strings2(a, b) == Arr(<<Str(a), Str(b)>>)

MCFrozen ==
    Obj(<< <<"$schema", Str("uri")>>, <<"$id", Str("urn")>>, <<"title", Str("T")>>,
           <<"type", Str("object")>>, <<"additionalProperties", Bool(FALSE)>>,
           <<"required", Strings2("title", "list")>>,
           <<"properties", Obj(<<
               <<"title", Node("string", << <<"minLength", Int0(1)>>, <<"maxLength", Int0(2)>>,
                                            <<"pattern", Str("identifier")>> >>)>>,
               <<"list", Node("array", << <<"maxItems", Int0(1)>>,
                    <<"items", Node("integer", << <<"minimum", Int0(0)>> >>)>> >>)>>,
               <<"n", Node("number", << <<"enum", Arr(<<Int0(0), Int0(1)>>)>> >>)>>,
               <<"k", Node("object", << <<"properties", Obj(<< >>)>>, <<"required", Arr(<< >>)>>,
                    <<"additionalProperties", Bool(FALSE)>>,
                    <<"const", Obj(<< <<"title", Int0(1)>> >>)>> >>)>> >>)>> >>)

MCRules ==
    [type |-> {Str("integer"), Null},
     required |-> {Arr(<<Str("title"), Str("title")>>), Arr(<<Null>>)},
     properties |-> {Obj(<< <<"title", Node("boolean", << >>)>> >>), Null},
     additionalProperties |-> {Bool(TRUE)},
     items |-> {Node("boolean", << >>), Null},
     minItems |-> {Dec(TRUE, 1, 0)},
     maxItems |-> {Dec(FALSE, 5, -1), Int0(2)},
     minLength |-> {Int0(3), Str("a")},
     maxLength |-> {Int0(1)},
     pattern |-> {Str("control-safe")},
     minimum |-> {Int0(1), Bool(FALSE)},
     maximum |-> {Int0(1)},
     enum |-> {Arr(<<Int0(1), Dec(FALSE, 10, -1)>>), Arr(<<Str("a"), Str("bb")>>),
               Arr(<<Null, Bool(FALSE), Int0(0)>>), Arr(<<Bool(FALSE), Int0(0)>>)},
     const |-> {Int0(1), Obj(<< <<"title", Int0(0)>> >>)},
     format |-> {Str("a")}]

Fault(class) == [t |-> "fault", class |-> class]
MCDamages == {Fault("document"), Fault("artifact"), Str("lone"), Arr(<<Arr(<<Null>>)>>)}

\* The frozen schema, and schemas that a careless comparison takes for it.
MCSamples ==
    LET k == NodeAt(MCFrozen, <<"k">>)
    IN {MCFrozen, With(MCFrozen, "required", Arr(<<Str("title")>>)),
        Rewritten(MCFrozen, <<"k">>, With(k, "const", Obj(<< <<"title", Bool(TRUE)>> >>)))}

Turn(title, list) == Obj(<< <<"title", title>>, <<"list", list>> >>)
Plus(instance, key, value) == With(instance, key, value)
Good == Turn(Str("a"), Arr(<<Int0(0)>>))

MCInstances ==
    {Good, Null, Arr(<<Good>>), Obj(<< >>), Str("a"), Int0(1),
     Turn(Str("bb"), Arr(<< >>)), Turn(Str(""), Arr(<<Dec(FALSE, 10, -1)>>)),
     Turn(Str("ccc"), Arr(<<Int0(0), Bool(FALSE)>>)), Turn(Str("-"), Arr(<<Dec(FALSE, 5, -1)>>)),
     Turn(Int0(1), Arr(<<Dec(TRUE, 1, 0), Str("a")>>)), Turn(Bool(TRUE), Obj(<< >>)),
     Plus(Good, "n", Dec(FALSE, 10, -1)), Plus(Good, "n", Bool(TRUE)), Plus(Good, "x", Null),
     Plus(Good, "k", Obj(<< >>)), Plus(Good, "k", Obj(<< <<"title", Int0(1)>> >>)),
     Plus(Good, "k", Obj(<< <<"title", Int0(0)>> >>)),
     Plus(Plus(Turn(Null, Null), "n", Null), "k", Null)}

MCPatterns == [identifier |-> {"a", "bb", "ccc"}] @@ ("control-safe" :> {"a", "bb", "ccc", "-"})
MCLength == ("" :> 0) @@ ("a" :> 1) @@ ("-" :> 1) @@ ("bb" :> 2) @@ ("ccc" :> 3)
=============================================================================
