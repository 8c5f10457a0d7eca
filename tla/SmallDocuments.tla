--------------------------- MODULE SmallDocuments ---------------------------
(***************************************************************************)
(* The three canonical schemas in miniature, for TLC: the framing, the       *)
(* duplicated rules and little else.                                        *)
(***************************************************************************)
EXTENDS SchemaFingerprint

Node(type, members) == Obj(<< <<"type", Str(type)>> >> \o members)
Strs(names) == Arr([i \in DOMAIN names |-> Str(names[i])])
Object(required, properties) ==
    Node("object", << <<"properties", Obj(properties)>>, <<"required", Strs(required)>>,
                      <<"additionalProperties", Bool(FALSE)>> >>)
Root(id, required, properties) ==
    Obj(<< <<"$schema", Str("uri")>>, <<"$id", Str(id)>> >>
        \o Object(required, properties).members)

Const(value) == Node("string", << <<"const", Str(value)>> >>)
Identifier == Node("string", << <<"maxLength", Int0(2)>>, <<"pattern", Str("identifier")>> >>)
ControlSafe == Node("string", << <<"pattern", Str("control-safe")>> >>)
Usage == Object(<<"tokens">>, << <<"tokens", Node("integer", << <<"maximum", Int0(1)>> >>)>> >>)
Framing(kind) ==
    << <<"version", Const("v1")>>, <<"kind", Const(kind)>>, <<"request_id", Identifier>> >>

SmallSchemas ==
    [request |-> Root("urn:request", <<"version", "kind", "request_id", "model_alias">>,
        Framing("request") \o << <<"model_alias", Identifier>>, <<"instructions",
            Node("array", << <<"items", Object(<<"source">>, << <<"source", ControlSafe>> >>)>> >>)>> >>),
     success |-> Root("urn:success", <<"version", "kind", "request_id">>,
        Framing("success") \o << <<"usage", Usage>> >>),
     failure |-> Root("urn:failure", <<"version", "kind", "request_id", "error">>,
        Framing("failure") \o << <<"error", Object(<< >>, << <<"message", ControlSafe>> >>)>>,
                                 <<"usage", Usage>> >>)]

SmallMetadata == [r \in DOMAIN SmallSchemas |-> [id |-> Get(SmallSchemas[r], "$id").s, kind |-> r]]
SmallRootFields == [r \in DOMAIN SmallSchemas |-> Keys(Get(SmallSchemas[r], "properties"))]
SmallRequiredFields == [r \in DOMAIN SmallSchemas |-> {item.s : item \in ToSet(Get(SmallSchemas[r], "required").items)}]
SmallFingerprints ==
    [r \in DOMAIN SmallSchemas |-> schema_validation_fingerprint(SmallSchemas[r])]

SmallPatterns == [identifier |-> {"a", "bb", "ccc", "v1"}]
                 @@ ("control-safe" :> {"a", "bb", "ccc", "-", "v1"})
SmallLength ==
    ("" :> 0) @@ ("a" :> 1) @@ ("-" :> 1) @@ ("bb" :> 2) @@ ("v1" :> 2) @@ ("ccc" :> 3)
=============================================================================
