-------------------------- MODULE CanonicalSchemas --------------------------
(***************************************************************************)
(* check_canonical_schema_invariants and check_schema_parity of             *)
(* scripts/check_contract.py: what is asked of the three canonical schemas   *)
(* together, once each has been loaded and found to be in the profile.  A    *)
(* schema that could not be loaded is Null, Python's None.                   *)
(***************************************************************************)
EXTENDS SchemaProfile

CONSTANTS CANONICAL_SCHEMA_METADATA,         \* schema -> its id and kind
          CANONICAL_ROOT_FIELDS,             \* schema -> names of root properties
          CANONICAL_REQUIRED_FIELDS,         \* schema -> the required ones
          V1_SCHEMA_VALIDATION_FINGERPRINTS  \* schema -> its frozen fingerprint

CANONICAL_SCHEMAS == DOMAIN CANONICAL_SCHEMA_METADATA

IsDict(value) == value.t = "object"

\* The strings of an array, and the value a chain of dict.get calls reaches.
Names(array) == {item.s : item \in ToSet(array.items)}

RECURSIVE nested(_, _)
nested(value, keys) ==
    IF keys = << >> THEN value
    ELSE IF IsDict(value) THEN nested(Get(value, Head(keys)), Tail(keys)) ELSE Null

FramingIssues(relative, required, properties) ==
    LET framed(field, const) == nested(properties, <<field, "type">>) = Str("string")
                                /\ nested(properties, <<field, "const">>) = Str(const)
        kind == CANONICAL_SCHEMA_METADATA[relative].kind
    IN Issues({
         <<Keys(properties) # CANONICAL_ROOT_FIELDS[relative], "root property names">>,
         <<Names(required) # CANONICAL_REQUIRED_FIELDS[relative], "root required fields">>,
         <<"version" \notin Names(required), "version required">>,
         <<"kind" \notin Names(required), "kind required">>,
         <<~framed("version", "v1"), "version const">>,
         <<~framed("kind", kind), "kind const">>})

\* Only the names of the root fields are under the lock.
MutNamesLocked(relative, schema) ==
    LET properties == Get(schema, "properties")
    IN IsDict(properties) /\ Keys(properties) = CANONICAL_ROOT_FIELDS[relative]

MatchesFrozen(relative, schema) ==
    schema_validation_fingerprint(schema) = V1_SCHEMA_VALIDATION_FINGERPRINTS[relative]

SchemaInvariants(relative, schema) ==
    LET required == Get(schema, "required")
        properties == Get(schema, "properties")
    IN Issues({
         <<Get(schema, "$id") # Str(CANONICAL_SCHEMA_METADATA[relative].id), "$id">>,
         <<~MatchesFrozen(relative, schema), "frozen contract">>})
       \union IF Get(schema, "type") # Str("object")
                   \/ required.t # "array" \/ properties.t # "object"
              THEN {"canonical root"}
              ELSE FramingIssues(relative, required, properties)

AllLoaded(schemas) == \A relative \in CANONICAL_SCHEMAS : IsDict(schemas[relative])

InventoryIssues ==
    Issues({<<DOMAIN V1_SCHEMA_VALIDATION_FINGERPRINTS # CANONICAL_SCHEMAS,
              <<"contract", "fingerprint inventory">> >>})

\* Nothing is asked of the schemas unless all of them are there.
check_canonical_schema_invariants(schemas) ==
    InventoryIssues \union
    IF ~AllLoaded(schemas) THEN {}
    ELSE Issues({<<~IsInjective([r \in CANONICAL_SCHEMAS |-> Get(schemas[r], "$id")]),
                   <<"contract", "unique $id">> >>})
         \union UNION {{<<r, issue>> : issue \in SchemaInvariants(r, schemas[r])} :
                         r \in CANONICAL_SCHEMAS}

\* Only the neighbours of the first value are compared with it.
MutEqualFirstTwo(values) ==
    \/ \A i \in DOMAIN values : values[i] = Null
    \/ values[1] # Null /\ json_equal(values[1], values[2])

\* Absent everywhere, or present and equal everywhere.
RulesEqual(values) ==
    \/ \A i \in DOMAIN values : values[i] = Null
    \/ \A i \in DOMAIN values : values[i] # Null /\ json_equal(values[1], values[i])

request_id == <<"properties", "request_id">>
model_alias == <<"properties", "model_alias">>
usage == <<"properties", "usage">>
source_pattern == <<"properties", "instructions", "items", "properties", "source", "pattern">>
message_pattern == <<"properties", "error", "properties", "message", "pattern">>

check_schema_parity(schemas) ==
    IF ~AllLoaded(schemas) THEN {} ELSE
    LET in(relative, path) == nested(schemas[relative], path)
        requireEqual(label, values) == <<~RulesEqual(values), <<"contract", label>> >>
    IN Issues({
         requireEqual("request_id", <<in("request", request_id), in("success", request_id),
                                      in("failure", request_id)>>),
         requireEqual("request_id and model_alias",
                      <<in("request", request_id), in("request", model_alias)>>),
         requireEqual("usage", <<in("success", usage), in("failure", usage)>>),
         requireEqual("control-safe pattern", <<in("request", source_pattern),
                                                in("failure", message_pattern)>>)})
=============================================================================
