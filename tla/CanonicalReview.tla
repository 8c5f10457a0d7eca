-------------------------- MODULE CanonicalReview ---------------------------
(***************************************************************************)
(* The three canonical schemas in review together: edits of any of them, and *)
(* schemas that fail to load.                                               *)
(***************************************************************************)
EXTENDS CanonicalSchemas, SchemaEdits

CONSTANTS FrozenSchemas,  \* the three schemas under the lock
          Instances,      \* values the duplicated rules are compared on
          MaxEdits        \* bound on the number of edits

VARIABLES schemas,        \* as loaded: a schema of the profile, or Null
          edits

vars == <<schemas, edits>>

Init == schemas = FrozenSchemas /\ edits = 0

Replace(relative, new) ==
    schema_issues(new) = {} /\ schemas' = [schemas EXCEPT ![relative] = new]

EditAnnotations(relative) ==
    /\ IsDict(schemas[relative])
    /\ \E new \in CosmeticEdits(schemas[relative]) : Replace(relative, new)

EditRules(relative) ==
    /\ IsDict(schemas[relative])
    /\ \E new \in AllRuleEdits(schemas[relative]) : Replace(relative, new)

\* The same edit of a rule the documents share, made in all of them.
EditShared ==
    \E key \in DOMAIN Rules : \E value \in Rules[key] :
        \E path \in {<<"request_id">>, <<"usage">>} :
           LET shares(r) == IsDict(schemas[r]) /\ path \in NodePaths(schemas[r], << >>)
               edited(r) == Rewritten(schemas[r], path, With(NodeAt(schemas[r], path), key, value))
           IN /\ \A r \in CANONICAL_SCHEMAS : shares(r) => schema_issues(edited(r)) = {}
              /\ schemas' = [r \in CANONICAL_SCHEMAS |-> IF shares(r) THEN edited(r) ELSE schemas[r]]

\* load_canonical_schemas keeps None for a schema it cannot use.
Lose(relative) == schemas' = [schemas EXCEPT ![relative] = Null]

Next ==
    /\ edits < MaxEdits
    /\ edits' = edits + 1
    /\ \/ EditShared
       \/ \E relative \in CANONICAL_SCHEMAS :
             EditAnnotations(relative) \/ EditRules(relative) \/ Lose(relative)

Spec == Init /\ [][Next]_vars

-----------------------------------------------------------------------------

Errors == check_canonical_schema_invariants(schemas) \union check_schema_parity(schemas)

LockErrors ==
    {<<relative, issue>> : relative \in CANONICAL_SCHEMAS, issue \in {"$id", "frozen contract"}}

Verdict(instance, node) == ToSet(validate_instance(instance, node))

\* The copies of a rule in some of the documents.
Copies(relatives, path) == {nested(schemas[r], path) : r \in relatives} \ {Null}

(* gateway/contracts/model-turn/v1/README.md:48-56; check_contract.py:511-635. *)
(* The framing and parity checks only make the lock readable.  With every    *)
(* id and fingerprint in order the framing is in order too, and two copies   *)
(* of a duplicated rule differ in what the fingerprint ignores at most.     *)
LockSubsumesDiagnostics ==
    AllLoaded(schemas) /\ Errors \intersect LockErrors = {} =>
        /\ check_canonical_schema_invariants(schemas) = {}
        /\ \A path \in {request_id, usage} : \A a, b \in Copies(CANONICAL_SCHEMAS, path) :
              schema_validation_fingerprint(a) = schema_validation_fingerprint(b)

(* check_contract.py:575-635.  Where the parity of request_id is not         *)
(* objected to, a correlation ID the request may carry is one that both      *)
(* results may echo, and the other way round, although every document has    *)
(* its own copy of the rule; and likewise for usage in both results.         *)
EchoesUnderParity ==
    LET same(relatives, path) ==
            \A a, b \in Copies(relatives, path) : \A instance \in Instances :
                Verdict(instance, a) = Verdict(instance, b)
    IN AllLoaded(schemas) =>
         /\ <<"contract", "request_id">> \notin Errors => same(CANONICAL_SCHEMAS, request_id)
         /\ <<"contract", "usage">> \notin Errors => same({"success", "failure"}, usage)
=============================================================================
