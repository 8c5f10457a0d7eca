---------------------------- MODULE SchemaReview ----------------------------
(***************************************************************************)
(* A schema file in review: starting from the frozen schema, every edit that *)
(* a contributor could make, one after the other.  The text may stop being   *)
(* JSON of the profile; what is still loaded and accepted must be usable,    *)
(* mean what JSON Schema says it means, and be told from the frozen schema   *)
(* exactly when its rules differ.                                          *)
(***************************************************************************)
EXTENDS SchemaEdits

CONSTANTS Frozen,      \* the schema under the lock
          Instances,   \* instances the schemas are compared on
          Damages,     \* values that spoil a text, as JSON or as a schema
          Samples,     \* schemas every text is compared with
          MaxEdits     \* bound on the number of edits

VARIABLES schema,      \* what the file says
          edits,
          ruleEdits    \* those of them that change a rule

vars == <<schema, edits, ruleEdits>>

Init == schema = Frozen /\ edits = 0 /\ ruleEdits = 0

EditAnnotations == schema' \in CosmeticEdits(schema) /\ UNCHANGED ruleEdits

EditRules == schema' \in AllRuleEdits(schema) /\ ruleEdits' = ruleEdits + 1

\* A title that is none, or the first member of a node once more.
Damage ==
    /\ \E path \in NodePaths(schema, << >>) :
          LET node == NodeAt(schema, path)
              twice == IF node.members = << >> THEN {}
                       ELSE {Obj(Append(node.members, node.members[1]))}
          IN \E new \in twice \union {With(node, "title", damage) : damage \in Damages} :
                schema' = Rewritten(schema, path, new)
    /\ UNCHANGED ruleEdits

Next == edits < MaxEdits /\ edits' = edits + 1 /\ (EditAnnotations \/ EditRules \/ Damage)

Spec == Init /\ [][Next]_vars

-----------------------------------------------------------------------------
(* The JSON profile of the contract's README, place by place.               *)

Strings(value) ==
    CASE value.t = "string" -> {value.s}
      [] value.t = "object" -> Keys(value)
      [] OTHER -> {}

RECURSIVE BreaksProfile(_)
BreaksProfile(value) ==
    \/ value.t = "fault" /\ value.class = "document"
    \/ value.t = "object" /\ \E i, j \in DOMAIN value.members :
                                i # j /\ value.members[i][1] = value.members[j][1]
    \/ Strings(value) \intersect LoneStrings # {}
    \/ \E i \in DOMAIN Children(value) : BreaksProfile(Children(value)[i])

RECURSIVE TripsGuard(_, _)
TripsGuard(value, depth) ==
    \/ depth > MAX_NESTING_DEPTH
    \/ value.t = "fault" /\ value.class = "artifact"
    \/ \E i \in DOMAIN Children(value) : TripsGuard(Children(value)[i], depth + 1)

Files == [readable : BOOLEAN, bytes : {MAX_JSON_BYTES, MAX_JSON_BYTES + 1}, utf8 : BOOLEAN,
          text : {schema}]

-----------------------------------------------------------------------------
(* JSON Schema 2020-12 for the keywords of the profile: every keyword        *)
(* constrains the values of its own type and says nothing of the others.    *)

RECURSIVE Valid(_, _)
Valid(value, node) ==
    LET says(keyword) == Has(node, keyword)
        at(keyword) == Get(node, keyword)
        atLeast(keyword, d) == says(keyword) => ~NumberLess(d, at(keyword))
        atMost(keyword, d) == says(keyword) => ~NumberLess(at(keyword), d)
    IN /\ says("type") => matches_type(value, at("type").s)
       /\ says("enum") => \E i \in DOMAIN at("enum").items : json_equal(value, at("enum").items[i])
       /\ says("const") => json_equal(value, at("const"))
       /\ value.t = "object" =>
             /\ says("required") => \A i \in DOMAIN at("required").items :
                                        Has(value, at("required").items[i].s)
             /\ says("properties") => \A key \in Keys(value) \intersect Keys(at("properties")) :
                                        Valid(Get(value, key), Get(at("properties"), key))
             /\ says("additionalProperties") => Keys(value) \subseteq Keys(at("properties"))
       /\ value.t = "array" =>
             /\ atLeast("minItems", Int0(Len(value.items)))
             /\ atMost("maxItems", Int0(Len(value.items)))
             /\ says("items") => \A i \in DOMAIN value.items : Valid(value.items[i], at("items"))
       /\ value.t = "string" =>
             /\ atLeast("minLength", Int0(Length[value.s]))
             /\ atMost("maxLength", Int0(Length[value.s]))
             /\ says("pattern") => value.s \in AUDITED_PATTERN_MATCHERS[at("pattern").s]
       /\ value.t = "number" => atLeast("minimum", value) /\ atMost("maximum", value)

-----------------------------------------------------------------------------

Loads == strict_json([readable |-> TRUE, bytes |-> 1, utf8 |-> TRUE, text |-> schema]).ok
Accepted == Loads /\ schema_issues(schema) = {}
Unlocked == schema_validation_fingerprint(schema) # schema_validation_fingerprint(Frozen)
Violations(instance, s) == ToSet(validate_instance(instance, s))

(* check_contract.py:92-159.  A document is loaded exactly when it follows   *)
(* the JSON profile and no guard of the checker is exceeded, wherever in the *)
(* text the fault is and whatever the parser or the scan meets first.       *)
LoadedExactly ==
    LET sound == ~BreaksProfile(schema) /\ ~TripsGuard(schema, 0)
    IN \A file \in Files :
          strict_json(file).ok <=>
              file.readable /\ file.bytes <= MAX_JSON_BYTES /\ file.utf8 /\ sound

(* gateway/contracts/model-turn/v1/README.md:41-43.  A refusal is put down   *)
(* to the protocol only when the text breaks the protocol's profile, and to  *)
(* a guard only when a guard is exceeded: a fixture that is merely too large *)
(* or too deep never passes for one that is not JSON.                       *)
RefusalClassified ==
    LET breaks == BreaksProfile(schema)
        trips == TripsGuard(schema, 0)
    IN \A file \in Files :
          LET read == strict_json(file)
          IN /\ ~read.ok /\ read.class = "document" => ~file.utf8 \/ breaks
             /\ ~read.ok /\ read.class = "artifact" =>
                   ~file.readable \/ file.bytes > MAX_JSON_BYTES \/ trips

(* check_contract.py:187-200, 209-264.  The two notions of sameness the      *)
(* checker lives by agree: json_equal holds between two values exactly when  *)
(* the fingerprint encodes them alike, over every spelling of a number, any  *)
(* order of members, and booleans beside the numbers 0 and 1.               *)
EqualityAgrees ==
    LET encoded == encode(schema, FALSE)
    IN Loads => \A other \in Samples :
          json_equal(schema, other) <=> encoded = encode(other, FALSE)

(* check_contract.py:386-443.  validate_instance looks type, properties,     *)
(* required and items up unguarded and compares bounds without asking what  *)
(* they are.  No schema that schema_issues passes makes any of these fail,   *)
(* whatever the instance.                                                  *)
AcceptedIsUsable ==
    Accepted => \A instance \in Instances :
        \A v \in ToSet(ViolationsFrom(instance, schema, << >>)) : v.keyword # "raise"

(* check_contract.py:386-443.  An instance is without violations exactly     *)
(* when it is valid under JSON Schema itself, although the code stops at the *)
(* first type mismatch, gates every keyword by the type and keeps at most    *)
(* MAX_VIOLATIONS.                                                        *)
VerdictIsJSONSchema ==
    Accepted => \A instance \in Instances :
        validate_instance(instance, schema) = << >> <=> Valid(instance, schema)

(* README.md:48-54 of the contract; check_contract.py:209-264.  As long as    *)
(* the fingerprint is the frozen one, every instance breaks the same rules at *)
(* the same places as under the frozen schema.                              *)
LockFaithful ==
    Accepted /\ ~Unlocked => \A instance \in Instances :
        Violations(instance, schema) = Violations(instance, Frozen)

(* README.md:48-54 of the contract; check_contract.py:209-264.  Annotations,  *)
(* the order of members, of required and of enum, and the spelling of a       *)
(* number never break the lock; one changed rule always does.               *)
LockExact ==
    Accepted => /\ ruleEdits = 0 => ~Unlocked
                /\ ruleEdits = 1 => Unlocked
=============================================================================
