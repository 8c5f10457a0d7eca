--------------------------- MODULE SchemaProfile ----------------------------
(***************************************************************************)
(* schema_issues and validate_instance of scripts/check_contract.py: the     *)
(* closed JSON Schema profile, and the check of an instance against a        *)
(* schema of it.  A path is the sequence of its unescaped tokens; an issue   *)
(* is a path and a short name for its message.                              *)
(***************************************************************************)
EXTENDS SchemaFingerprint

CONSTANTS MAX_ENUM_ITEMS, MAX_VIOLATIONS,
          SCHEMA_URI,
          AUDITED_PATTERN_MATCHERS,   \* pattern -> the strings it is found in
          Length                      \* string -> number of its code points

SUPPORTED_KEYWORDS ==
    {"$schema", "$id", "title", "description", "type", "properties", "required",
     "additionalProperties", "items", "minItems", "maxItems", "minLength", "maxLength",
     "minimum", "maximum", "enum", "const", "pattern"}

pointer_join(base, token) == Append(base, token)

IsString(value) == value.t = "string"
number(value) == value.t = "number"
natural(value) == matches_type(value, "integer") /\ ~NumberLess(value, Int0(0))

\* The issues that hold, of a set of pairs <<condition, message>>.
Issues(pairs) == {p[2] : p \in {p \in pairs : p[1]}}

bounds(node, low, high) == Issues({
    <<Has(node, low) /\ ~natural(Get(node, low)), low>>,
    <<Has(node, high) /\ ~natural(Get(node, high)), high>>,
    <<natural(Get(node, low)) /\ natural(Get(node, high))
        /\ NumberLess(Get(node, high), Get(node, low)), "order of bounds">>})

-----------------------------------------------------------------------------
(* What schema_issues says of one node, apart from its children.            *)

TypeOf(node) ==
    LET schema_type == Get(node, "type")
    IN IF IsString(schema_type) THEN schema_type.s ELSE "not a string"

RootIssues(node, root) ==
    IF root
    THEN Issues({<<Get(node, "$schema") # Str(SCHEMA_URI), "$schema">>,
                 <<~IsString(Get(node, "$id")) \/ Get(node, "$id") = Str(""), "$id">>})
    ELSE Issues({<<Has(node, "$schema") \/ Has(node, "$id"), "root-only">>})

keyword_groups ==
    [object |-> {"properties", "required", "additionalProperties"},
     array |-> {"items", "minItems", "maxItems"},
     string |-> {"minLength", "maxLength", "pattern"},
     numeric |-> {"minimum", "maximum"}]

Group(schema_type) ==
    IF schema_type \in {"integer", "number"} THEN "numeric" ELSE schema_type

GroupIssues(node) ==
    {group \in DOMAIN keyword_groups :
        keyword_groups[group] \intersect Keys(node) # {} /\ Group(TypeOf(node)) # group}

PropertiesOf(node) ==
    IF Get(node, "properties").t = "object" THEN Get(node, "properties") ELSE Obj(<< >>)

RequiredOf(node) ==
    LET required == Get(node, "required")
    IN IF required.t = "array" /\ \A i \in DOMAIN required.items : IsString(required.items[i])
       THEN required.items ELSE << >>

ObjectIssues(node) == Issues({
    <<Get(node, "properties").t # "object", "properties">>,
    <<Get(node, "required").t # "array" \/ RequiredOf(node) # Get(node, "required").items,
      "required">>,
    <<~IsInjective(RequiredOf(node)), "required unique">>,
    <<Get(node, "additionalProperties") # Bool(FALSE), "additionalProperties">>,
    <<~ \A i \in DOMAIN RequiredOf(node) :
          RequiredOf(node)[i].s \in Keys(PropertiesOf(node)), "required property">>})

ArrayIssues(node) ==
    Issues({<<~Has(node, "items"), "items">>}) \union bounds(node, "minItems", "maxItems")

StringIssues(node) ==
    bounds(node, "minLength", "maxLength") \union Issues({
        <<Has(node, "pattern") /\ ~(IsString(Get(node, "pattern"))
            /\ Get(node, "pattern").s \in DOMAIN AUDITED_PATTERN_MATCHERS), "pattern">>})

NumericIssues(node) ==
    LET low == Get(node, "minimum")
        high == Get(node, "maximum")
    IN Issues({<<Has(node, "minimum") /\ ~number(low), "minimum">>,
               <<Has(node, "maximum") /\ ~number(high), "maximum">>,
               <<number(low) /\ number(high) /\ NumberLess(high, low), "order of bounds">>})

TypeIssues(node) ==
    CASE TypeOf(node) = "object" -> ObjectIssues(node)
      [] TypeOf(node) = "array" -> ArrayIssues(node)
      [] TypeOf(node) = "string" -> StringIssues(node)
      [] TypeOf(node) \in {"integer", "number"} -> NumericIssues(node)
      [] OTHER -> {}

\* The four questions about an enum are asked in turn: one issue at most.
EnumIssue(node) ==
    LET enum == Get(node, "enum")
    IN CASE ~Has(node, "enum") -> {}
         [] enum.t # "array" -> {"enum"}
         [] enum.items = << >> -> {"enum"}
         [] Len(enum.items) > MAX_ENUM_ITEMS -> {"enum size"}
         [] \E i, j \in DOMAIN enum.items : i < j /\ json_equal(enum.items[i], enum.items[j])
              -> {"enum unique"}
         [] TypeOf(node) \in JSON_TYPES
              /\ \E i \in DOMAIN enum.items : ~matches_type(enum.items[i], TypeOf(node))
              -> {"enum type"}
         [] OTHER -> {}

ConstIssues(node) == Issues({
    <<Has(node, "const") /\ TypeOf(node) \in JSON_TYPES
        /\ ~matches_type(Get(node, "const"), TypeOf(node)), "const type">>,
    <<Has(node, "enum") /\ Has(node, "const"), "enum and const">>})

NodeIssues(node, root) ==
    (Keys(node) \ SUPPORTED_KEYWORDS)
        \union RootIssues(node, root)
        \union {a \in SCHEMA_ANNOTATIONS : Has(node, a) /\ ~IsString(Get(node, a))}
        \union Issues({<<TypeOf(node) \notin JSON_TYPES, "type">>})
        \union GroupIssues(node) \union TypeIssues(node)
        \union EnumIssue(node) \union ConstIssues(node)

\* The properties of an object are reviewed, the items of an array are not.
MutItemsNotReviewed(node) ==
    IF TypeOf(node) = "object" THEN ToSet(PropertiesOf(node).members) ELSE {}

\* The schema nodes directly under a node, with their tokens.
Subnodes(node) ==
    CASE TypeOf(node) = "object" -> ToSet(PropertiesOf(node).members)
      [] TypeOf(node) = "array" /\ Has(node, "items") -> {<<"items", Get(node, "items")>>}
      [] OTHER -> {}

RECURSIVE IssuesFrom(_, _, _, _)
IssuesFrom(node, path, root, depth) ==
    CASE depth > MAX_NESTING_DEPTH -> {<<path, "nesting">>}
      [] node.t # "object" -> {<<path, "not an object">>}
      [] OTHER -> {<<path, issue>> : issue \in NodeIssues(node, root)}
           \union UNION {IssuesFrom(s[2], pointer_join(path, s[1]), FALSE, depth + 1) :
                           s \in Subnodes(node)}

schema_issues(schema) == IssuesFrom(schema, << >>, TRUE, 0)

-----------------------------------------------------------------------------
(* validate_instance.  Its lookups in a schema are unguarded: one that would *)
(* raise, or that finds a value it was not written for, is a violation of   *)
(* the pseudo-keyword "raise".                                             *)

Violation(keyword, path) == [keyword |-> keyword, path |-> path]
When(condition, keyword, path) ==
    IF condition THEN <<Violation(keyword, path)>> ELSE << >>

RaiseUnless(condition, path) == When(~condition, "raise", path)

ValueViolations(value, node, path) ==
    When(Has(node, "enum") /\ ~ \E item \in ToSet(Children(Get(node, "enum"))) :
            json_equal(value, item), "enum", path)
    \o When(Has(node, "const") /\ ~json_equal(value, Get(node, "const")), "const", path)

\* The bounds taken as exclusive ones.
MutBoundsExclusive(size, node, low, high, path) ==
    When(Has(node, low) /\ ~NumberLess(Get(node, low), size), low, path)
    \o When(Has(node, high) /\ NumberLess(Get(node, high), size), high, path)

\* First whether the size is below the low keyword, then above the high one.
BoundViolations(size, node, low, high, path) ==
    LET bad(keyword) == Has(node, keyword) /\ ~number(Get(node, keyword))
        outside(keyword, small, large) ==
            Has(node, keyword) /\ ~bad(keyword) /\ NumberLess(small, large)
    IN RaiseUnless(~bad(low) /\ ~bad(high), path)
       \o When(outside(low, size, Get(node, low)), low, path)
       \o When(outside(high, Get(node, high), size), high, path)

StringViolations(value, node, path) ==
    LET pattern == Get(node, "pattern")
    IN BoundViolations(Int0(Length[value.s]), node, "minLength", "maxLength", path)
       \o When(Has(node, "pattern") /\ ~(IsString(pattern)
                 /\ pattern.s \in DOMAIN AUDITED_PATTERN_MATCHERS
                 /\ value.s \in AUDITED_PATTERN_MATCHERS[pattern.s]), "pattern", path)

RECURSIVE ViolationsFrom(_, _, _)

ObjectViolations(value, node, path) ==
    LET properties == Get(node, "properties")
        required == Get(node, "required")
        missing(name) == When(name.s \notin Keys(value), "required", path)
        member(name, child) ==
            IF Has(properties, name)
            THEN ViolationsFrom(child, Get(properties, name), pointer_join(path, name))
            ELSE <<Violation("additionalProperties", path)>>
    IN IF properties.t # "object" \/ required.t # "array" THEN RaiseUnless(FALSE, path)
       ELSE FlattenSeq([i \in DOMAIN required.items |-> missing(required.items[i])])
            \o FlattenSeq([i \in DOMAIN value.members |->
                             member(value.members[i][1], value.members[i][2])])

ArrayViolations(value, node, path) ==
    BoundViolations(Int0(Len(value.items)), node, "minItems", "maxItems", path)
    \o FlattenSeq([i \in DOMAIN value.items |->
          ViolationsFrom(value.items[i], Get(node, "items"), pointer_join(path, ToString(i - 1)))])

ViolationsFrom(value, node, path) ==
    IF node.t # "object" \/ ~Has(node, "type") THEN RaiseUnless(FALSE, path)
    ELSE IF ~matches_type(value, TypeOf(node)) THEN <<Violation("type", path)>>
    ELSE ValueViolations(value, node, path)
         \o CASE TypeOf(node) = "object" -> ObjectViolations(value, node, path)
              [] TypeOf(node) = "array" -> ArrayViolations(value, node, path)
              [] TypeOf(node) = "string" -> StringViolations(value, node, path)
              [] TypeOf(node) \in {"integer", "number"} ->
                   BoundViolations(value, node, "minimum", "maximum", path)
              [] OTHER -> << >>

\* The first MAX_VIOLATIONS of the depth-first walk.
validate_instance(instance, schema) ==
    LET all == ViolationsFrom(instance, schema, << >>)
    IN SubSeq(all, 1, IF Len(all) < MAX_VIOLATIONS THEN Len(all) ELSE MAX_VIOLATIONS)
=============================================================================
