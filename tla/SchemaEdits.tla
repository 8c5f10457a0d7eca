---------------------------- MODULE SchemaEdits -----------------------------
(***************************************************************************)
(* What a contributor can do to a schema file: edits of one node, either of  *)
(* its rules or of what the lock ignores.                                   *)
(***************************************************************************)
EXTENDS SchemaProfile

CONSTANT Rules       \* Rules[k]: values an edit may give the keyword k

Without(object, key) == Obj(SelectSeq(object.members, LAMBDA m : m[1] # key))

With(object, key, value) ==
    IF ~Has(object, key) THEN Obj(Append(object.members, <<key, value>>))
    ELSE Obj([i \in DOMAIN object.members |->
                IF object.members[i][1] = key THEN <<key, value>> ELSE object.members[i]])

\* Where a subnode is kept: under the items of an array, among the
\* properties of an object.
RECURSIVE NodePaths(_, _)
NodePaths(node, path) ==
    {path} \union UNION {NodePaths(s[2], Append(path, s[1])) :
                           s \in {s \in Subnodes(node) : s[2].t = "object"}}

RECURSIVE NodeAt(_, _)
NodeAt(node, path) ==
    IF path = << >> THEN node
    ELSE NodeAt((CHOOSE s \in Subnodes(node) : s[1] = Head(path))[2], Tail(path))

RECURSIVE Rewritten(_, _, _)
Rewritten(node, path, new) ==
    IF path = << >> THEN new
    ELSE LET child == Rewritten(NodeAt(node, <<Head(path)>>), Tail(path), new)
         IN IF TypeOf(node) = "array" THEN With(node, "items", child)
            ELSE With(node, "properties", With(Get(node, "properties"), Head(path), child))

Respelt(d) == Dec(d.neg, d.c * 10, d.e - 1)

Reordered(value) ==
    IF value.t = "object" THEN Obj(Reverse(value.members)) ELSE Arr(Reverse(value.items))

\* Edits that leave the rules of a node alone.
Cosmetic(node) ==
    {With(node, a, Str("text")) : a \in SCHEMA_ANNOTATIONS}
    \union {Without(node, a) : a \in SCHEMA_ANNOTATIONS}
    \union {Reordered(node)}
    \union {With(node, k, Reordered(Get(node, k))) :
              k \in {k \in {"required", "enum", "properties"} \intersect Keys(node) :
                        Get(node, k).t \in {"array", "object"}}}
    \union {With(node, k, Respelt(Get(node, k))) :
              k \in {k \in Keys(node) : number(Get(node, k))}}

\* Edits that change a rule: a keyword dropped, or given another value.
RuleEdits(node) ==
    {Without(node, k) : k \in Keys(node) \ SCHEMA_ANNOTATIONS}
    \union UNION {{With(node, k, v) : v \in {v \in Rules[k] :
                       ~(Has(node, k) /\ json_equal(Get(node, k), v))}} : k \in DOMAIN Rules}

CosmeticEdits(schema) ==
    UNION {{Rewritten(schema, path, node) : node \in Cosmetic(NodeAt(schema, path))} :
             path \in NodePaths(schema, << >>)}

AllRuleEdits(schema) ==
    UNION {{Rewritten(schema, path, node) : node \in RuleEdits(NodeAt(schema, path))} :
             path \in NodePaths(schema, << >>)}
=============================================================================
