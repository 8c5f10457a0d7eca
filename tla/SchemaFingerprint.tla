------------------------- MODULE SchemaFingerprint --------------------------
(***************************************************************************)
(* schema_validation_fingerprint of scripts/check_contract.py: the canonical *)
(* form of a schema whose digest is compared with the frozen one.  SHA-256   *)
(* and the canonical text are taken to be injective, so two fingerprints    *)
(* are equal exactly when the forms are.  Members sorted by name become a    *)
(* set, items sorted by their text a bag.                                   *)
(***************************************************************************)
EXTENDS JSONDocument

SCHEMA_ANNOTATIONS == {"title", "description"}
SCHEMA_UNORDERED_ARRAYS == {"required", "enum"}

RECURSIVE StripZeros(_, _)
StripZeros(c, e) == IF c % 10 = 0 THEN StripZeros(c \div 10, e + 1) ELSE <<c, e>>

\* The key spells the number: 1.0 and 1 differ.
MutKeyKeepsSpelling(d) == <<d.neg, d.c, d.e>>

number_key(d) ==
    IF d.c = 0 THEN <<FALSE, 0, 0>> ELSE <<d.neg>> \o StripZeros(d.c, d.e)

Bag(seq) == [x \in ToSet(seq) |-> Cardinality({i \in DOMAIN seq : seq[i] = x})]

\* Annotations are dropped wherever the name appears.
MutDroppedEverywhere(schema_node) == SCHEMA_ANNOTATIONS

Dropped(schema_node) == IF schema_node THEN SCHEMA_ANNOTATIONS ELSE {}

RECURSIVE encode(_, _)
encode(value, schema_node) ==
    LET names(object) == {<<m[1], encode(m[2], TRUE)>> : m \in ToSet(object.members)}
        unordered(array) == Bag([i \in DOMAIN array.items |-> encode(array.items[i], FALSE)])
        member(key, child) ==
            IF ~schema_node THEN encode(child, FALSE)
            ELSE CASE key = "properties" -> [obj |-> names(child)]
                   [] key = "items" -> encode(child, TRUE)
                   [] key \in SCHEMA_UNORDERED_ARRAYS -> [bag |-> unordered(child)]
                   [] OTHER -> encode(child, FALSE)
    IN CASE value.t = "object" ->
              [obj |-> {<<m[1], member(m[1], m[2])>> :
                          m \in {m \in ToSet(value.members) : m[1] \notin Dropped(schema_node)}}]
         [] value.t = "array" ->
              [arr |-> [i \in DOMAIN value.items |-> encode(value.items[i], FALSE)]]
         [] value.t = "string" -> [str |-> value.s]
         [] value.t = "boolean" -> [bool |-> value.b]
         [] value.t = "number" -> [num |-> number_key(value)]
         [] OTHER -> [none |-> "null"]

schema_validation_fingerprint(schema) == encode(schema, TRUE)
=============================================================================
