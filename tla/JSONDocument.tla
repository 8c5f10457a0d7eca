---------------------------- MODULE JSONDocument ----------------------------
(***************************************************************************)
(* How scripts/check_contract.py reads a JSON document and compares JSON    *)
(* values: strict_json, require_unicode_scalars, matches_type, json_equal.  *)
(*                                                                         *)
(* A value is a record tagged with its JSON type.  A number is the Decimal  *)
(* it was parsed into (sign, coefficient, exponent), so that 1, 1.0 and     *)
(* 10e-1 are three spellings of one number.  An object is the sequence of   *)
(* its members in document order, which Python dictionaries keep.           *)
(***************************************************************************)
EXTENDS Integers, SequencesExt

CONSTANTS MAX_JSON_BYTES, MAX_NESTING_DEPTH,
          LoneStrings      \* the strings that hold an unpaired surrogate

JSON_TYPES == {"object", "array", "string", "integer", "number", "boolean", "null"}

Null == [t |-> "null"]
Bool(b) == [t |-> "boolean", b |-> b]
Str(s) == [t |-> "string", s |-> s]
Dec(neg, c, e) == [t |-> "number", neg |-> neg, c |-> c, e |-> e]
Int0(n) == Dec(FALSE, n, 0)
Arr(items) == [t |-> "array", items |-> items]
Obj(members) == [t |-> "object", members |-> members]

Keys(object) == {object.members[i][1] : i \in DOMAIN object.members}
Has(object, key) == key \in Keys(object)

\* dict.get: None, which is also JSON's null, when the key is absent.
Get(object, key) ==
    IF Has(object, key)
    THEN object.members[SelectInSeq(object.members, LAMBDA m : m[1] = key)][2]
    ELSE Null

\* The values directly inside a value.
Children(value) ==
    CASE value.t = "array" -> value.items
      [] value.t = "object" -> [i \in DOMAIN value.members |-> value.members[i][2]]
      [] OTHER -> << >>

-----------------------------------------------------------------------------
(* Exact numbers.                                                          *)

Scaled(d, e) == (IF d.neg THEN -1 ELSE 1) * d.c * 10 ^ (d.e - e)
Lower(a, b) == IF a.e < b.e THEN a.e ELSE b.e
NumberEqual(a, b) == Scaled(a, Lower(a, b)) = Scaled(b, Lower(a, b))
NumberLess(a, b) == Scaled(a, Lower(a, b)) < Scaled(b, Lower(a, b))
IsIntegral(d) == d.e >= 0 \/ d.c % 10 ^ (-d.e) = 0

matches_type(value, schema_type) ==
    IF schema_type = "integer"
    THEN value.t = "number" /\ IsIntegral(value)
    ELSE value.t = (IF schema_type \in JSON_TYPES THEN schema_type ELSE "null")

RECURSIVE json_equal(_, _)

\* Two arrays compared item by item without their lengths.
MutEqualIgnoresLength(left, right) ==
    /\ left.t = right.t
    /\ CASE left.t = "number" -> NumberEqual(left, right)
         [] left.t = "array" -> \A i \in DOMAIN left.items \intersect DOMAIN right.items :
                                   json_equal(left.items[i], right.items[i])
         [] OTHER -> left = right

json_equal(left, right) ==
    /\ left.t = right.t
    /\ CASE left.t = "number" -> NumberEqual(left, right)
         [] left.t = "array" ->
              /\ Len(left.items) = Len(right.items)
              /\ \A i \in DOMAIN left.items : json_equal(left.items[i], right.items[i])
         [] left.t = "object" ->
              /\ Keys(left) = Keys(right)
              /\ \A key \in Keys(left) : json_equal(Get(left, key), Get(right, key))
         [] OTHER -> left = right

-----------------------------------------------------------------------------
(* strict_json.  A failure is about the repository's artifact (the guards   *)
(* and the file system) or about the protocol's JSON profile ("document").  *)

Fail(class) == [ok |-> FALSE, class |-> class]
Loaded(value) == [ok |-> TRUE, value |-> value]

\* dict(pairs): the last member of a name wins.
MutDuplicatesLastWins(text) == FALSE

DuplicateKey(text) ==
    text.t = "object" /\ Cardinality(Keys(text)) # Len(text.members)

(* json.loads reads from left to right and stops at the first failure: at   *)
(* text it cannot take (a value with tag "fault": NaN, bad syntax, a number *)
(* out of Decimal's range, nesting deeper than the interpreter's stack,     *)
(* each raising its class), or in unique_object when an object closes.      *)
RECURSIVE FirstFault(_)
FirstFault(text) ==
    LET parts == Children(text)
        broken == SelectInSeq(parts, LAMBDA part : FirstFault(part) # "none")
    IN CASE text.t = "fault" -> text.class
         [] broken # 0 -> FirstFault(parts[broken])
         [] DuplicateKey(text) -> "document"
         [] OTHER -> "none"

(* A stack of <<value, depth>>: the last one pushed is looked at first.  A   *)
(* key has the depth of its object, a member or an item one more.           *)
RECURSIVE Scan(_)
Scan(pending) ==
    IF pending = << >> THEN "none" ELSE
    LET value == Last(pending)[1]
        depth == Last(pending)[2]
        inside(v) == [i \in DOMAIN Children(v) |-> <<Children(v)[i], depth + 1>>]
        keys == IF value.t # "object" THEN << >>
                ELSE [i \in DOMAIN value.members |-> <<Str(value.members[i][1]), depth>>]
    IN CASE depth > MAX_NESTING_DEPTH -> "artifact"
         [] value.t = "string" /\ value.s \in LoneStrings -> "document"
         [] OTHER -> Scan(Front(pending) \o keys \o inside(value))

\* The depth guard reported like a violation of the protocol's profile.
MutGuardAsProtocol(document) ==
    IF Scan(<< <<document, 0>> >>) = "none" THEN "none" ELSE "document"

require_unicode_scalars(document) == Scan(<< <<document, 0>> >>)

strict_json(file) ==
    LET fault == FirstFault(file.text)
        scan == require_unicode_scalars(file.text)
    IN CASE ~file.readable -> Fail("artifact")
         [] file.bytes > MAX_JSON_BYTES -> Fail("artifact")
         [] ~file.utf8 -> Fail("document")
         [] fault # "none" -> Fail(fault)
         [] scan # "none" -> Fail(scan)
         [] OTHER -> Loaded(file.text)
=============================================================================
