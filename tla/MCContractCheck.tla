-------------------------- MODULE MCContractCheck ---------------------------
(***************************************************************************)
(* ContractCheck for TLC, over the models of the parser, the profile, the    *)
(* validator and the lock: a sound corpus, and every checkout that differs   *)
(* from it in one place of the tree and in one field of the manifest.       *)
(***************************************************************************)
EXTENDS ContractCheck, CanonicalSchemas, SmallDocuments

Kinds == {"request", "success", "failure"}

Turn(kind, rest) ==
    Obj(<< <<"version", Str("v1")>>, <<"kind", Str(kind)>>,
             <<"request_id", Str("a")>> >> \o rest)

Documents ==
    [request |-> SmallSchemas["request"], success |-> SmallSchemas["success"],
     failure |-> SmallSchemas["failure"],
     open |-> Obj(<< <<"type", Str("object")>> >>),
     drifted |-> Obj(Append(SmallSchemas["request"].members,
                              <<"enum", Arr(<<Obj(<< >>)>>)>>)),
     turn |-> Turn("request", << <<"model_alias", Str("a")>> >>),
     result |-> Turn("success", << >>), error |-> Turn("failure", << <<"error", Obj(<< >>)>> >>),
     wrong |-> Turn("bb", << <<"model_alias", Str("a")>>, <<"error", Obj(<< >>)>> >>),
     syntax |-> [t |-> "fault", class |-> "document"], huge |-> Null]

MCContents == DOMAIN Documents

File(content) == [readable |-> TRUE, bytes |-> IF content = "huge" THEN 3 ELSE 1, utf8 |-> TRUE,
                  text |-> Documents[content]]
Read(content) == strict_json(File(content))

-----------------------------------------------------------------------------
(* What those models make of the documents, as tables.                     *)

MCReads == [c \in MCContents |-> CASE c = "syntax" -> "document"
                                    [] c = "huge" -> "artifact"
                                    [] OTHER -> "value"]
MCInProfile == Kinds \union {"drifted"}

Broken(keyword) == [keyword |-> keyword, path |-> << >>]
BadKind == [keyword |-> "const", path |-> <<"kind">>]

\* fixture -> the schemas it lacks a member for, or has one too many for.
Lacking == [turn |-> {"failure"}, result |-> {"request", "failure"}, error |-> {"request"}]
Surplus == [turn |-> {"success", "failure"}, result |-> { }, error |-> {"request", "success"}]
Turns == [turn |-> "request", result |-> "success", error |-> "failure"]

BrokenBy(content, schema) ==
    CASE content \in DOMAIN Turns ->
            (IF schema \in Lacking[content] THEN {Broken("required")} ELSE {})
            \union (IF schema \in Surplus[content] THEN {Broken("additionalProperties")} ELSE {})
            \union (IF schema = Turns[content] THEN {} ELSE {BadKind})
      [] content = "wrong" -> {Broken("additionalProperties"), BadKind}
      [] OTHER -> {Broken("required")}
                  \union IF schema = "success" THEN {Broken("additionalProperties")} ELSE {}

MCBreaks ==
    [pair \in MCContents \X MCInProfile |->
        IF MCReads[pair[1]] # "value" THEN {}
        ELSE IF pair[2] = "drifted" THEN BrokenBy(pair[1], "request") \union {Broken("enum")}
        ELSE BrokenBy(pair[1], pair[2])]

SchemaFile(kind) == <<"schema", kind>>
MCCanonical == {SchemaFile(kind) : kind \in Kinds}

\* With a schema missing nothing is said of the rest.
MCDrift ==
    [loaded \in [MCCanonical -> MCInProfile \union {"None"}] |->
        IF \E path \in MCCanonical : loaded[path] = "None" THEN {}
        ELSE {<<"together", path, "drift">> : path \in {p \in MCCanonical : loaded[p] # p[2]}}]

Together(loaded) ==
    LET three == [kind \in Kinds |-> IF loaded[SchemaFile(kind)] = "None" THEN Null
                                     ELSE Documents[loaded[SchemaFile(kind)]]]
    IN check_canonical_schema_invariants(three) \union check_schema_parity(three)

ASSUME ReadsAsModelled ==
    \A c \in MCContents : MCReads[c] = IF Read(c).ok THEN "value" ELSE Read(c).class
ASSUME ProfileAsModelled ==
    MCInProfile = {c \in MCContents : MCReads[c] = "value" /\ schema_issues(Documents[c]) = {}}
ASSUME BreaksAsModelled ==
    \A pair \in DOMAIN MCBreaks : MCReads[pair[1]] = "value" =>
        MCBreaks[pair] = ToSet(validate_instance(Documents[pair[1]], Documents[pair[2]]))
ASSUME DriftAsModelled ==
    \A loaded \in DOMAIN MCDrift : MCDrift[loaded] = {} <=> Together(loaded) = {}

-----------------------------------------------------------------------------
(* Checkouts.                                                              *)

Valid(name) == <<"fixtures", "valid", name>>
Invalid(name) == <<"fixtures", "invalid", name>>
Directories == {<<"schema">>, <<"fixtures">>, <<"fixtures", "valid">>, <<"fixtures", "invalid">>}
Leaves == MCCanonical \union {CasesPath, <<"schema", "extra">>}
          \union {Valid(n) : n \in Kinds \union {"extra"}} \union {Invalid(n) : n \in Kinds}
MCPaths == Directories \union Leaves

There(kind, content) == [kind |-> kind, content |-> content]

GoodFixture == [request |-> "turn", success |-> "result", failure |-> "error"]

SoundTree ==
    [path \in MCPaths |->
        CASE path \in Directories -> There("directory", "huge")
          [] path \in MCCanonical -> There("file", path[2])
          [] path = CasesPath -> There("file", "huge")
          [] path[Len(path)] = "extra" -> There("absent", "huge")
          [] path[2] = "valid" -> There("file", GoodFixture[path[3]])
          [] OTHER -> There("file", "wrong")]

LeafEdits ==
    {There(kind, "huge") : kind \in {"absent", "symlink", "special", "directory"}}
    \union {There("file", content) : content \in MCContents}

Trees ==
    {SoundTree}
    \union {[SoundTree EXCEPT ![path] = There("symlink", "huge")] : path \in Directories}
    \union {[SoundTree EXCEPT ![path] = edit] : path \in Leaves \ {Valid("failure"), Invalid("success")},
                                                edit \in LeafEdits}

Raw(parts) == [form |-> "plain", parts |-> parts]

ValidCase(kind) ==
    [fields |-> TRUE, name |-> kind, valid |-> "true", meaning |-> "text", expected |-> "absent",
     violation |-> JsonViolation, schema |-> Raw(SchemaFile(kind)), fixture |-> Raw(Valid(kind))]
InvalidCase(kind, name) ==
    [fields |-> TRUE, name |-> name, valid |-> "false", meaning |-> "absent", expected |-> "violation",
     violation |-> BadKind, schema |-> Raw(SchemaFile(kind)), fixture |-> Raw(Invalid(kind))]

SoundCases ==
    <<ValidCase("request"), InvalidCase("request", "bad-request"), ValidCase("success"),
      InvalidCase("success", "bad-success"), ValidCase("failure"), InvalidCase("failure", "bad-failure")>>

FieldEdits ==
    [name |-> {"request", "Not A Slug"},
     valid |-> {"true", "false", "other"},
     meaning |-> {"other"},
     expected |-> {"absent", "malformed", "violation"},
     violation |-> {JsonViolation, [keyword |-> "bogus", path |-> << >>],
                    [keyword |-> "required", path |-> << >>]},
     schema |-> {Raw(SchemaFile("success")), Raw(<<"schema", "extra">>), Raw(Valid("request")),
                 Raw(<<"schema", "..", "schema", "request">>)},
     fixture |-> {Raw(Valid("success")), Raw(Valid("extra")), Raw(Invalid("failure")), Raw(CasesPath),
                  [form |-> "aliased", parts |-> Valid("request")],
                  [form |-> "unbounded", parts |-> << >>]},
     fields |-> {FALSE}]

Manifest(read, root, version, cases) ==
    [read |-> read, root |-> root, version |-> version, cases |-> cases]
Holding(cases) == Manifest("value", TRUE, "v1", cases)

Manifests ==
    {Holding(SoundCases), Holding(<< >>), Manifest("document", TRUE, "v1", << >>),
     Manifest("value", FALSE, "v1", << >>), Manifest("value", TRUE, "v2", SoundCases),
     Holding(SubSeq(SoundCases, 1, 5)), Holding(Append(SoundCases, InvalidCase("failure", "again")))}
    \union UNION {{Holding([SoundCases EXCEPT ![n] = [SoundCases[n] EXCEPT ![f] = v]]) :
                     n \in {1, 2, 3}, v \in FieldEdits[f]} : f \in DOMAIN FieldEdits}

MCSlugs == Kinds \union {"bad-request", "bad-success", "bad-failure", "again"}
MCCheckouts == [tree : Trees, manifest : Manifests]
=============================================================================
