--------------------------- MODULE ContractCheck ----------------------------
(***************************************************************************)
(* check_contract of scripts/check_contract.py, with safe_file and           *)
(* load_canonical_schemas: the walk over the manifest of the fixture corpus. *)
(*                                                                         *)
(* The checkout does not change while the check runs.  A path is the         *)
(* sequence of its parts from the contract's directory, and tree gives what  *)
(* is found there, also through a symlink.  What the JSON and schema code    *)
(* makes of a file is a table over the contents of files.  Errors form a     *)
(* set: their order and the cut at MAX_ERRORS change the report only, and    *)
(* an empty report is an empty set.                                         *)
(***************************************************************************)
EXTENDS Integers, Sequences

CONSTANTS Paths,              \* the paths that may be looked at
          Contents,           \* what a file may hold
          Reads,              \* content -> "value", "document" or "artifact"
          InProfile,          \* the contents schema_issues passes
          Breaks,             \* <<fixture, schema>> -> the violations reported
          Drift,              \* loaded schemas -> errors about them together
          CanonicalPaths,     \* the paths of the canonical schemas
          Keywords,           \* SUPPORTED_KEYWORDS
          Slugs,              \* the names CASE_NAME matches
          Checkouts,          \* the trees and manifests to be checked
          None                \* Python's None: no content

\* Whatever is there is in a directory, or seen through a symlink to one.
InDirectories(files) ==
    \A path \in Paths : files[path].kind # "absent" =>
        \A n \in 1 .. Len(path) - 1 :
            /\ SubSeq(path, 1, n) \in Paths
            /\ files[SubSeq(path, 1, n)].kind \in {"directory", "symlink"}

\* A path as the manifest spells it, and a case as the manifest gives it.
RawPath == [form : {"plain", "aliased", "unbounded"}, parts : Seq(STRING)]
ManifestCase ==
    [fields : BOOLEAN, name : STRING, valid : {"true", "false", "other"},
     meaning : {"absent", "text", "other"}, expected : {"absent", "malformed", "violation"},
     violation : [keyword : STRING, path : Seq(STRING)], schema : RawPath, fixture : RawPath]

ASSUME PathsAssumption == Paths \subseteq Seq(STRING) \ {<< >>}
ASSUME CanonicalAssumption ==
    \A path \in CanonicalPaths :
        /\ path \in Paths /\ path[1] = "schema"
        /\ \A n \in DOMAIN path : path[n] # ".."
ASSUME ReadsAssumption ==
    \A content \in Contents : Reads[content] \in {"value", "document", "artifact"}
ASSUME NoneAssumption == None \notin Contents
ASSUME CheckoutsAssumption ==
    \A checkout \in Checkouts :
        /\ InDirectories(checkout.tree)
        /\ \A path \in Paths :
              checkout.tree[path] \in [kind : {"absent", "directory", "file", "symlink", "special"},
                                      content : Contents]
        /\ checkout.manifest.cases \in Seq(ManifestCase)

VARIABLES tree,               \* path -> what is there
          manifest,           \* what fixtures/cases.json says
          pc, i, errors, names, fixture_paths, schemas, coverage

vars == <<tree, manifest, pc, i, errors, names, fixture_paths, schemas, coverage>>

CasesPath == <<"fixtures", "cases.json">>
JsonViolation == [keyword |-> "json", path |-> << >>]

-----------------------------------------------------------------------------
(* Paths.                                                                  *)

Within(prefix, path) ==
    Len(prefix) <= Len(path) /\ SubSeq(path, 1, Len(prefix)) = prefix

ThroughSymlink(path) == \E n \in 1 .. Len(path) :
    SubSeq(path, 1, n) \in Paths /\ tree[SubSeq(path, 1, n)].kind = "symlink"

IsFile(path) == path \in Paths /\ tree[path].kind = "file"

\* Symlinks on the way to the file are not looked for.
MutSymlinkedParent(raw, prefix) ==
    CASE raw.form = "unbounded" -> "bounded"
      [] raw.form = "aliased" \/ \E n \in DOMAIN raw.parts : raw.parts[n] = ".." -> "normalized"
      [] ~Within(prefix, raw.parts) -> "prefix"
      [] ~IsFile(raw.parts) -> "regular file"
      [] OTHER -> "none"

\* What safe_file objects to in a path of the manifest, or "none".
safe_file(raw, prefix) ==
    CASE raw.form = "unbounded" -> "bounded"
      [] raw.form = "aliased" \/ \E n \in DOMAIN raw.parts : raw.parts[n] = ".." -> "normalized"
      [] ~Within(prefix, raw.parts) -> "prefix"
      [] ThroughSymlink(raw.parts) -> "symlink"
      [] ~IsFile(raw.parts) -> "regular file"
      [] OTHER -> "none"

\* What os.walk meets below a root: it does not go through symlinks.
Walked(root) ==
    {path \in Paths : /\ Within(root, path) /\ path # root
                      /\ \A n \in Len(root) + 1 .. Len(path) - 1 :
                            tree[SubSeq(path, 1, n)].kind = "directory"
                      /\ tree[path].kind # "absent"}

InventoryErrors(root, known) ==
    {<<"tree", path, "symlink">> : path \in {p \in Walked(root) : tree[p].kind = "symlink"}}
    \union {<<"tree", path, "unexpected">> :
              path \in {p \in Walked(root) : tree[p].kind \in {"file", "special"}} \ known}

-----------------------------------------------------------------------------
(* load_canonical_schemas.                                                 *)

SchemaErrors(path) ==
    LET located == safe_file([form |-> "plain", parts |-> path], <<"schema">>)
    IN CASE located # "none" -> {<<"schema", path, located>>}
         [] Reads[tree[path].content] # "value" -> {<<"schema", path, "not loaded">>}
         [] tree[path].content \notin InProfile -> {<<"schema", path, "not in the profile">>}
         [] OTHER -> {}

LoadedSchema(path) == IF SchemaErrors(path) = {} THEN tree[path].content ELSE None

load_canonical_schemas ==
    /\ schemas' = [path \in CanonicalPaths |-> LoadedSchema(path)]
    /\ errors' = errors \union (UNION {SchemaErrors(path) : path \in CanonicalPaths})
                        \union InventoryErrors(<<"schema">>, CanonicalPaths)
                        \union Drift[schemas']

-----------------------------------------------------------------------------
(* One case of the manifest.                                               *)

Case(n) == manifest.cases[n]
IsBoolean(case) == case.valid \in {"true", "false"}
Named(case) == case.fields /\ case.name \in Slugs
FixturePrefix(case) == <<"fixtures", IF case.valid = "true" THEN "valid" ELSE "invalid">>
SchemaPath(case) == case.schema.parts
FixturePath(case) == case.fixture.parts

NameErrors(case) ==
    IF case.name \notin Slugs THEN {"name"}
    ELSE IF case.name \in names THEN {"duplicate name"} ELSE {}

MetadataErrors(case) ==
    (IF case.meaning = "other" THEN {"meaning"} ELSE {}) \union
    CASE case.valid = "true" /\ case.expected # "absent" -> {"expected on a valid case"}
      [] case.valid = "false" /\ case.expected \in {"absent", "malformed"} -> {"expected fields"}
      [] case.valid = "false" /\ case.expected = "violation"
           /\ case.violation.keyword \notin Keywords \union {"json"} -> {"expected keyword"}
      [] OTHER -> {}

\* The violation an invalid case intends, when its metadata can be used.
Expected(case) ==
    IF case.valid = "false" /\ case.expected = "violation" /\ MetadataErrors(case) \subseteq {"meaning"}
    THEN {case.violation} ELSE {}

PathErrors(case) ==
    (IF safe_file(case.schema, <<"schema">>) # "none" THEN {"schema path"} ELSE {})
    \union (IF safe_file(case.fixture, FixturePrefix(case)) # "none" THEN {"fixture path"} ELSE {})

\* Both files are there and the schema is a canonical one: the case counts.
Counted(case) ==
    /\ case.fields /\ IsBoolean(case)
    /\ PathErrors(case) = {} /\ SchemaPath(case) \in CanonicalPaths

ForeignSchema(case) ==
    IF PathErrors(case) = {} /\ SchemaPath(case) \notin CanonicalPaths
    THEN {"schema not canonical"} ELSE {}

DuplicateFixture(case) ==
    IF Counted(case) /\ FixturePath(case) \in fixture_paths THEN {"duplicate fixture"} ELSE {}

Reading(case) == Reads[tree[FixturePath(case)].content]

Found(case) ==
    IF Reading(case) = "document" THEN {JsonViolation}
    ELSE Breaks[<<tree[FixturePath(case)].content, schemas[SchemaPath(case)]>>]

\* A fixture that cannot be read is passed over as well.
MutArtifactSkipped(case) ==
    CASE ~Counted(case) -> {}
      [] schemas[SchemaPath(case)] = None \/ Reading(case) = "artifact" -> {}
      [] case.valid = "true" /\ Found(case) # {} -> {"expected valid"}
      [] case.valid = "false" /\ Found(case) = {} -> {"accepted"}
      [] case.valid = "false" /\ ~ Expected(case) \subseteq Found(case) -> {"intended rule"}
      [] OTHER -> {}

\* Without its schema a case is passed over in silence.
VerdictErrors(case) ==
    CASE ~Counted(case) -> {}
      [] schemas[SchemaPath(case)] = None -> {}
      [] Reading(case) = "artifact" -> {"fixture not loaded"}
      [] case.valid = "true" /\ Found(case) # {} -> {"expected valid"}
      [] case.valid = "false" /\ Found(case) = {} -> {"accepted"}
      [] case.valid = "false" /\ ~ Expected(case) \subseteq Found(case) -> {"intended rule"}
      [] OTHER -> {}

CaseErrors(case) ==
    IF ~case.fields THEN {"fields"}
    ELSE IF ~IsBoolean(case) THEN NameErrors(case) \union {"valid"}
    ELSE NameErrors(case) \union MetadataErrors(case) \union PathErrors(case)
         \union ForeignSchema(case) \union DuplicateFixture(case) \union VerdictErrors(case)

CoverageErrors ==
    {<<"schema", path, "coverage">> : path \in
        {p \in CanonicalPaths : \E outcome \in {"true", "false"} : <<p, outcome>> \notin coverage}}

-----------------------------------------------------------------------------
(* check_contract.                                                         *)

Init ==
    /\ \E checkout \in Checkouts : tree = checkout.tree /\ manifest = checkout.manifest
    /\ pc = "manifest" /\ i = 1 /\ errors = {}
    /\ names = {} /\ fixture_paths = {} /\ coverage = {}
    /\ schemas = [path \in CanonicalPaths |-> None]

Keep == UNCHANGED <<tree, manifest>>

\* The manifest is read: three of its faults end the check at once.
ReadManifest ==
    /\ pc = "manifest"
    /\ errors' = (IF manifest.read # "value" THEN {<<"manifest", "read">>}
                  ELSE IF ~manifest.root THEN {<<"manifest", "root">>}
                  ELSE (IF manifest.version = "v1" THEN {} ELSE {<<"manifest", "version">>})
                       \union IF manifest.cases = << >> THEN {<<"manifest", "cases">>} ELSE {})
    /\ pc' = IF manifest.read = "value" /\ manifest.root /\ manifest.cases # << >>
             THEN "schemas" ELSE "done"
    /\ UNCHANGED <<i, names, fixture_paths, schemas, coverage>> /\ Keep

LoadSchemas ==
    /\ pc = "schemas" /\ pc' = "cases"
    /\ load_canonical_schemas
    /\ UNCHANGED <<i, names, fixture_paths, coverage>> /\ Keep

TakeCase ==
    /\ pc = "cases" /\ i <= Len(manifest.cases)
    /\ LET case == Case(i)
       IN /\ errors' = errors \union {<<"case", i, error>> : error \in CaseErrors(case)}
          /\ names' = names \union IF Named(case) THEN {case.name} ELSE {}
          /\ fixture_paths' = fixture_paths \union IF Counted(case) THEN {FixturePath(case)} ELSE {}
          /\ coverage' = coverage
                \union IF Counted(case) THEN {<<SchemaPath(case), case.valid>>} ELSE {}
    /\ i' = i + 1
    /\ UNCHANGED <<pc, schemas>> /\ Keep

Finish ==
    /\ pc = "cases" /\ i > Len(manifest.cases)
    /\ errors' = errors \union InventoryErrors(<<"fixtures">>, fixture_paths \union {CasesPath})
                        \union CoverageErrors
    /\ pc' = "done"
    /\ UNCHANGED <<i, names, fixture_paths, schemas, coverage>> /\ Keep

Next == ReadManifest \/ LoadSchemas \/ TakeCase \/ Finish

Spec == Init /\ [][Next]_vars

-----------------------------------------------------------------------------
(* What a sound corpus is, said of the checkout as a whole.                 *)

RealFile(path) ==
    /\ path \in Paths /\ tree[path].kind = "file"
    /\ \A n \in 1 .. Len(path) - 1 : tree[SubSeq(path, 1, n)].kind = "directory"

\* The manifest names a file plainly, below the directory it belongs to.
NamesFile(raw, prefix) ==
    /\ raw.form = "plain" /\ \A n \in DOMAIN raw.parts : raw.parts[n] # ".."
    /\ Within(prefix, raw.parts) /\ RealFile(raw.parts)

SoundMetadata(case) ==
    /\ case.fields /\ IsBoolean(case) /\ case.name \in Slugs /\ case.meaning # "other"
    /\ case.valid = "true" => case.expected = "absent"
    /\ case.valid = "false" => /\ case.expected = "violation"
                              /\ case.violation.keyword \in Keywords \union {"json"}

\* A valid fixture keeps every rule, an invalid one breaks the rule intended.
SoundVerdict(case) ==
    LET reading == Reads[tree[case.fixture.parts].content]
        broken == Breaks[<<tree[case.fixture.parts].content, tree[case.schema.parts].content>>]
    IN \/ case.valid = "true" /\ reading = "value" /\ broken = {}
       \/ case.valid = "false" /\ reading = "value" /\ case.violation \in broken
       \/ case.valid = "false" /\ reading = "document" /\ case.violation = JsonViolation

SoundCase(case) ==
    /\ SoundMetadata(case)
    /\ NamesFile(case.schema, <<"schema">>) /\ case.schema.parts \in CanonicalPaths
    /\ NamesFile(case.fixture, FixturePrefix(case))
    /\ SoundVerdict(case)

SoundSchemas ==
    /\ \A path \in CanonicalPaths :
          /\ RealFile(path)
          /\ Reads[tree[path].content] = "value" /\ tree[path].content \in InProfile
    /\ Drift[[path \in CanonicalPaths |-> tree[path].content]] = {}

\* Nothing lies below a root but directories and the files that belong there.
OnlyKnown(root, known) ==
    \A path \in Walked(root) :
        tree[path].kind = "directory" \/ (tree[path].kind # "symlink" /\ path \in known)

SoundCorpus ==
    /\ manifest.read = "value" /\ manifest.root /\ manifest.version = "v1"
    /\ manifest.cases # << >>
    /\ SoundSchemas
    /\ OnlyKnown(<<"schema">>, CanonicalPaths)
    /\ \A n \in 1 .. Len(manifest.cases) : SoundCase(Case(n))
    /\ \A m, n \in 1 .. Len(manifest.cases) : m < n =>
          /\ Case(m).name # Case(n).name
          /\ Case(m).fixture.parts # Case(n).fixture.parts
    /\ OnlyKnown(<<"fixtures">>, {CasesPath} \union
                     {Case(n).fixture.parts : n \in 1 .. Len(manifest.cases)})
    /\ \A path \in CanonicalPaths : \A outcome \in {"true", "false"} :
          \E n \in 1 .. Len(manifest.cases) :
              Case(n).schema.parts = path /\ Case(n).valid = outcome

-----------------------------------------------------------------------------
(* check_contract.py:638-763.  The check is silent exactly on sound corpora. *)
(* Its loop leaves a case at six different places with continue, one of them *)
(* without a message; names, paths and coverage are collected on the way,   *)
(* and what is wrong may only show when two cases, or a case and the tree,   *)
(* are seen together.                                                      *)
PassExactly == pc = "done" => (errors = {} <=> SoundCorpus)

Judged(case) ==
    /\ Counted(case) /\ schemas[SchemaPath(case)] # None /\ Reading(case) # "artifact"

(* check_contract.py:703-722.  A case that never comes to a verdict is named *)
(* in an error of its own, or its schema is.                               *)
EveryCaseAccountedFor ==
    pc = "cases" => \A n \in 1 .. i - 1 :
        \/ Judged(Case(n))
        \/ \E error \in errors :
              \/ error[1] = "case" /\ error[2] = n
              \/ error[1] = "schema" /\ error[2] = Case(n).schema.parts
=============================================================================
