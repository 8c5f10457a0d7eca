------------------------ MODULE ContractCheckProofs -------------------------
(***************************************************************************)
(* check_contract is silent exactly on sound corpora, whatever the checkout, *)
(* the canonical schemas and the tables of the JSON and schema code.  The   *)
(* inductive invariant says what the collected sets hold after some of the  *)
(* cases and what an empty report means until then.                        *)
(***************************************************************************)
EXTENDS ContractCheck, SequenceTheorems, TLAPS

\* What the assumptions say of the checkout at hand.
Checkout ==
    /\ InDirectories(tree)
    /\ \A path \in Paths :
          tree[path] \in [kind : {"absent", "directory", "file", "symlink", "special"},
                          content : Contents]
    /\ manifest.cases \in Seq(ManifestCase)

Readable == manifest.read = "value" /\ manifest.root /\ manifest.cases # << >>

Last == Len(manifest.cases)

\* What is sound about case n, given the cases before it.
Good(n) ==
    /\ SoundCase(Case(n))
    /\ \A m \in 1 .. n - 1 : /\ Case(m).name # Case(n).name
                             /\ Case(m).fixture.parts # Case(n).fixture.parts

\* What an empty report means before case n.
Clean(n) ==
    /\ manifest.version = "v1" /\ SoundSchemas
    /\ OnlyKnown(<<"schema">>, CanonicalPaths)
    /\ \A m \in 1 .. n - 1 : Good(m)

\* What the first n - 1 cases contribute to the sets.
Collected(n) ==
    /\ names = {Case(m).name : m \in {k \in 1 .. n - 1 : Named(Case(k))}}
    /\ fixture_paths = {FixturePath(Case(m)) : m \in {k \in 1 .. n - 1 : Counted(Case(k))}}
    /\ coverage = {<<SchemaPath(Case(m)), Case(m).valid>> :
                      m \in {k \in 1 .. n - 1 : Counted(Case(k))}}

IInv ==
    /\ Checkout
    /\ pc \in {"manifest", "schemas", "cases", "done"}
    /\ pc \in {"manifest", "schemas"} =>
          i = 1 /\ names = {} /\ fixture_paths = {} /\ coverage = {}
    /\ pc = "manifest" => errors = {}
    /\ pc = "schemas" => Readable /\ (errors = {} <=> manifest.version = "v1")
    /\ pc = "cases" =>
          /\ Readable /\ i \in 1 .. Last + 1
          /\ schemas = [path \in CanonicalPaths |-> LoadedSchema(path)]
          /\ Collected(i)
          /\ errors = {} <=> Clean(i)
          /\ \A path \in CanonicalPaths : SchemaErrors(path) \subseteq errors
    /\ PassExactly
    /\ EveryCaseAccountedFor

-----------------------------------------------------------------------------
\* safe_file has no objection exactly to a plain name of a real file.
LEMMA SafeFileExact ==
    ASSUME Checkout, NEW raw \in RawPath, NEW prefix
    PROVE  safe_file(raw, prefix) = "none" <=> NamesFile(raw, prefix)
<1> DEFINE parts == raw.parts
           up == \E n \in DOMAIN parts : parts[n] = ".."
<1>1. parts \in Seq(STRING) /\ raw.form \in {"plain", "aliased", "unbounded"}
      /\ Len(parts) \in Nat /\ SubSeq(parts, 1, Len(parts)) = parts
  BY DEF RawPath
<1>2. safe_file(raw, prefix) = "none" <=>
        raw.form = "plain" /\ ~up /\ Within(prefix, parts) /\ ~ThroughSymlink(parts) /\ IsFile(parts)
  BY <1>1 DEF safe_file
<1>3. ~ThroughSymlink(parts) /\ IsFile(parts) <=> RealFile(parts)
  <2>1. ASSUME ~ThroughSymlink(parts), IsFile(parts), NEW n \in 1 .. Len(parts) - 1
        PROVE  tree[SubSeq(parts, 1, n)].kind = "directory"
    <3>1. parts \in Paths /\ tree[parts].kind # "absent"
      BY <2>1 DEF IsFile
    <3>2. SubSeq(parts, 1, n) \in Paths
          /\ tree[SubSeq(parts, 1, n)].kind \in {"directory", "symlink"}
      BY <3>1 DEF Checkout, InDirectories
    <3>3. n \in 1 .. Len(parts)
      BY <1>1
    <3> QED BY <3>2, <3>3, <2>1 DEF ThroughSymlink
  <2>2. ASSUME RealFile(parts), NEW n \in 1 .. Len(parts),
               tree[SubSeq(parts, 1, n)].kind = "symlink"
        PROVE  FALSE
    <3>1. n = Len(parts) \/ n \in 1 .. Len(parts) - 1
      BY <1>1
    <3> QED BY <3>1, <2>2, <1>1 DEF RealFile
  <2> QED BY <2>1, <2>2 DEF ThroughSymlink, IsFile, RealFile
<1> QED BY <1>2, <1>3 DEF NamesFile

\* A canonical schema is loaded without error exactly when it is sound.
LEMMA SchemaErrorsExact ==
    ASSUME Checkout, NEW path \in CanonicalPaths
    PROVE  SchemaErrors(path) = {} <=>
             RealFile(path) /\ Reads[tree[path].content] = "value" /\ tree[path].content \in InProfile
<1> DEFINE raw == [form |-> "plain", parts |-> path]
           located == safe_file(raw, <<"schema">>)
<1>1. path \in Seq(STRING) /\ path # << >> /\ path[1] = "schema"
      /\ \A n \in DOMAIN path : path[n] # ".."
  BY PathsAssumption, CanonicalAssumption
<1>2. raw \in RawPath
  BY <1>1 DEF RawPath
<1>3. Within(<<"schema">>, path)
  <2>1. Len(<<"schema">>) = 1 /\ Len(path) \in Nat /\ 1 <= Len(path)
    BY <1>1
  <2>2. SubSeq(path, 1, 1) = <<path[1]>>
    <3> DEFINE first == SubSeq(path, 1, 1)
               one == <<path[1]>>
    <3>1. path[1] \in STRING /\ \A n \in 1 .. 1 : path[n] \in STRING
      BY <1>1, <2>1
    <3>2. first \in Seq(STRING) /\ Len(first) = 1 /\ first[1] = path[1]
      <4> HIDE DEF first
      <4>1. /\ SubSeq(path, 1, 1) \in Seq(STRING)
            /\ Len(SubSeq(path, 1, 1)) = 1
            /\ \A n \in 1 .. 1 : SubSeq(path, 1, 1)[n] = path[1 + n - 1]
        BY <3>1, SubSeqProperties
      <4> QED BY <4>1 DEF first
    <3>3. one \in Seq(STRING) /\ Len(one) = 1 /\ one[1] = path[1]
      BY <3>1
    <3> HIDE DEF first, one
    <3>4. first = one
      BY <3>2, <3>3, SeqEqual
    <3> QED BY <3>4 DEF first, one
  <2> QED BY <1>1, <2>1, <2>2 DEF Within
<1>4. located = "none" <=> RealFile(path)
  BY SafeFileExact, <1>1, <1>2, <1>3 DEF NamesFile
<1>5. SchemaErrors(path) = {} <=>
        located = "none" /\ Reads[tree[path].content] = "value" /\ tree[path].content \in InProfile
  <2> HIDE DEF located
  <2> QED BY DEF SchemaErrors, located
<1> QED BY <1>4, <1>5

\* What is said of a schema names it.
LEMMA SchemaErrorsNamed ==
    ASSUME NEW path
    PROVE  \A error \in SchemaErrors(path) : error[1] = "schema" /\ error[2] = path
<1> DEFINE located == safe_file([form |-> "plain", parts |-> path], <<"schema">>)
<1>1. SchemaErrors(path) \subseteq
        {<<"schema", path, located>>, <<"schema", path, "not loaded">>,
         <<"schema", path, "not in the profile">>}
  <2> HIDE DEF located
  <2> QED BY DEF SchemaErrors, located
<1> HIDE DEF located
<1> SUFFICES ASSUME NEW error \in SchemaErrors(path)
             PROVE  error[1] = "schema" /\ error[2] = path
  OBVIOUS
<1>2. PICK what : error = <<"schema", path, what>>
  BY <1>1
<1> QED BY <1>2

\* The inventory of a root is silent exactly when only known files are there.
LEMMA InventoryExact ==
    ASSUME Checkout, NEW root, NEW known
    PROVE  InventoryErrors(root, known) = {} <=> OnlyKnown(root, known)
<1>1. \A path \in Walked(root) : tree[path].kind \in {"directory", "file", "symlink", "special"}
  BY DEF Walked, Checkout
<1>2. InventoryErrors(root, known) = {} <=>
        \A path \in Walked(root) :
            /\ tree[path].kind # "symlink"
            /\ tree[path].kind \in {"file", "special"} => path \in known
  BY DEF InventoryErrors
<1> QED BY <1>1, <1>2 DEF OnlyKnown

-----------------------------------------------------------------------------
\* Sound schemas are all there once they are loaded.
LEMMA SoundSchemasLoad ==
    ASSUME Checkout
    PROVE  /\ SoundSchemas <=>
                /\ \A path \in CanonicalPaths : SchemaErrors(path) = {}
                /\ Drift[[path \in CanonicalPaths |-> LoadedSchema(path)]] = {}
           /\ \A path \in CanonicalPaths :
                SchemaErrors(path) = {} => LoadedSchema(path) = tree[path].content
<1>1. \A path \in CanonicalPaths :
        SchemaErrors(path) = {} => LoadedSchema(path) = tree[path].content
  BY DEF LoadedSchema
<1>2. ASSUME \A path \in CanonicalPaths : SchemaErrors(path) = {}
      PROVE  [path \in CanonicalPaths |-> LoadedSchema(path)]
               = [path \in CanonicalPaths |-> tree[path].content]
  BY <1>1, <1>2
<1>3. SoundSchemas <=>
        /\ \A path \in CanonicalPaths : SchemaErrors(path) = {}
        /\ Drift[[path \in CanonicalPaths |-> tree[path].content]] = {}
  BY SchemaErrorsExact DEF SoundSchemas
<1> QED BY <1>1, <1>2, <1>3

\* What an entry of the manifest looks like.
LEMMA CaseTyped ==
    ASSUME Checkout, NEW n \in 1 .. Last
    PROVE  /\ Case(n) \in ManifestCase
           /\ Case(n).schema \in RawPath /\ Case(n).fixture \in RawPath
<1>1. Case(n) \in ManifestCase
  BY DEF Checkout, Case, Last
<1> QED BY <1>1 DEF ManifestCase

\* A case counts when its two paths are good and its schema canonical.
LEMMA CountedExact ==
    ASSUME Checkout, NEW n \in 1 .. Last
    PROVE  /\ PathErrors(Case(n)) = {} <=>
                NamesFile(Case(n).schema, <<"schema">>)
                /\ NamesFile(Case(n).fixture, FixturePrefix(Case(n)))
           /\ SoundCase(Case(n)) => Counted(Case(n)) /\ Named(Case(n))
<1> DEFINE case == Case(n)
<1>1. case.schema \in RawPath /\ case.fixture \in RawPath
  BY CaseTyped
<1>2. PathErrors(case) = {} <=> NamesFile(case.schema, <<"schema">>)
                                /\ NamesFile(case.fixture, FixturePrefix(case))
  BY <1>1, SafeFileExact DEF PathErrors
<1>3. SoundCase(case) => Counted(case) /\ Named(case)
  BY <1>2 DEF SoundCase, SoundMetadata, Counted, Named, SchemaPath
<1> QED BY <1>2, <1>3

\* The metadata are sound exactly when nothing is said about them.
LEMMA MetadataExact ==
    ASSUME Checkout, NEW n \in 1 .. Last, Case(n).fields, IsBoolean(Case(n)),
           Case(n).name \in Slugs
    PROVE  /\ MetadataErrors(Case(n)) = {} <=> SoundMetadata(Case(n))
           /\ SoundMetadata(Case(n)) =>
                Expected(Case(n)) = IF Case(n).valid = "false" THEN {Case(n).violation} ELSE {}
<1> DEFINE case == Case(n)
<1>1. case.valid \in {"true", "false"} /\ case.expected \in {"absent", "malformed", "violation"}
  BY CaseTyped DEF ManifestCase, IsBoolean
<1> HIDE DEF case
<1>2. CASE case.valid = "true"
  BY <1>2, <1>1 DEF MetadataErrors, SoundMetadata, Expected, IsBoolean, case
<1>3. CASE case.valid = "false"
  BY <1>3, <1>1 DEF MetadataErrors, SoundMetadata, Expected, IsBoolean, case
<1> QED BY <1>1, <1>2, <1>3 DEF case

\* With its schema loaded, a case that counts gets the verdict it deserves.
LEMMA VerdictExact ==
    ASSUME Checkout, NEW n \in 1 .. Last, SoundMetadata(Case(n)), Counted(Case(n)),
           schemas[SchemaPath(Case(n))] = tree[SchemaPath(Case(n))].content,
           schemas[SchemaPath(Case(n))] # None
    PROVE  VerdictErrors(Case(n)) = {} <=> SoundVerdict(Case(n))
<1> DEFINE case == Case(n)
           broken == Breaks[<<tree[case.fixture.parts].content, tree[case.schema.parts].content>>]
<1>1. IsBoolean(case) /\ case.name \in Slugs /\ case.fields
  BY DEF SoundMetadata
<1>2. case.valid = "true" \/ case.valid = "false"
  BY <1>1 DEF IsBoolean
<1>3. Expected(case) = IF case.valid = "false" THEN {case.violation} ELSE {}
  BY <1>1, MetadataExact
<1>4. Found(case) = IF Reading(case) = "document" THEN {JsonViolation} ELSE broken
  BY DEF Found, FixturePath, SchemaPath
<1>5. VerdictErrors(case) = {} <=>
        /\ Reading(case) # "artifact"
        /\ case.valid = "true" => Found(case) = {}
        /\ case.valid = "false" => Found(case) # {} /\ Expected(case) \subseteq Found(case)
  BY <1>2 DEF VerdictErrors
<1>6. Reading(case) = Reads[tree[case.fixture.parts].content]
  BY DEF Reading, FixturePath
<1>7. SoundVerdict(case) <=>
        \/ case.valid = "true" /\ Reading(case) = "value" /\ broken = {}
        \/ case.valid = "false" /\ Reading(case) = "value" /\ case.violation \in broken
        \/ case.valid = "false" /\ Reading(case) = "document" /\ case.violation = JsonViolation
  BY <1>6 DEF SoundVerdict
<1>8. Reading(case) \in {"value", "document", "artifact"}
  <2>1. case.fixture \in RawPath
    BY CaseTyped
  <2>2. NamesFile(case.fixture, FixturePrefix(case))
    BY CountedExact DEF Counted
  <2>3. tree[case.fixture.parts].content \in Contents
    BY <2>2 DEF NamesFile, RealFile, Checkout
  <2> QED BY <2>3, <1>6, ReadsAssumption
<1> HIDE DEF case, broken
<1>9. CASE case.valid = "true"
  BY <1>9, <1>4, <1>5, <1>7, <1>8 DEF case
<1>10. CASE case.valid = "false"
  <2>1. CASE Reading(case) = "document"
    BY <2>1, <1>10, <1>3, <1>4, <1>5, <1>7 DEF case
  <2>2. CASE Reading(case) # "document"
    BY <2>2, <1>10, <1>3, <1>4, <1>5, <1>7, <1>8 DEF case
  <2> QED BY <2>1, <2>2
<1> QED BY <1>2, <1>9, <1>10

\* With its schema loaded, a case adds nothing to the report exactly when it
\* is sound and repeats neither a name nor a fixture.
LEMMA CaseExact ==
    ASSUME Checkout, NEW n \in 1 .. Last, SoundSchemas,
           schemas = [path \in CanonicalPaths |-> LoadedSchema(path)]
    PROVE  CaseErrors(Case(n)) = {} <=>
             /\ SoundCase(Case(n))
             /\ Case(n).name \notin names /\ Case(n).fixture.parts \notin fixture_paths
<1> DEFINE case == Case(n)
<1>1. CASE ~(case.fields /\ IsBoolean(case))
  BY <1>1 DEF CaseErrors, SoundCase, SoundMetadata
<1>2. CASE case.fields /\ IsBoolean(case)
  <2>1. CaseErrors(case) = {} <=>
          /\ case.name \in Slugs /\ case.name \notin names
          /\ MetadataErrors(case) = {} /\ PathErrors(case) = {}
          /\ ForeignSchema(case) = {} /\ DuplicateFixture(case) = {} /\ VerdictErrors(case) = {}
    BY <1>2 DEF CaseErrors, NameErrors
  <2>2. PathErrors(case) = {} /\ ForeignSchema(case) = {} <=> Counted(case)
    BY <1>2 DEF ForeignSchema, Counted
  <2>3. Counted(case) => (DuplicateFixture(case) = {} <=> case.fixture.parts \notin fixture_paths)
    BY DEF DuplicateFixture, FixturePath
  <2>4. case.name \in Slugs => (MetadataErrors(case) = {} <=> SoundMetadata(case))
    BY <1>2, MetadataExact
  <2>5. ASSUME Counted(case), SoundMetadata(case)
        PROVE  VerdictErrors(case) = {} <=> SoundVerdict(case)
    <3>1. SchemaPath(case) \in CanonicalPaths
      BY <2>5 DEF Counted
    <3>2. schemas[SchemaPath(case)] = tree[SchemaPath(case)].content
      BY <3>1, SoundSchemasLoad
    <3>3. tree[SchemaPath(case)].content \in Contents
      BY <3>1, CanonicalAssumption DEF Checkout
    <3> HIDE DEF case
    <3>4. schemas[SchemaPath(case)] # None
      BY <3>2, <3>3, NoneAssumption
    <3> USE DEF case
    <3> QED BY <2>5, <3>2, <3>4, VerdictExact
  <2>6. Counted(case) <=>
          /\ NamesFile(case.schema, <<"schema">>) /\ case.schema.parts \in CanonicalPaths
          /\ NamesFile(case.fixture, FixturePrefix(case))
    BY <1>2, CountedExact DEF Counted, SchemaPath
  <2>7. SoundMetadata(case) => case.name \in Slugs
    BY DEF SoundMetadata
  <2>8. SoundCase(case) <=> SoundMetadata(case) /\ Counted(case) /\ SoundVerdict(case)
    BY <2>6 DEF SoundCase
  <2> HIDE DEF case
  <2>9. CaseErrors(case) = {} <=>
          SoundCase(case) /\ case.name \notin names /\ case.fixture.parts \notin fixture_paths
    BY <2>1, <2>2, <2>3, <2>4, <2>5, <2>7, <2>8
  <2> QED BY <2>9 DEF case
<1> QED BY <1>1, <1>2

\* A case that comes to no verdict is named, or its schema is.
LEMMA CaseAccounted ==
    ASSUME Checkout, NEW n \in 1 .. Last,
           schemas = [path \in CanonicalPaths |-> LoadedSchema(path)]
    PROVE  \/ Judged(Case(n))
           \/ CaseErrors(Case(n)) # {}
           \/ Case(n).schema.parts \in CanonicalPaths
                /\ SchemaErrors(Case(n).schema.parts) # {}
<1> DEFINE case == Case(n)
<1>1. CASE ~Counted(case)
  <2>1. ~(case.fields /\ IsBoolean(case)) => CaseErrors(case) # {}
    BY DEF CaseErrors
  <2>2. case.fields /\ IsBoolean(case) => PathErrors(case) # {} \/ ForeignSchema(case) # {}
    BY <1>1 DEF Counted, ForeignSchema
  <2>3. case.fields /\ IsBoolean(case) =>
          PathErrors(case) \union ForeignSchema(case) \subseteq CaseErrors(case)
    BY DEF CaseErrors
  <2> QED BY <2>1, <2>2, <2>3
<1>2. CASE Counted(case) /\ schemas[SchemaPath(case)] = None
  <2>1. SchemaPath(case) \in CanonicalPaths
    BY <1>2 DEF Counted
  <2>2. tree[SchemaPath(case)].content # None
    BY <2>1, CanonicalAssumption, NoneAssumption DEF Checkout
  <2>3. SchemaErrors(SchemaPath(case)) # {}
    BY <1>2, <2>1, <2>2 DEF LoadedSchema
  <2> QED BY <2>1, <2>3 DEF SchemaPath
<1>3. CASE Counted(case) /\ schemas[SchemaPath(case)] # None /\ Reading(case) = "artifact"
  <2>1. VerdictErrors(case) # {}
    BY <1>3 DEF VerdictErrors
  <2>2. case.fields /\ IsBoolean(case)
    BY <1>3 DEF Counted
  <2>3. VerdictErrors(case) \subseteq CaseErrors(case)
    BY <2>2 DEF CaseErrors
  <2> QED BY <2>1, <2>3
<1> QED BY <1>1, <1>2, <1>3 DEF Judged

-----------------------------------------------------------------------------
LEMMA InitInv == Init => IInv
<1> SUFFICES ASSUME Init PROVE IInv
  OBVIOUS
<1>1. Checkout
  <2>1. PICK checkout \in Checkouts : tree = checkout.tree /\ manifest = checkout.manifest
    BY DEF Init
  <2> QED BY <2>1, CheckoutsAssumption DEF Checkout
<1>2. PassExactly /\ EveryCaseAccountedFor
  BY DEF Init, PassExactly, EveryCaseAccountedFor
<1> QED BY <1>1, <1>2 DEF Init, IInv

LEMMA ReadManifestInv == IInv /\ ReadManifest => IInv'
<1> SUFFICES ASSUME IInv, ReadManifest PROVE IInv'
  OBVIOUS
<1>1. Checkout' /\ errors = {} /\ i' = 1 /\ names' = {} /\ fixture_paths' = {} /\ coverage' = {}
  BY DEF IInv, Checkout, ReadManifest, Keep, InDirectories
<1>2. pc' = IF Readable THEN "schemas" ELSE "done"
  BY DEF ReadManifest, Readable
<1>3. (Readable <=> Readable') /\ manifest' = manifest
  BY DEF ReadManifest, Keep, Readable
<1>4. Readable => (errors' = {} <=> manifest.version = "v1")
  BY DEF ReadManifest, Readable
<1>5. ~Readable => errors' # {} /\ ~SoundCorpus'
  BY <1>3 DEF ReadManifest, Readable, SoundCorpus
<1>6. PassExactly' /\ EveryCaseAccountedFor'
  BY <1>2, <1>5 DEF PassExactly, EveryCaseAccountedFor
<1> QED BY <1>1, <1>2, <1>3, <1>4, <1>6 DEF IInv

\* What a step that keeps the checkout keeps with it.
LEMMA CheckoutKept ==
    ASSUME Checkout, Keep
    PROVE  /\ Checkout' /\ Last' = Last /\ (Readable <=> Readable')
           /\ \A n : Case(n)' = Case(n) /\ (SoundCase(Case(n)) <=> SoundCase(Case(n))')
           /\ \A root, known : OnlyKnown(root, known)' <=> OnlyKnown(root, known)
           /\ SoundSchemas' <=> SoundSchemas
           /\ \A path : SchemaErrors(path)' = SchemaErrors(path) /\ LoadedSchema(path)' = LoadedSchema(path)
<1>1. tree' = tree /\ manifest' = manifest
  BY DEF Keep
<1>2. Checkout' /\ Last' = Last /\ (Readable <=> Readable')
  BY <1>1 DEF Checkout, Last, Readable
<1>3. \A n : Case(n)' = Case(n) /\ (SoundCase(Case(n)) <=> SoundCase(Case(n))')
  BY <1>1 DEF Case, SoundCase, SoundMetadata, NamesFile, RealFile, SoundVerdict, FixturePrefix,
              IsBoolean
<1>4. \A root, known : OnlyKnown(root, known)' <=> OnlyKnown(root, known)
  BY <1>1 DEF OnlyKnown, Walked
<1>5. SoundSchemas' <=> SoundSchemas
  BY <1>1 DEF SoundSchemas, RealFile
<1>6. \A path : SchemaErrors(path)' = SchemaErrors(path) /\ LoadedSchema(path)' = LoadedSchema(path)
  BY <1>1 DEF SchemaErrors, LoadedSchema, safe_file, ThroughSymlink, IsFile
<1> QED BY <1>2, <1>3, <1>4, <1>5, <1>6

LEMMA LoadSchemasInv == IInv /\ LoadSchemas => IInv'
<1> SUFFICES ASSUME IInv, LoadSchemas PROVE IInv'
  OBVIOUS
<1> DEFINE loaded == [path \in CanonicalPaths |-> LoadedSchema(path)]
<1>1. /\ Checkout /\ Keep /\ Readable /\ i = 1 /\ names = {} /\ fixture_paths = {} /\ coverage = {}
      /\ errors = {} <=> manifest.version = "v1"
  BY DEF IInv, LoadSchemas
<1>2. /\ pc' = "cases" /\ schemas' = loaded
      /\ errors' = errors \union (UNION {SchemaErrors(path) : path \in CanonicalPaths})
                          \union InventoryErrors(<<"schema">>, CanonicalPaths) \union Drift[loaded]
      /\ i' = 1 /\ names' = {} /\ fixture_paths' = {} /\ coverage' = {}
  BY <1>1 DEF LoadSchemas, load_canonical_schemas
<1>3. errors' = {} <=> manifest.version = "v1" /\ SoundSchemas
                       /\ OnlyKnown(<<"schema">>, CanonicalPaths)
  <2>1. errors' = {} <=>
          /\ errors = {} /\ Drift[loaded] = {} /\ InventoryErrors(<<"schema">>, CanonicalPaths) = {}
          /\ \A path \in CanonicalPaths : SchemaErrors(path) = {}
    <3> DEFINE single == UNION {SchemaErrors(path) : path \in CanonicalPaths}
               inventory == InventoryErrors(<<"schema">>, CanonicalPaths)
               drift == Drift[loaded]
    <3>1. single = {} <=> \A path \in CanonicalPaths : SchemaErrors(path) = {}
      OBVIOUS
    <3>2. errors' = errors \union single \union inventory \union drift
      BY <1>2
    <3> HIDE DEF single, inventory, drift
    <3>3. errors' = {} <=> errors = {} /\ single = {} /\ inventory = {} /\ drift = {}
      BY <3>2
    <3> QED BY <3>1, <3>3 DEF inventory, drift
  <2>2. InventoryErrors(<<"schema">>, CanonicalPaths) = {} <=> OnlyKnown(<<"schema">>, CanonicalPaths)
    BY <1>1, InventoryExact
  <2> QED BY <1>1, <2>1, <2>2, SoundSchemasLoad
<1>4. /\ Checkout' /\ Readable' /\ Last' = Last /\ Last \in Nat /\ manifest' = manifest
      /\ schemas' = [path \in CanonicalPaths |-> LoadedSchema(path)']
  <2>1. Last \in Nat
    BY <1>1 DEF Checkout, Last
  <2> QED BY <1>1, <1>2, <2>1, CheckoutKept DEF Keep
<1>5. Clean(1)' <=> manifest.version = "v1" /\ SoundSchemas
                    /\ OnlyKnown(<<"schema">>, CanonicalPaths)
  BY <1>1, <1>4, CheckoutKept DEF Clean
<1>6. \A path \in CanonicalPaths : SchemaErrors(path)' \subseteq errors'
  BY <1>1, <1>2, CheckoutKept
<1>7. Collected(1)'
  BY <1>2 DEF Collected
<1>8. PassExactly' /\ EveryCaseAccountedFor'
  BY <1>2 DEF PassExactly, EveryCaseAccountedFor
<1>9. i' \in 1 .. Last' + 1 /\ Collected(i)' /\ (errors' = {} <=> Clean(i)')
  BY <1>2, <1>3, <1>4, <1>5, <1>7 DEF Collected, Clean
<1> QED BY <1>2, <1>4, <1>6, <1>8, <1>9 DEF IInv

\* One more case: what the sets collect from it.
LEMMA CollectOne ==
    ASSUME Collected(i), i \in Nat \ {0}, TakeCase, Keep
    PROVE  Collected(i)'
<1> DEFINE case == Case(i)
           named == {k \in 1 .. i - 1 : Named(Case(k))}
           counted == {k \in 1 .. i - 1 : Counted(Case(k))}
           namedNow == {k \in 1 .. i : Named(Case(k))}
           countedNow == {k \in 1 .. i : Counted(Case(k))}
<1>1. /\ namedNow = named \union (IF Named(case) THEN {i} ELSE {})
      /\ countedNow = counted \union (IF Counted(case) THEN {i} ELSE {})
  OBVIOUS
<1>2. /\ names' = names \union (IF Named(case) THEN {case.name} ELSE {})
      /\ fixture_paths' = fixture_paths \union (IF Counted(case) THEN {FixturePath(case)} ELSE {})
      /\ coverage' = coverage \union (IF Counted(case) THEN {<<SchemaPath(case), case.valid>>} ELSE {})
  BY DEF TakeCase
<1>3. /\ names' = {Case(m).name : m \in namedNow}
      /\ fixture_paths' = {FixturePath(Case(m)) : m \in countedNow}
      /\ coverage' = {<<SchemaPath(Case(m)), Case(m).valid>> : m \in countedNow}
  <2> HIDE DEF named, counted, namedNow, countedNow
  <2>1. /\ names = {Case(m).name : m \in named}
        /\ fixture_paths = {FixturePath(Case(m)) : m \in counted}
        /\ coverage = {<<SchemaPath(Case(m)), Case(m).valid>> : m \in counted}
    BY DEF Collected, named, counted
  <2>2. names' = {Case(m).name : m \in namedNow}
    BY <1>1, <1>2, <2>1
  <2>3. fixture_paths' = {FixturePath(Case(m)) : m \in countedNow}
    BY <1>1, <1>2, <2>1
  <2>4. coverage' = {<<SchemaPath(Case(m)), Case(m).valid>> : m \in countedNow}
    BY <1>1, <1>2, <2>1
  <2> QED BY <2>2, <2>3, <2>4
<1>4. tree' = tree /\ manifest' = manifest
  BY DEF Keep
<1>5. \A k : /\ Case(k)' = Case(k) /\ Named(Case(k))' = Named(Case(k))
             /\ Counted(Case(k))' = Counted(Case(k))
             /\ FixturePath(Case(k))' = FixturePath(Case(k)) /\ SchemaPath(Case(k))' = SchemaPath(Case(k))
  BY <1>4 DEF Case, Named, Counted, FixturePath, SchemaPath, IsBoolean, PathErrors, safe_file,
              ThroughSymlink, IsFile, FixturePrefix
<1>6. i' - 1 = i
  BY DEF TakeCase
<1>7. /\ namedNow = {k \in 1 .. i' - 1 : Named(Case(k))'}
      /\ countedNow = {k \in 1 .. i' - 1 : Counted(Case(k))'}
  BY <1>5, <1>6
<1> HIDE DEF namedNow, countedNow
<1> QED BY <1>3, <1>5, <1>7 DEF Collected

LEMMA TakeCaseInv == IInv /\ TakeCase => IInv'
<1> SUFFICES ASSUME IInv, TakeCase PROVE IInv'
  OBVIOUS
<1> DEFINE case == Case(i)
<1>1. /\ Checkout /\ Keep /\ Readable /\ pc = "cases" /\ Collected(i) /\ Last \in Nat
      /\ schemas = [path \in CanonicalPaths |-> LoadedSchema(path)]
      /\ errors = {} <=> Clean(i)
      /\ \A path \in CanonicalPaths : SchemaErrors(path) \subseteq errors
  <2>1. pc = "cases" /\ Checkout
    BY DEF IInv, TakeCase
  <2>2. Last \in Nat
    BY <2>1 DEF Checkout, Last
  <2> QED BY <2>1, <2>2 DEF IInv, TakeCase
<1>2. i \in 1 .. Last
  BY <1>1 DEF IInv, TakeCase, Last
<1>3. /\ pc' = "cases" /\ schemas' = schemas /\ i' = i + 1
      /\ errors' = errors \union {<<"case", i, error>> : error \in CaseErrors(case)}
  BY <1>1 DEF TakeCase
<1>4. /\ Checkout' /\ Last' = Last /\ Readable' /\ manifest' = manifest
      /\ \A n : Case(n)' = Case(n) /\ (SoundCase(Case(n)) <=> SoundCase(Case(n))')
      /\ schemas' = [path \in CanonicalPaths |-> LoadedSchema(path)']
      /\ \A path \in CanonicalPaths : SchemaErrors(path)' \subseteq errors'
  BY <1>1, <1>3, CheckoutKept DEF Keep
<1>5. Collected(i)'
  BY <1>1, <1>2, CollectOne
<1>6. errors' = {} <=> Clean(i + 1)
  <2>1. errors' = {} <=> errors = {} /\ CaseErrors(case) = {}
    BY <1>3
  <2>2. Clean(i + 1) <=> Clean(i) /\ Good(i)
    BY <1>2 DEF Clean
  <2>3. Clean(i) => (CaseErrors(case) = {} <=> Good(i))
    <3> SUFFICES ASSUME Clean(i) PROVE CaseErrors(case) = {} <=> Good(i)
      OBVIOUS
    <3>1. \A m \in 1 .. i - 1 : Named(Case(m)) /\ Counted(Case(m))
      BY <1>1, <1>2, CountedExact DEF Clean, Good
    <3>2. /\ case.name \notin names <=> \A m \in 1 .. i - 1 : Case(m).name # case.name
          /\ case.fixture.parts \notin fixture_paths <=>
               \A m \in 1 .. i - 1 : Case(m).fixture.parts # case.fixture.parts
      BY <3>1, <1>1 DEF Collected, FixturePath
    <3>3. CaseErrors(case) = {} <=>
            SoundCase(case) /\ case.name \notin names /\ case.fixture.parts \notin fixture_paths
      BY <1>1, <1>2, CaseExact DEF Clean
    <3> QED BY <3>2, <3>3 DEF Good
  <2> QED BY <1>1, <2>1, <2>2, <2>3
<1>7. Clean(i)' <=> Clean(i + 1)
  <2>1. \A n : Good(n)' <=> Good(n)
    BY <1>4 DEF Good
  <2> QED BY <2>1, <1>1, <1>3, <1>4, CheckoutKept DEF Clean
<1>8. EveryCaseAccountedFor'
  <2>1. \A n \in 1 .. i - 1 :
          \/ Judged(Case(n))
          \/ \E error \in errors :
                \/ error[1] = "case" /\ error[2] = n
                \/ error[1] = "schema" /\ error[2] = Case(n).schema.parts
    BY <1>1 DEF IInv, EveryCaseAccountedFor
  <2>2. \/ Judged(case)
        \/ \E error \in errors' :
              \/ error[1] = "case" /\ error[2] = i
              \/ error[1] = "schema" /\ error[2] = case.schema.parts
    <3>1. CASE CaseErrors(case) # {}
      <4>1. PICK error \in CaseErrors(case) : TRUE
        BY <3>1
      <4>2. <<"case", i, error>> \in errors'
        BY <4>1, <1>3
      <4> QED BY <4>2
    <3>2. CASE case.schema.parts \in CanonicalPaths /\ SchemaErrors(case.schema.parts) # {}
      <4>1. \A error \in SchemaErrors(case.schema.parts) :
               error[1] = "schema" /\ error[2] = case.schema.parts
        BY SchemaErrorsNamed
      <4> HIDE DEF case
      <4>2. PICK error \in SchemaErrors(case.schema.parts) : TRUE
        BY <3>2
      <4>3. error \in errors'
        BY <3>2, <4>2, <1>1, <1>3
      <4> QED BY <4>1, <4>2, <4>3
    <3> QED BY <3>1, <3>2, <1>1, <1>2, CaseAccounted
  <2>3. \A n : Judged(Case(n))' <=> Judged(Case(n))
    <3>1. tree' = tree /\ manifest' = manifest
      BY <1>1 DEF Keep
    <3> QED BY <3>1, <1>3 DEF Judged, Case, Counted, SchemaPath, FixturePath, Reading, IsBoolean,
                             PathErrors, safe_file, ThroughSymlink, IsFile, FixturePrefix
  <2>4. errors \subseteq errors' /\ \A n \in 1 .. i' - 1 : n \in 1 .. i - 1 \/ n = i
    BY <1>2, <1>3
  <2> QED BY <2>1, <2>2, <2>3, <2>4, <1>3, <1>4 DEF EveryCaseAccountedFor
<1>9. PassExactly'
  BY <1>3 DEF PassExactly
<1>10. i' \in 1 .. Last' + 1 /\ Collected(i)' /\ (errors' = {} <=> Clean(i)')
  BY <1>1, <1>2, <1>3, <1>4, <1>5, <1>6, <1>7 DEF Collected, Clean
<1> QED BY <1>3, <1>4, <1>8, <1>9, <1>10 DEF IInv

LEMMA FinishInv == IInv /\ Finish => IInv'
<1> SUFFICES ASSUME IInv, Finish PROVE IInv'
  OBVIOUS
<1> DEFINE known == fixture_paths \union {CasesPath}
           named == {CasesPath} \union {Case(n).fixture.parts : n \in 1 .. Last}
           covered == \A path \in CanonicalPaths : \A outcome \in {"true", "false"} :
                         \E n \in 1 .. Last : Case(n).schema.parts = path /\ Case(n).valid = outcome
<1>1. /\ Checkout /\ Keep /\ Readable /\ pc = "cases" /\ Last \in Nat /\ i = Last + 1
      /\ Collected(i)
      /\ errors = {} <=> Clean(i)
  <2>1. pc = "cases" /\ Checkout /\ i > Last
    BY DEF IInv, Finish, Last
  <2>2. Last \in Nat
    BY <2>1 DEF Checkout, Last
  <2> QED BY <2>1, <2>2 DEF IInv, Finish
<1>2. pc' = "done" /\ errors' = errors \union InventoryErrors(<<"fixtures">>, known) \union CoverageErrors
  BY DEF Finish
<1>3. ASSUME Clean(i) PROVE known = named /\ (CoverageErrors = {} <=> covered)
  <2>1. \A n \in 1 .. i - 1 : Counted(Case(n))
    BY <1>1, <1>3, CountedExact DEF Clean, Good
  <2>2. i - 1 = Last
    BY <1>1
  <2>3. known = named
    BY <1>1, <2>1, <2>2 DEF Collected, FixturePath
  <2>4. coverage = {<<Case(n).schema.parts, Case(n).valid>> : n \in 1 .. Last}
    BY <1>1, <2>1, <2>2 DEF Collected, SchemaPath
  <2>5. CoverageErrors = {} <=>
          \A path \in CanonicalPaths : \A outcome \in {"true", "false"} : <<path, outcome>> \in coverage
    BY DEF CoverageErrors
  <2> QED BY <2>3, <2>4, <2>5
<1>4. InventoryErrors(<<"fixtures">>, known) = {} <=> OnlyKnown(<<"fixtures">>, known)
  BY <1>1, InventoryExact
<1>5. errors' = {} <=> Clean(i) /\ OnlyKnown(<<"fixtures">>, named) /\ covered
  <2> HIDE DEF known, named, covered
  <2>1. errors' = {} <=> /\ errors = {} /\ CoverageErrors = {}
                         /\ InventoryErrors(<<"fixtures">>, known) = {}
    BY <1>2
  <2> QED BY <2>1, <1>1, <1>3, <1>4
<1>6. (\A m \in 1 .. i - 1 : Good(m)) <=>
        /\ \A n \in 1 .. Last : SoundCase(Case(n))
        /\ \A m, n \in 1 .. Last : m < n =>
              /\ Case(m).name # Case(n).name
              /\ Case(m).fixture.parts # Case(n).fixture.parts
  BY <1>1 DEF Good
<1>7. SoundCorpus <=> Clean(i) /\ OnlyKnown(<<"fixtures">>, named) /\ covered
  <2> HIDE DEF covered
  <2>1. SoundCorpus <=>
          /\ Readable /\ manifest.version = "v1" /\ SoundSchemas
          /\ OnlyKnown(<<"schema">>, CanonicalPaths)
          /\ \A n \in 1 .. Last : SoundCase(Case(n))
          /\ \A m, n \in 1 .. Last : m < n =>
                /\ Case(m).name # Case(n).name
                /\ Case(m).fixture.parts # Case(n).fixture.parts
          /\ OnlyKnown(<<"fixtures">>, named) /\ covered
    BY DEF SoundCorpus, Readable, Last, covered
  <2> HIDE DEF named
  <2> QED BY <2>1, <1>1, <1>6 DEF Clean
<1>8. SoundCorpus' <=> SoundCorpus
  <2>1. tree' = tree /\ manifest' = manifest
    BY <1>1 DEF Keep
  <2> QED BY <2>1, <1>1, CheckoutKept DEF SoundCorpus, Case
<1>9. PassExactly' /\ EveryCaseAccountedFor' /\ Checkout'
  BY <1>1, <1>2, <1>5, <1>7, <1>8, CheckoutKept DEF PassExactly, EveryCaseAccountedFor
<1> QED BY <1>2, <1>9 DEF IInv

LEMMA StutterInv == IInv /\ UNCHANGED vars => IInv'
<1> SUFFICES ASSUME IInv, UNCHANGED vars PROVE IInv'
  OBVIOUS
<1>1. /\ Keep /\ Checkout /\ tree' = tree /\ manifest' = manifest /\ i' = i /\ pc' = pc
      /\ errors' = errors /\ names' = names /\ fixture_paths' = fixture_paths
      /\ coverage' = coverage /\ schemas' = schemas
  BY DEF vars, Keep, IInv
<1>2. /\ Checkout' /\ Last' = Last /\ (Readable <=> Readable')
      /\ \A n : Case(n)' = Case(n) /\ (SoundCase(Case(n)) <=> SoundCase(Case(n))')
      /\ SoundSchemas' <=> SoundSchemas
      /\ [path \in CanonicalPaths |-> LoadedSchema(path)]'
            = [path \in CanonicalPaths |-> LoadedSchema(path)]
      /\ \A path \in CanonicalPaths : SchemaErrors(path)' = SchemaErrors(path)
  BY <1>1, CheckoutKept
<1>3. \A n : /\ Named(Case(n))' <=> Named(Case(n))
             /\ Counted(Case(n))' <=> Counted(Case(n))
             /\ Judged(Case(n))' <=> Judged(Case(n))
             /\ FixturePath(Case(n))' = FixturePath(Case(n)) /\ SchemaPath(Case(n))' = SchemaPath(Case(n))
  BY <1>1 DEF Judged, Case, Counted, Named, SchemaPath, FixturePath, Reading, IsBoolean,
              PathErrors, safe_file, ThroughSymlink, IsFile, FixturePrefix
<1>4. Collected(i)' <=> Collected(i)
  BY <1>1, <1>2, <1>3 DEF Collected
<1>5. Clean(i)' <=> Clean(i)
  <2>1. \A n : Good(n)' <=> Good(n)
    BY <1>2 DEF Good
  <2> QED BY <2>1, <1>1, <1>2, CheckoutKept DEF Clean
<1>6. PassExactly'
  <2>1. SoundCorpus' <=> SoundCorpus
    BY <1>1, <1>2, CheckoutKept DEF SoundCorpus, Case
  <2> QED BY <2>1, <1>1 DEF IInv, PassExactly
<1>7. EveryCaseAccountedFor'
  BY <1>1, <1>2, <1>3 DEF IInv, EveryCaseAccountedFor
<1> QED BY <1>1, <1>2, <1>4, <1>5, <1>6, <1>7 DEF IInv

LEMMA Invariance == Spec => []IInv
<1>1. IInv /\ [Next]_vars => IInv'
  BY ReadManifestInv, LoadSchemasInv, TakeCaseInv, FinishInv, StutterInv DEF Next
<1> QED BY <1>1, InitInv, PTL DEF Spec

(* check_contract.py:638-763.  For every checkout, every set of canonical    *)
(* schemas and whatever the JSON and schema code makes of the files: the    *)
(* check is silent exactly when the corpus is sound.                       *)
THEOREM CheckSilentExactlyOnSoundCorpora == Spec => []PassExactly
<1>1. IInv => PassExactly
  BY DEF IInv
<1> QED BY <1>1, Invariance, PTL

(* check_contract.py:703-722.  No case is dropped from the walk in silence.  *)
THEOREM NoCaseDropped == Spec => []EveryCaseAccountedFor
<1>1. IInv => EveryCaseAccountedFor
  BY DEF IInv
<1> QED BY <1>1, Invariance, PTL
=============================================================================
