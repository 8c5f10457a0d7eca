-------------------------- MODULE RepositoryCheck ---------------------------
(***************************************************************************)
(* scripts/check_repository.py as main runs it: the files git lists, the     *)
(* files an os.walk meets and the files a glob finds are three different    *)
(* sets, and every check draws on one of them.                             *)
(*                                                                         *)
(* The checkout does not change while the check runs.  Traits tells what a   *)
(* path is by its name, tree what is found there.  What a document says is   *)
(* given by what the checks make of its text; the policy on the workflow is *)
(* WorkflowSteps, the links of a file are MarkdownLinks.                    *)
(***************************************************************************)
EXTENDS Naturals, Sequences

CONSTANTS Sorted,             \* every path, in the order sorted() gives
          Traits,             \* path -> what its name makes of it
          Checkouts,          \* the checkouts to be checked
          LessonStatus        \* EXPECTED_LESSON_STATUS

Paths == {Sorted[n] : n \in 1 .. Len(Sorted)}

\* What the names in the source have in common: the workflow is required and
\* YAML; stories and lessons are Markdown, which is text; none of them is
\* named like an environment file.
ASSUME NamesAssumption ==
    /\ Sorted \in Seq(DOMAIN Traits)
    /\ \A path \in Paths :
          /\ Traits[path].workflow => Traits[path].required /\ Traits[path].text
          /\ Traits[path].role # "none" \/ Traits[path].markdown => Traits[path].text
          /\ Traits[path].workflow \/ Traits[path].role # "none" => ~Traits[path].environment

VARIABLES git,                \* whether git can list the files
          tree,               \* path -> what is there
          pc, next, errors,
          exit                \* "none", "0", "1" or "traceback"

vars == <<git, tree, pc, next, errors, exit>>

\* A symlink is named for what it leads to; a locked file cannot be read.
Kinds == {"absent", "file", "locked", "directory", "link to file", "link to directory", "dangling"}

ASSUME CheckoutsAssumption ==
    \A checkout \in Checkouts :
        checkout.git \in BOOLEAN /\ \A path \in Paths : checkout.tree[path].kind \in Kinds

is_file(path) == tree[path].kind \in {"file", "locked", "link to file"}
is_symlink(path) == tree[path].kind \in {"link to file", "link to directory", "dangling"}
exists(path) == tree[path].kind \notin {"absent", "dangling"}
Readable(path) == tree[path].kind \in {"file", "link to file"}
Says(path) == tree[path].says

is_environment_file(path) == Traits[path].environment

-----------------------------------------------------------------------------
(* The three ways to find files.                                           *)

repository_files == {path \in Paths : tree[path].listed /\ (is_file(path) \/ is_symlink(path))}

\* os.walk does not enter the ignored directories; a link to a directory is
\* not among the file names.
environment_files ==
    {path \in Paths : /\ is_environment_file(path) /\ ~Traits[path].pruned
                      /\ is_file(path) \/ tree[path].kind = "dangling"}

\* The glob also finds what git ignores.
Found(role) == {path \in Paths : Traits[path].role = role /\ tree[path].kind # "absent"}
Units(role) == {Traits[path].unit : path \in Found(role)}

Position(path) == CHOOSE n \in 1 .. Len(Sorted) : Sorted[n] = path

\* The file that stands for a unit is the first with its number.
metadata_files(role, unit) ==
    CHOOSE path \in Found(role) :
        /\ Traits[path].unit = unit
        /\ \A other \in Found(role) : Traits[other].unit = unit => Position(path) <= Position(other)

DuplicateErrors(role) ==
    {<<path, "duplicate ID">> : path \in
        {p \in Found(role) : p # metadata_files(role, Traits[p].unit)}}

-----------------------------------------------------------------------------
(* The checks of the tree as a whole.                                      *)

RequiredErrors == {<<path, "missing">> : path \in {p \in Paths : Traits[p].required /\ ~is_file(p)}}

SecretErrors ==
    {<<path, "environment file">> : path \in {p \in environment_files : ~Traits[p].example}}

check_go_layout ==
    LET root == {p \in Paths : Traits[p].go = "root"}
    IN {<<path, "root manifest">> : path \in
          {p \in root : \/ tree[p].kind \notin {"file", "locked"}
                        \/ tree[p].kind = "locked" \/ ~Says(p).manifest}}
       \union {<<path, "Go metadata">> : path \in
                 {p \in repository_files : Traits[p].go \in {"nested", "forbidden"}}}

\* A workflow that cannot be read is left to the other checks.
check_ci_go_policy ==
    {<<path, "CI policy">> : path \in
        {p \in Paths : Traits[p].workflow /\ Readable(p) /\ Says(p).utf8 /\ ~Says(p).policy}}

-----------------------------------------------------------------------------
(* The checks of one file.                                                 *)

\* Reading what cannot be read raises an OSError nothing catches.
Raises(path) == Traits[path].text /\ ~Readable(path)

HygieneErrors(path) ==
    CASE ~Traits[path].text -> {}
      [] Traits[path].text /\ ~Says(path).utf8 -> {<<path, "UTF-8">>}
      [] OTHER -> IF Says(path).clean THEN {} ELSE {<<path, "hygiene">>}

\* Of the links that leave the file.
LinkErrors(path) ==
    IF ~Traits[path].markdown \/ ~Says(path).utf8 THEN {}
    ELSE {<<path, "escapes">> : link \in Says(path).links \ Paths}
         \union {<<path, "broken">> : link \in {l \in Says(path).links \intersect Paths : ~exists(l)}}

-----------------------------------------------------------------------------
(* check_learning_metadata.                                                *)

Story(unit) == metadata_files("story", unit)
Lesson(unit) == metadata_files("lesson", unit)
Pairs == Units("story") \intersect Units("lesson")

\* The story is read first; when it is not UTF-8 the lesson is not read.
PairRaises(unit) ==
    ~Readable(Story(unit)) \/ (Says(Story(unit)).utf8 /\ ~Readable(Lesson(unit)))

\* A lesson of any status will do.
MutAnyStatus(story, lesson) == story.status \in DOMAIN LessonStatus /\ lesson.status # "absent"

StatusAgrees(story, lesson) ==
    story.status \in DOMAIN LessonStatus /\ lesson.status = LessonStatus[story.status]

PairErrors(unit) ==
    LET story == Says(Story(unit))
        lesson == Says(Lesson(unit))
    IN IF ~(story.utf8 /\ lesson.utf8) THEN {}
       ELSE (IF StatusAgrees(story, lesson) THEN {} ELSE {<<unit, "status">>})
            \union (IF lesson.unit = unit THEN {} ELSE {<<unit, "lesson unit">>})
            \union (IF story.labels THEN {} ELSE {<<unit, "story metadata">>})
            \union (IF lesson.labels THEN {} ELSE {<<unit, "lesson metadata">>})
            \union (IF lesson.questions = <<"1", "2", "3">> THEN {} ELSE {<<unit, "questions">>})

Unpaired ==
    {<<unit, "unpaired">> : unit \in (Units("story") \union Units("lesson")) \ Pairs}

-----------------------------------------------------------------------------
(* main.                                                                   *)

Init ==
    /\ \E checkout \in Checkouts : git = checkout.git /\ tree = checkout.tree
    /\ pc = "list" /\ next = 1 /\ errors = {} /\ exit = "none"

Keep == UNCHANGED <<git, tree>>

ListFiles ==
    /\ pc = "list"
    /\ IF git THEN pc' = "tree" /\ UNCHANGED exit ELSE pc' = "done" /\ exit' = "1"
    /\ UNCHANGED <<next, errors>> /\ Keep

CheckTree ==
    /\ pc = "tree" /\ pc' = "files"
    /\ errors' = errors \union RequiredErrors \union SecretErrors \union check_go_layout
                        \union check_ci_go_policy
    /\ UNCHANGED <<next, exit>> /\ Keep

\* The next of the listed files; environment files are passed over.
CheckFile ==
    /\ pc = "files" /\ next <= Len(Sorted)
    /\ LET path == Sorted[next]
       IN IF path \notin repository_files \/ is_environment_file(path)
          THEN next' = next + 1 /\ UNCHANGED <<errors, pc, exit>>
          ELSE IF Raises(path)
               THEN pc' = "done" /\ exit' = "traceback" /\ UNCHANGED <<errors, next>>
               ELSE /\ errors' = errors \union HygieneErrors(path) \union LinkErrors(path)
                    /\ next' = next + 1 /\ UNCHANGED <<pc, exit>>
    /\ Keep

CheckLearning ==
    /\ pc = "files" /\ next > Len(Sorted) /\ pc' = "done"
    /\ IF \E unit \in Pairs : PairRaises(unit)
       THEN exit' = "traceback" /\ UNCHANGED errors
       ELSE /\ errors' = errors \union DuplicateErrors("story") \union DuplicateErrors("lesson")
                                \union Unpaired \union (UNION {PairErrors(unit) : unit \in Pairs})
            /\ exit' = IF errors' = {} THEN "0" ELSE "1"
    /\ UNCHANGED next /\ Keep

Next == ListFiles \/ CheckTree \/ CheckFile \/ CheckLearning

Spec == Init /\ [][Next]_vars

-----------------------------------------------------------------------------
(* What a sound repository is, said of the checkout as a whole.             *)

SoundFile(path) ==
    tree[path].listed /\ tree[path].kind \notin {"absent", "directory"}
    /\ Traits[path].text /\ ~is_environment_file(path) =>
        /\ Readable(path) /\ Says(path).utf8 /\ Says(path).clean
        /\ Traits[path].markdown => \A link \in Says(path).links : link \in Paths /\ exists(link)

SoundGo(path) ==
    /\ Traits[path].go = "root" => tree[path].kind = "file" /\ Says(path).manifest
    /\ Traits[path].go \in {"nested", "forbidden"} => ~(tree[path].listed /\ (is_file(path) \/ is_symlink(path)))

\* A story and its lesson, which agree.
Matched(story, lesson) ==
    /\ Traits[story].unit = Traits[lesson].unit
    /\ Readable(story) /\ Says(story).utf8 /\ Readable(lesson) /\ Says(lesson).utf8
    /\ Says(story).status \in DOMAIN LessonStatus
    /\ Says(lesson).status = LessonStatus[Says(story).status]
    /\ Says(lesson).unit = Traits[lesson].unit /\ Says(lesson).questions = <<"1", "2", "3">>
    /\ Says(story).labels /\ Says(lesson).labels

\* Every story has its lesson, every lesson its story, every unit one of each.
SoundLearning ==
    /\ \A story \in Found("story") : \E lesson \in Found("lesson") : Matched(story, lesson)
    /\ \A lesson \in Found("lesson") : \E story \in Found("story") : Matched(story, lesson)
    /\ \A role \in {"story", "lesson"} : \A path, twin \in Found(role) :
          Traits[path].unit = Traits[twin].unit => path = twin

Sound ==
    /\ git
    /\ \A path \in Paths :
          /\ Traits[path].required => is_file(path)
          /\ path \in environment_files => Traits[path].example
          /\ SoundGo(path) /\ SoundFile(path)
          /\ Traits[path].workflow => Readable(path) /\ Says(path).utf8 /\ Says(path).policy
    /\ SoundLearning

\* Git lists every document a check goes to by its name.
NoneIgnored ==
    \A path \in Paths :
        Traits[path].workflow \/ Traits[path].role # "none" => tree[path].listed

(* check_repository.py:603-627.  The three ways to find files never let      *)
(* something slip between them: as long as git ignores none of the documents *)
(* that are gone to by name, the check succeeds exactly on sound checkouts, *)
(* although several checks pass over what another one has to report.        *)
ExitExactly == pc = "done" /\ NoneIgnored => (exit = "0" <=> Sound)
=============================================================================
