----------------------- MODULE RepositoryCheckProofs ------------------------
(***************************************************************************)
(* ExitExactly for every checkout.  The errors are collected by checks that  *)
(* overlap and rely on each other; the proof says first what it means that   *)
(* each check is silent, then that the checks together are silent exactly on *)
(* sound checkouts.                                                         *)
(***************************************************************************)
EXTENDS RepositoryCheck, WellFoundedInduction, TLAPS

\* The checks of the whole tree, of one file, and of the learning metadata.
TreeErrors == RequiredErrors \union SecretErrors \union check_go_layout \union check_ci_go_policy

FileFine(path) ==
    path \in repository_files /\ ~is_environment_file(path) =>
        ~Raises(path) /\ HygieneErrors(path) \union LinkErrors(path) = {}

PairsFine == \A unit \in Pairs : ~PairRaises(unit) /\ PairErrors(unit) = {}

LearningFine ==
    /\ DuplicateErrors("story") = {} /\ DuplicateErrors("lesson") = {}
    /\ Unpaired = {} /\ PairsFine

TreeSound ==
    \A path \in Paths :
        /\ Traits[path].required => is_file(path)
        /\ path \in environment_files => Traits[path].example
        /\ SoundGo(path)

WorkflowSound ==
    \A path \in Paths : Traits[path].workflow => Readable(path) /\ Says(path).utf8 /\ Says(path).policy

PolicyKept ==
    \A path \in Paths :
        Traits[path].workflow /\ Readable(path) /\ Says(path).utf8 => Says(path).policy

-----------------------------------------------------------------------------
(* The file that stands for a unit.                                        *)

\* Every path has a position.
LEMMA Positioned ==
    ASSUME NEW path \in Paths
    PROVE  Position(path) \in 1 .. Len(Sorted) /\ Sorted[Position(path)] = path
BY DEF Position, Paths

\* Every nonempty set of naturals has a least member: the place in a sequence
\* that a proof looks at first.
LEMMA LeastMember ==
    ASSUME NEW T, T \subseteq Nat, T # {}
    PROVE  \E x \in T : \A y \in T : x <= y
<1> DEFINE Less == OpToRel(<, Nat)
<1>1. IsWellFoundedOn(Less, Nat)
  BY NatLessThanWellFounded, Zenon
<1>2. \A x, y \in Nat : x < y => <<x, y>> \in Less
  BY Zenon DEF OpToRel
<1> HIDE DEF Less
<1>3. PICK x \in T : \A y \in T : ~(<<y, x>> \in Less)
  BY <1>1, WFMin, Zenon
<1>4. ASSUME NEW y \in T PROVE x <= y
  <2>1. ~(y < x)
    BY <1>2, <1>3, Zenon
  <2> QED BY <2>1
<1> QED BY <1>4

\* Of the files of a unit the first one stands for it.
LEMMA UnitHasFile ==
    ASSUME NEW role, NEW unit \in Units(role)
    PROVE  /\ metadata_files(role, unit) \in Found(role)
           /\ Traits[metadata_files(role, unit)].unit = unit
<1> DEFINE Mine == {path \in Found(role) : Traits[path].unit = unit}
           T == {Position(path) : path \in Mine}
<1>1. Len(Sorted) \in Nat
  BY NamesAssumption
<1>2. T \subseteq Nat /\ T # {}
  <2>1. \A path \in Mine : Position(path) \in Nat
    BY <1>1, Positioned DEF Found
  <2>2. Mine # {}
    BY DEF Units
  <2> QED BY <2>1, <2>2
<1>3. PICK n \in T : \A m \in T : n <= m
  <2> HIDE DEF T
  <2> QED BY <1>2, LeastMember
<1>4. PICK path \in Mine : n = Position(path)
  BY <1>3
<1>5. \A other \in Found(role) : Traits[other].unit = unit => Position(path) <= Position(other)
  BY <1>3, <1>4
<1> QED BY <1>4, <1>5 DEF metadata_files

-----------------------------------------------------------------------------
(* What the silence of each check means.                                   *)

LEMMA TreeSilent == TreeErrors = {} <=> TreeSound /\ PolicyKept
<1>1. RequiredErrors = {} <=> \A p \in Paths : Traits[p].required => is_file(p)
  BY DEF RequiredErrors
<1>2. SecretErrors = {} <=> \A p \in Paths : p \in environment_files => Traits[p].example
  BY DEF SecretErrors, environment_files
<1>3. check_ci_go_policy = {} <=> PolicyKept
  BY DEF check_ci_go_policy, PolicyKept
<1>4. check_go_layout = {} <=> \A p \in Paths : SoundGo(p)
  <2> DEFINE Bad == {p \in Paths : Traits[p].go = "root"
                       /\ (\/ tree[p].kind \notin {"file", "locked"}
                           \/ tree[p].kind = "locked" \/ ~Says(p).manifest)}
             Stray == {p \in repository_files : Traits[p].go \in {"nested", "forbidden"}}
  <2>1. check_go_layout = {} <=> Bad = {} /\ Stray = {}
    BY DEF check_go_layout
  <2>2. Bad = {} <=> \A p \in Paths : Traits[p].go = "root" =>
                        tree[p].kind = "file" /\ Says(p).manifest
    OBVIOUS
  <2>3. Stray = {} <=> \A p \in Paths : Traits[p].go \in {"nested", "forbidden"} =>
                          ~(tree[p].listed /\ (is_file(p) \/ is_symlink(p)))
    BY DEF repository_files
  <2> QED BY <2>1, <2>2, <2>3 DEF SoundGo
<1>5. TreeErrors = {} <=> /\ RequiredErrors = {} /\ SecretErrors = {}
                          /\ check_go_layout = {} /\ check_ci_go_policy = {}
  BY DEF TreeErrors
<1> QED BY <1>1, <1>2, <1>3, <1>4, <1>5 DEF TreeSound

LEMMA FileSilent ==
    ASSUME NEW path \in Paths, tree[path].kind \in Kinds
    PROVE  FileFine(path) <=> SoundFile(path)
<1>1. path \in repository_files <=> tree[path].listed /\ tree[path].kind \notin {"absent", "directory"}
  BY DEF repository_files, is_file, is_symlink, Kinds
<1>2. CASE ~Traits[path].text
  <2>1. ~Traits[path].markdown
    BY <1>2, NamesAssumption
  <2>2. ~Raises(path) /\ HygieneErrors(path) = {} /\ LinkErrors(path) = {}
    BY <1>2, <2>1 DEF Raises, HygieneErrors, LinkErrors
  <2> QED BY <1>2, <2>2 DEF FileFine, SoundFile
<1>3. CASE Traits[path].text
  <2>1. HygieneErrors(path) = {} <=> Says(path).utf8 /\ Says(path).clean
    BY <1>3 DEF HygieneErrors
  <2>2. ASSUME Says(path).utf8, Traits[path].markdown
        PROVE  LinkErrors(path) = {} <=> \A link \in Says(path).links : link \in Paths /\ exists(link)
    BY <2>2 DEF LinkErrors
  <2>3. ~Traits[path].markdown => LinkErrors(path) = {}
    BY DEF LinkErrors
  <2>4. Raises(path) <=> ~Readable(path)
    BY <1>3 DEF Raises
  <2> QED BY <1>1, <1>3, <2>1, <2>2, <2>3, <2>4 DEF FileFine, SoundFile
<1> QED BY <1>2, <1>3

-----------------------------------------------------------------------------
(* The workflow and the learning metadata, which are gone to by name.       *)

Kinded == \A path \in Paths : tree[path].kind \in Kinds
FilesSound == \A path \in Paths : SoundFile(path)

\* The policy check passes over a workflow it cannot read; that the others
\* object to it then is what makes the two notions agree.
LEMMA WorkflowSilent ==
    ASSUME NoneIgnored, TreeSound, FilesSound
    PROVE  PolicyKept <=> WorkflowSound
<1>1. ASSUME NEW path \in Paths, Traits[path].workflow
      PROVE  Readable(path) /\ Says(path).utf8
  <2>1. is_file(path) /\ tree[path].listed
    BY <1>1 , NamesAssumption DEF TreeSound, NoneIgnored
  <2>2. Traits[path].text /\ ~is_environment_file(path)
    BY <1>1, NamesAssumption DEF is_environment_file
  <2> QED BY <2>1, <2>2, <1>1 DEF FilesSound, SoundFile, is_file
<1> QED BY <1>1 DEF PolicyKept, WorkflowSound

\* A document of the learning metadata that can be read is UTF-8.
LEMMA DocumentReadable ==
    ASSUME NoneIgnored, FilesSound, NEW role \in {"story", "lesson"}, NEW path \in Found(role),
           Readable(path)
    PROVE  Says(path).utf8
<1>1. path \in Paths /\ Traits[path].role = role /\ role # "none"
  BY DEF Found
<1>2. Traits[path].text /\ ~is_environment_file(path) /\ tree[path].listed
  BY <1>1, NamesAssumption DEF is_environment_file, NoneIgnored
<1> QED BY <1>1, <1>2 DEF FilesSound, SoundFile, Readable

\* For UTF-8 documents the check of a pair is silent when they match.
LEMMA PairSilent ==
    ASSUME NEW unit \in Pairs, Says(Story(unit)).utf8, Says(Lesson(unit)).utf8
    PROVE  ~PairRaises(unit) /\ PairErrors(unit) = {} <=> Matched(Story(unit), Lesson(unit))
<1>1. unit \in Units("story") /\ unit \in Units("lesson")
  BY DEF Pairs
<1>2. Traits[Story(unit)].unit = unit /\ Traits[Lesson(unit)].unit = unit
  BY <1>1, UnitHasFile DEF Story, Lesson
<1>3. PairErrors(unit) = {} <=>
        LET story == Says(Story(unit))
            lesson == Says(Lesson(unit))
        IN /\ StatusAgrees(story, lesson) /\ lesson.unit = unit /\ story.labels /\ lesson.labels
           /\ lesson.questions = <<"1", "2", "3">>
  BY DEF PairErrors
<1> QED BY <1>2, <1>3 DEF PairRaises, StatusAgrees, Matched

LEMMA LearningSilent ==
    ASSUME NoneIgnored, FilesSound
    PROVE  LearningFine <=> SoundLearning
<1>1. ASSUME LearningFine PROVE SoundLearning
  <2>1. \A role \in {"story", "lesson"} : \A path \in Found(role) :
            path = metadata_files(role, Traits[path].unit)
    BY <1>1 DEF LearningFine, DuplicateErrors
  <2>2. Units("story") = Pairs /\ Units("lesson") = Pairs
    BY <1>1 DEF LearningFine, Unpaired, Pairs
  <2>3. ASSUME NEW unit \in Pairs
        PROVE  /\ Story(unit) \in Found("story") /\ Lesson(unit) \in Found("lesson")
               /\ Matched(Story(unit), Lesson(unit))
    <3>1. Story(unit) \in Found("story") /\ Lesson(unit) \in Found("lesson")
      BY <2>2, UnitHasFile DEF Story, Lesson
    <3>2. ~PairRaises(unit) /\ PairErrors(unit) = {}
      BY <1>1 DEF LearningFine, PairsFine
    <3>3. Says(Story(unit)).utf8 /\ Says(Lesson(unit)).utf8
      <4>1. Readable(Story(unit))
        BY <3>2 DEF PairRaises
      <4>2. Says(Story(unit)).utf8
        BY <3>1, <4>1, DocumentReadable
      <4>3. Readable(Lesson(unit))
        BY <3>2, <4>2 DEF PairRaises
      <4> QED BY <3>1, <4>2, <4>3, DocumentReadable
    <3> QED BY <3>1, <3>2, <3>3, PairSilent
  <2>4. ASSUME NEW story \in Found("story")
        PROVE  \E lesson \in Found("lesson") : Matched(story, lesson)
    <3>1. Traits[story].unit \in Pairs /\ story = Story(Traits[story].unit)
      BY <2>1, <2>2 DEF Units, Story
    <3> QED BY <3>1, <2>3
  <2>5. ASSUME NEW lesson \in Found("lesson")
        PROVE  \E story \in Found("story") : Matched(story, lesson)
    <3>1. Traits[lesson].unit \in Pairs /\ lesson = Lesson(Traits[lesson].unit)
      BY <2>1, <2>2 DEF Units, Lesson
    <3> QED BY <3>1, <2>3
  <2> QED BY <2>1, <2>4, <2>5 DEF SoundLearning
<1>2. ASSUME SoundLearning PROVE LearningFine
  <2>1. ASSUME NEW role \in {"story", "lesson"}, NEW path \in Found(role)
        PROVE  path = metadata_files(role, Traits[path].unit)
    <3>1. Traits[path].unit \in Units(role)
      BY DEF Units
    <3> QED BY <3>1, <1>2, UnitHasFile DEF SoundLearning
  <2>2. DuplicateErrors("story") = {} /\ DuplicateErrors("lesson") = {}
    BY <2>1 DEF DuplicateErrors
  <2>3. Unpaired = {}
    <3>1. Units("story") \subseteq Units("lesson")
      BY <1>2 DEF SoundLearning, Matched, Units
    <3>2. Units("lesson") \subseteq Units("story")
      BY <1>2 DEF SoundLearning, Matched, Units
    <3> QED BY <3>1, <3>2 DEF Unpaired, Pairs
  <2>4. ASSUME NEW unit \in Pairs PROVE ~PairRaises(unit) /\ PairErrors(unit) = {}
    <3>1. /\ Story(unit) \in Found("story") /\ Traits[Story(unit)].unit = unit
          /\ Lesson(unit) \in Found("lesson") /\ Traits[Lesson(unit)].unit = unit
      BY UnitHasFile DEF Pairs, Story, Lesson
    <3>2. PICK lesson \in Found("lesson") : Matched(Story(unit), lesson)
      BY <3>1, <1>2 DEF SoundLearning
    <3>3. lesson = Lesson(unit)
      BY <3>1, <3>2, <1>2 DEF SoundLearning, Matched
    <3>4. Says(Story(unit)).utf8 /\ Says(Lesson(unit)).utf8
      BY <3>2, <3>3 DEF Matched
    <3> QED BY <3>2, <3>3, <3>4, PairSilent
  <2> QED BY <2>2, <2>3, <2>4 DEF LearningFine, PairsFine
<1> QED BY <1>1, <1>2

\* All the checks are silent exactly on a sound checkout.
LEMMA AllSilent ==
    ASSUME NoneIgnored, Kinded
    PROVE  /\ TreeErrors = {} /\ (\A path \in Paths : FileFine(path)) /\ LearningFine
           <=> TreeSound /\ FilesSound /\ WorkflowSound /\ SoundLearning
<1>1. (\A path \in Paths : FileFine(path)) <=> FilesSound
  BY FileSilent DEF Kinded, FilesSound
<1> QED BY <1>1, TreeSilent, WorkflowSilent, LearningSilent

LEMMA SoundParts == Sound <=> git /\ TreeSound /\ FilesSound /\ WorkflowSound /\ SoundLearning
BY DEF Sound, TreeSound, FilesSound, WorkflowSound

-----------------------------------------------------------------------------
(* The invariant: what the errors so far say of the files looked at.        *)

ErrorsExact ==
    errors = {} <=> TreeErrors = {} /\ \A n \in 1 .. next - 1 : FileFine(Sorted[n])

ExitSound == NoneIgnored => (exit = "0" <=> Sound)

IInv ==
    /\ git \in BOOLEAN /\ Kinded /\ next \in Nat \ {0} /\ next <= Len(Sorted) + 1
    /\ pc \in {"list", "tree", "files", "done"}
    /\ pc \in {"list", "tree"} => next = 1 /\ errors = {}
    /\ pc \in {"tree", "files"} => git
    /\ pc = "files" => ErrorsExact
    /\ pc = "done" => ExitSound

\* Nothing the verdict speaks of changes while the check runs.
LEMMA CheckoutStays ==
    ASSUME tree' = tree, git' = git
    PROVE  /\ TreeErrors' = TreeErrors
           /\ \A path : FileFine(path)' <=> FileFine(path)
           /\ NoneIgnored' <=> NoneIgnored
           /\ Sound' <=> Sound
           /\ Kinded' <=> Kinded
<1>1. TreeErrors' = TreeErrors
  BY DEF TreeErrors, RequiredErrors, SecretErrors, environment_files, check_go_layout,
         check_ci_go_policy, repository_files, is_file, is_symlink, Readable, Says
<1>2. \A path : FileFine(path)' <=> FileFine(path)
  BY DEF FileFine, repository_files, Raises, HygieneErrors, LinkErrors, exists, is_file,
         is_symlink, Readable, Says
<1>3. (NoneIgnored' <=> NoneIgnored) /\ (Kinded' <=> Kinded)
  BY DEF NoneIgnored, Kinded
<1>4. Sound' <=> Sound
  BY DEF Sound, SoundFile, SoundGo, SoundLearning, Matched, Found, environment_files, exists,
         is_file, is_symlink, Readable, Says
<1> QED BY <1>1, <1>2, <1>3, <1>4

LEMMA Initially == Init => IInv
BY CheckoutsAssumption, NamesAssumption DEF Init, IInv, Kinded

\* The checks of one file, or its being passed over.
LEMMA FileStep ==
    ASSUME IInv, CheckFile
    PROVE  IInv'
<1> DEFINE path == Sorted[next]
           passed == path \notin repository_files \/ is_environment_file(path)
<1>1. pc = "files" /\ next <= Len(Sorted) /\ Len(Sorted) \in Nat /\ next \in Nat \ {0} /\ git
      /\ ErrorsExact /\ Kinded /\ git \in BOOLEAN
  BY NamesAssumption DEF CheckFile, IInv
<1>2. tree' = tree /\ git' = git
  BY DEF CheckFile, Keep
<1>3. path \in Paths
  BY <1>1 DEF Paths
<1>4. CASE pc' = "files" /\ next' = next + 1 /\ (errors' = {} <=> errors = {} /\ FileFine(path))
  <2>1. 1 .. next' - 1 = (1 .. next - 1) \union {next}
    BY <1>1, <1>4
  <2>2. errors' = {} <=> TreeErrors = {} /\ \A n \in 1 .. next' - 1 : FileFine(Sorted[n])
    BY <1>1, <1>4, <2>1 DEF ErrorsExact
  <2>3. ErrorsExact'
    BY <2>2, <1>2, CheckoutStays DEF ErrorsExact
  <2> QED BY <1>1, <1>2, <1>4, <2>3, CheckoutStays DEF IInv
<1>5. CASE passed
  <2>1. FileFine(path)
    BY <1>5 DEF FileFine
  <2> QED BY <1>1, <1>4, <1>5, <2>1 DEF CheckFile
<1>6. CASE ~passed /\ Raises(path)
  <2>1. pc' = "done" /\ exit' = "traceback" /\ next' = next
    BY <1>6 DEF CheckFile
  <2>2. ~FileFine(path)
    BY <1>6 DEF FileFine
  <2>3. NoneIgnored => ~Sound
    BY <1>1, <1>3, <2>2, AllSilent, SoundParts
  <2>4. ExitSound'
    BY <1>2, <2>1, <2>3, CheckoutStays DEF ExitSound
  <2> QED BY <1>1, <1>2, <2>1, <2>4, CheckoutStays DEF IInv
<1>7. CASE ~passed /\ ~Raises(path)
  <2>1. FileFine(path) <=> HygieneErrors(path) \union LinkErrors(path) = {}
    BY <1>7 DEF FileFine
  <2>2. pc' = "files" /\ next' = next + 1
        /\ errors' = errors \union HygieneErrors(path) \union LinkErrors(path)
    BY <1>1, <1>7 DEF CheckFile
  <2> QED BY <1>4, <2>1, <2>2
<1> QED BY <1>5, <1>6, <1>7

\* The last check decides the exit.
LEMMA LearningStep ==
    ASSUME IInv, CheckLearning
    PROVE  IInv'
<1>1. pc = "files" /\ next = Len(Sorted) + 1 /\ Len(Sorted) \in Nat /\ next \in Nat \ {0} /\ git
      /\ ErrorsExact /\ Kinded /\ git \in BOOLEAN
  BY NamesAssumption DEF CheckLearning, IInv
<1>2. tree' = tree /\ git' = git /\ next' = next /\ pc' = "done"
  BY DEF CheckLearning, Keep
<1>3. errors = {} <=> TreeErrors = {} /\ \A path \in Paths : FileFine(path)
  <2>1. ASSUME NEW path \in Paths PROVE \E n \in 1 .. next - 1 : path = Sorted[n]
    BY <1>1, <2>1 DEF Paths
  <2>2. ASSUME errors = {}, NEW path \in Paths PROVE FileFine(path)
    <3>1. PICK n \in 1 .. next - 1 : path = Sorted[n]
      BY <2>1
    <3> QED BY <1>1, <2>2, <3>1 DEF ErrorsExact
  <2>3. ASSUME TreeErrors = {}, \A path \in Paths : FileFine(path), errors # {} PROVE FALSE
    BY <1>1, <2>3 DEF ErrorsExact, Paths
  <2> QED BY <1>1, <2>2, <2>3 DEF ErrorsExact
<1>4. exit' = "0" <=> errors = {} /\ LearningFine
  <2> DEFINE News == DuplicateErrors("story") \union DuplicateErrors("lesson") \union Unpaired
                       \union UNION {PairErrors(unit) : unit \in Pairs}
  <2>1. CASE \E unit \in Pairs : PairRaises(unit)
    <3>1. exit' = "traceback"
      BY <2>1 DEF CheckLearning
    <3> QED BY <2>1, <3>1 DEF LearningFine, PairsFine
  <2>2. CASE ~ \E unit \in Pairs : PairRaises(unit)
    <3>1. errors' = errors \union News /\ exit' = IF errors' = {} THEN "0" ELSE "1"
      BY <2>2 DEF CheckLearning
    <3>2. UNION {PairErrors(unit) : unit \in Pairs} = {}
            <=> \A unit \in Pairs : PairErrors(unit) = {}
      OBVIOUS
    <3>3. News = {} <=> LearningFine
      BY <2>2, <3>2 DEF LearningFine, PairsFine
    <3>4. exit' = "0" <=> errors = {} /\ News = {}
      BY <3>1
    <3> QED BY <3>3, <3>4
  <2> QED BY <2>1, <2>2
<1>5. NoneIgnored => (exit' = "0" <=> Sound)
  BY <1>1, <1>3, <1>4, AllSilent, SoundParts
<1>6. ExitSound'
  BY <1>2, <1>5, CheckoutStays DEF ExitSound
<1> QED BY <1>1, <1>2, <1>6, CheckoutStays DEF IInv

LEMMA StepKeepsInvariant == IInv /\ [Next]_vars => IInv'
<1> SUFFICES ASSUME IInv, [Next]_vars PROVE IInv'
  OBVIOUS
<1>1. CASE ListFiles
  <2>1. tree' = tree /\ git' = git /\ next' = next /\ errors' = errors
    BY <1>1 DEF ListFiles, Keep
  <2>2. CASE git
    BY <1>1, <2>1, <2>2, CheckoutStays DEF ListFiles, IInv
  <2>3. CASE ~git
    <3>1. ~Sound /\ exit' = "1" /\ pc' = "done"
      BY <1>1, <2>3 DEF ListFiles, Sound
    <3>2. ExitSound'
      BY <2>1, <3>1, CheckoutStays DEF ExitSound
    <3> QED BY <2>1, <3>1, <3>2, CheckoutStays DEF IInv
  <2> QED BY <2>2, <2>3
<1>2. CASE CheckTree
  <2>1. tree' = tree /\ git' = git /\ next' = next /\ pc = "tree" /\ pc' = "files"
    BY <1>2 DEF CheckTree, Keep
  <2>2. next = 1 /\ errors' = TreeErrors
    BY <1>2, <2>1 DEF CheckTree, IInv, TreeErrors
  <2>3. ErrorsExact'
    BY <2>1, <2>2, CheckoutStays DEF ErrorsExact
  <2> QED BY <2>1, <2>3, CheckoutStays DEF IInv
<1>3. CASE CheckFile
  BY <1>3, FileStep
<1>4. CASE CheckLearning
  BY <1>4, LearningStep
<1>5. CASE UNCHANGED vars
  <2>1. tree' = tree /\ git' = git /\ next' = next /\ pc' = pc /\ errors' = errors /\ exit' = exit
    BY <1>5 DEF vars
  <2>2. (ErrorsExact' <=> ErrorsExact) /\ (ExitSound' <=> ExitSound)
    BY <2>1, CheckoutStays DEF ErrorsExact, ExitSound
  <2> QED BY <2>1, <2>2, CheckoutStays DEF IInv
<1> QED BY <1>1, <1>2, <1>3, <1>4, <1>5 DEF Next

(* check_repository.py:603-627.  Whatever the names, the checkout and what   *)
(* its documents say: as long as git ignores none of the documents that are  *)
(* gone to by name, the check succeeds exactly on sound checkouts.          *)
THEOREM ExitExactlyHolds == Spec => []ExitExactly
<1>1. IInv => ExitExactly
  BY DEF IInv, ExitExactly, ExitSound
<1> QED BY <1>1, Initially, StepKeepsInvariant, PTL DEF Spec

-----------------------------------------------------------------------------
(* The links of a file, which the checker reads line by line.               *)

CONSTANT Lines
VARIABLES line_number, in_fence, links, block, meant, regular

Links == INSTANCE MarkdownLinks

FlagFollowsBlock ==
    regular => /\ in_fence <=> block # Links!NoBlock
               /\ block \in {Links!NoBlock, [mark |-> "backtick", run |-> 3]}

LinksInv == in_fence \in BOOLEAN /\ regular \in BOOLEAN /\ FlagFollowsBlock /\ Links!LinksExact

\* A line read keeps the flag and the block together.
LEMMA LineKeepsTogether == LinksInv /\ [Links!ReadLine]_(Links!vars) => LinksInv'
<1> SUFFICES ASSUME LinksInv, [Links!ReadLine]_(Links!vars) PROVE LinksInv'
  OBVIOUS
<1>1. CASE Links!ReadLine
  <2>1. PICK line \in Lines :
          /\ in_fence' = IF Links!Toggles(line) THEN ~in_fence ELSE in_fence
          /\ links' = IF line.link /\ ~Links!Toggles(line) /\ ~in_fence
                      THEN links \union {line_number'} ELSE links
          /\ block' = CASE Links!Opens(line) -> [mark |-> line.mark, run |-> line.run]
                        [] Links!Closes(line) -> Links!NoBlock
                        [] OTHER -> block
          /\ meant' = IF line.link /\ block = Links!NoBlock /\ ~Links!Opens(line)
                      THEN meant \union {line_number'} ELSE meant
          /\ regular' = (regular /\ Links!Simple(line))
    BY <1>1 DEF Links!ReadLine
  <2>2. in_fence' \in BOOLEAN /\ regular' \in BOOLEAN
    BY <2>1 DEF LinksInv
  <2>3. ASSUME regular' PROVE FlagFollowsBlock' /\ Links!LinksExact'
    <3>1. regular /\ Links!Simple(line) /\ links = meant /\ (in_fence <=> block # Links!NoBlock)
          /\ block \in {Links!NoBlock, [mark |-> "backtick", run |-> 3]}
      BY <2>1, <2>3 DEF LinksInv, FlagFollowsBlock, Links!LinksExact
    <3>2. CASE line.mark = "none"
      <4>1. ~Links!Toggles(line) /\ ~Links!Opens(line) /\ ~Links!Closes(line)
        BY <3>2 DEF Links!Toggles, Links!Opens, Links!Closes, Links!IsFence
      <4> QED BY <4>1, <3>1, <2>1 DEF FlagFollowsBlock, Links!LinksExact
    <3>3. CASE line.mark # "none"
      <4>1. line.mark = "backtick" /\ line.run = 3 /\ line.indent = 0 /\ line.follows # "code"
        BY <3>1, <3>3 DEF Links!Simple
      <4>2. Links!Toggles(line) /\ Links!IsFence(line)
        BY <4>1 DEF Links!Toggles, Links!IsFence
      <4>3. CASE block = Links!NoBlock
        <5>1. Links!Opens(line) /\ block' = [mark |-> "backtick", run |-> 3]
          BY <4>1, <4>2, <4>3, <2>1 DEF Links!Opens, Links!Closes
        <5>2. block' # Links!NoBlock
          BY <5>1 DEF Links!NoBlock
        <5> QED BY <5>1, <5>2, <4>2, <4>3, <3>1, <2>1 DEF FlagFollowsBlock, Links!LinksExact
      <4>4. CASE block # Links!NoBlock
        <5>1. line.follows = "nothing" /\ block.mark = "backtick" /\ block.run = 3
          BY <3>1, <3>3, <4>4 DEF Links!Simple
        <5>2. ~Links!Opens(line) /\ Links!Closes(line)
          BY <4>1, <4>2, <4>4, <5>1 DEF Links!Opens, Links!Closes
        <5> QED BY <5>2, <4>2, <4>4, <3>1, <2>1 DEF FlagFollowsBlock, Links!LinksExact
      <4> QED BY <4>3, <4>4
    <3> QED BY <3>2, <3>3
  <2> QED BY <2>2, <2>3 DEF LinksInv, FlagFollowsBlock, Links!LinksExact
<1>2. CASE UNCHANGED Links!vars
  BY <1>2 DEF Links!vars, LinksInv, FlagFollowsBlock, Links!LinksExact
<1> QED BY <1>1, <1>2

(* check_repository.py:180-191.  Whatever the lines of a file, as long as    *)
(* its fences are simple exactly the links outside code blocks are checked. *)
THEOREM SimpleFencesReadExactly == Links!Spec => []Links!LinksExact
<1>1. Links!Init => LinksInv
  BY DEF Links!Init, LinksInv, FlagFollowsBlock, Links!LinksExact
<1>2. LinksInv => Links!LinksExact
  BY DEF LinksInv
<1> QED BY <1>1, <1>2, LineKeepsTogether, PTL DEF Links!Spec
=============================================================================
