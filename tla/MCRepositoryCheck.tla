------------------------- MODULE MCRepositoryCheck --------------------------
(***************************************************************************)
(* RepositoryCheck for TLC: a small sound repository, and every checkout     *)
(* that differs from it at two paths.                                      *)
(***************************************************************************)
EXTENDS RepositoryCheck

MCSorted ==
    <<".env", ".env.example", "README.md", "bin/.env", "check.yml", "go.mod", "go.sum",
      "lesson-1", "lesson-2", "logo.png", "notes.txt", "story-1", "story-1-again", "story-2">>

Plain ==
    [required |-> FALSE, environment |-> FALSE, example |-> FALSE, pruned |-> FALSE, go |-> "none",
     workflow |-> FALSE, text |-> TRUE, markdown |-> FALSE, role |-> "none", unit |-> "none"]
Learning(role, unit) == [Plain EXCEPT !.markdown = TRUE, !.role = role, !.unit = unit]

MCTraits ==
    [path \in {MCSorted[n] : n \in DOMAIN MCSorted} |->
        CASE path = ".env" -> [Plain EXCEPT !.environment = TRUE]
          [] path = ".env.example" -> [Plain EXCEPT !.environment = TRUE, !.example = TRUE]
          [] path = "bin/.env" -> [Plain EXCEPT !.environment = TRUE, !.pruned = TRUE]
          [] path = "README.md" -> [Plain EXCEPT !.required = TRUE, !.markdown = TRUE]
          [] path = "check.yml" -> [Plain EXCEPT !.required = TRUE, !.workflow = TRUE]
          [] path = "go.mod" -> [Plain EXCEPT !.go = "root", !.text = FALSE]
          [] path = "go.sum" -> [Plain EXCEPT !.go = "forbidden", !.text = FALSE]
          [] path = "logo.png" -> [Plain EXCEPT !.text = FALSE]
          [] path = "notes.txt" -> Plain
          [] path = "lesson-1" -> Learning("lesson", "1")
          [] path = "lesson-2" -> Learning("lesson", "2")
          [] path = "story-2" -> Learning("story", "2")
          [] OTHER -> Learning("story", "1")]

MCLessonStatus == [planned |-> "Planned", done |-> "Verified"]

Clean ==
    [utf8 |-> TRUE, clean |-> TRUE, links |-> {}, policy |-> TRUE, manifest |-> TRUE,
     status |-> "none", unit |-> "none", labels |-> TRUE, questions |-> << >>]
Usual(path) ==
    CASE MCTraits[path].role = "story" -> [Clean EXCEPT !.status = "done"]
      [] MCTraits[path].role = "lesson" ->
            [Clean EXCEPT !.status = "Verified", !.unit = MCTraits[path].unit,
                          !.questions = <<"1", "2", "3">>]
      [] path = "README.md" -> [Clean EXCEPT !.links = {"story-1"}]
      [] OTHER -> Clean

There(kind, listed, says) == [kind |-> kind, listed |-> listed, says |-> says]

Usually(path) ==
    IF path \in {".env", "go.sum", "lesson-2", "story-1-again", "story-2"} THEN There("absent", TRUE, Usual(path))
    ELSE There("file", path # "bin/.env", Usual(path))

SoundTree == [path \in DOMAIN MCTraits |-> Usually(path)]

\* What a document may say instead.
Sayings(path) ==
    LET says == Usual(path)
    IN {[says EXCEPT !.utf8 = FALSE], [says EXCEPT !.clean = FALSE]}
       \union CASE path = "README.md" -> {[says EXCEPT !.links = {"elsewhere"}],
                                        [says EXCEPT !.links = {"lesson-2", "check.yml"}]}
              [] path = "check.yml" -> {[says EXCEPT !.policy = FALSE]}
              [] path = "go.mod" -> {[says EXCEPT !.manifest = FALSE]}
              [] MCTraits[path].role = "story" ->
                    {[says EXCEPT !.status = "planned"], [says EXCEPT !.status = "odd"],
                     [says EXCEPT !.labels = FALSE]}
              [] MCTraits[path].role = "lesson" ->
                    {[says EXCEPT !.status = "Planned"], [says EXCEPT !.unit = "1"],
                     [says EXCEPT !.questions = <<"1", "2">>]}
              [] OTHER -> {}

Others(path) ==
    {There(kind, TRUE, Usual(path)) : kind \in Kinds} \union {There("file", FALSE, Usual(path))}
    \union {There("file", TRUE, says) : says \in Sayings(path)}
    \union {There("file", FALSE, [Usual(path) EXCEPT !.utf8 = FALSE])}

\* The sound tree with two paths changed.
Trees ==
    LET sound == SoundTree
        changes == UNION {{<<p, there>> : there \in Others(p)} : p \in DOMAIN sound}
    IN {[sound EXCEPT ![one[1]] = one[2], ![two[1]] = two[2]] : one \in changes, two \in changes}

MCCheckouts == [git : {TRUE}, tree : Trees] \union {[git |-> FALSE, tree |-> SoundTree]}
=============================================================================
