-------------------------- MODULE MCWorkflowReview --------------------------
(***************************************************************************)
(* WorkflowReview for TLC: .github/workflows/check.yml, and the edits that   *)
(* touch its stages or what stands between them.                           *)
(***************************************************************************)
EXTENDS WorkflowReview

MCSetupReferences == {"setup-go@commit", "setup-go@v6"}
MCImmutableReferences == {"setup-go@commit"}
MCFalseSpellings == {"false", "False"}

Named(rest) == <<Scalar("name", "a step")>> \o rest
Version == Mapping("with", <<Entry("go-version-file", Raw("go.mod")), Entry("cache", Raw("false"))>>)
CompareVersions == Block("run", <<Text("compare GOVERSION"), Text("exit 1")>>)

Reviewed ==
    <<<<Named(<<Scalar("run", PREFLIGHT)>>),
        Named(<<Scalar("uses", "setup-go@commit"), Version>>),
        Named(<<Scalar("shell", "bash"), CompareVersions>>),
        Named(<<Scalar("run", GATE)>>)>>>>

\* Scripts whose lines look like a step, its fields, or another script.
StepLikeScript ==
    Block("run", <<Line("entry", 0, 0, "steps", Raw("")), Line("entry", 2, 1, "uses", Raw("setup-go@v6")),
                   Line("entry", 4, 0, "if", Raw("false")), BlankLine,
                   Line("text", 0, 0, "", Raw("|")), Text(GATE)>>)
CommentedScript == Block("run", <<Line("comment", 0, 0, "", Raw(GOVERSION))>>)

MCRewordings ==
    {FieldOf("run", [text |-> GATE, quoted |-> TRUE, comment |-> TRUE], << >>),
     Scalar("run", "echo './scripts/check'"), Scalar("run", GOVERSION), Block("run", <<Text(GATE)>>),
     StepLikeScript, CommentedScript,
     Scalar("uses", "setup-go@v6"),
     Mapping("with", <<Entry("go-version-file", Raw("go.mod")), Entry("go-version", Raw("1.26.5")),
                       Entry("cache", Raw("False"))>>),
     Mapping("with", <<Entry("cache", Raw("true"))>>)}

MCExtraSteps ==
    {Named(<<Scalar("if", "false"), Scalar("uses", "setup-go@v6")>>),
     Named(<<Mapping("env", <<Entry("if", Raw("false")), Entry("run", Raw(GATE))>>), StepLikeScript>>),
     <<Scalar("run", GATE)>>}

\* The gate written the way many workflows write a step, without a name.
GateByBlock == <<[Reviewed[1] EXCEPT ![4] = <<Block("run", <<Text(GATE)>>)>>]>>
=============================================================================
