--------------------------- MODULE WorkflowReview ---------------------------
(***************************************************************************)
(* Changes to the CI workflow, reviewed by check_ci_go_policy: the workflow  *)
(* starts as an approved one and is edited a bounded number of times; after *)
(* every edit the reader and the policy are compared with what the document *)
(* says.                                                                   *)
(***************************************************************************)
EXTENDS WorkflowDocument

CONSTANTS Approved,           \* the document to begin with
          MaxEdits,           \* bound: how often it is edited
          Conditions,         \* the places an if may take in a step
          Rewordings,         \* fields a step may get in place of one of that key
          ExtraSteps          \* steps that may be added

\* Jobs, and in each of them steps.
ASSUME ReviewAssumption ==
    Approved \in Seq(Seq(UNION {Range(Approved[n]) : n \in DOMAIN Approved}))

VARIABLES document, edits

vars == <<document, edits>>

\* The steps of the document, each by its job and its number there.
Places == UNION {{j} \X DOMAIN document[j] : j \in DOMAIN document}
StepAt(place) == document[place[1]][place[2]]
JobWith(place, job) == [document EXCEPT ![place[1]] = job]
StepWith(place, step) == [document EXCEPT ![place[1]][place[2]] = step]

Init == document = Approved /\ edits = 0

Edit(changed) == edits < MaxEdits /\ document' = changed /\ edits' = edits + 1

RemoveStep == \E place \in Places :
    Edit(JobWith(place, RemoveAt(document[place[1]], place[2])))

AddStep == \E place \in Places, step \in ExtraSteps :
    Edit(JobWith(place, InsertAt(document[place[1]], place[2], step)))

SwapSteps == \E place \in Places :
    /\ place[2] < Len(document[place[1]])
    /\ LET job == document[place[1]]
           n == place[2]
       IN Edit(JobWith(place, [job EXCEPT ![n] = job[n + 1], ![n + 1] = job[n]]))

\* The steps from one on become a job of their own.
SplitJob == \E place \in Places :
    /\ place[2] > 1
    /\ LET job == document[place[1]]
       IN Edit(SubSeq(document, 1, place[1] - 1)
               \o <<SubSeq(job, 1, place[2] - 1), SubSeq(job, place[2], Len(job))>>
               \o SubSeq(document, place[1] + 1, Len(document)))

AddCondition == \E place \in Places, where \in Conditions :
    LET step == StepAt(place)
    IN /\ "if" \notin Names(step) /\ where <= Len(step) + 1
       /\ Edit(StepWith(place, InsertAt(step, where, Scalar("if", "false"))))

\* Written another way, or with another value.
RewordField == \E place \in Places, field \in Rewordings :
    LET step == StepAt(place)
    IN \E n \in DOMAIN step :
        /\ step[n].key = field.key /\ step[n] # field
        /\ Edit(StepWith(place, [step EXCEPT ![n] = field]))

\* The fields after the first may come in any order.
MoveFieldLast == \E place \in Places :
    LET step == StepAt(place)
    IN \E n \in 2 .. Len(step) - 1 :
        Edit(StepWith(place, Append(RemoveAt(step, n), step[n])))

\* A comment line before a field, at the field or at the margin.
AddRemark == \E place \in Places, column \in {0, FieldColumn} :
    LET step == StepAt(place)
    IN \E n \in DOMAIN step :
        /\ step[n].remarks = << >>
        /\ Edit(StepWith(place, [step EXCEPT ![n].remarks = <<column>>]))

Next == \/ RemoveStep \/ AddStep \/ SwapSteps \/ SplitJob \/ AddCondition
        \/ RewordField \/ MoveFieldLast \/ AddRemark

Spec == Init /\ [][Next]_vars

-----------------------------------------------------------------------------
Steps == workflow_steps(Written(document))

\* The order in which they are written.
Precedes(p, q) == p[1] < q[1] \/ (p[1] = q[1] /\ p[2] < q[2])
Rank(p) == Cardinality({q \in Places : Precedes(q, p)}) + 1

\* What a step found is taken to say.
Read(step) ==
    [fields |-> step.fields, with_fields |-> step.with_fields, run_script |-> step.run_script]

(* check_repository.py:257-406.  What the reader finds in a document is what *)
(* it says: every step once, in the order written, told apart by its job,   *)
(* with its own fields, options and command and nothing of its neighbours,  *)
(* whatever the scripts between them look like.                            *)
StepsRecovered ==
    LET steps == Steps
        FoundFor(p) == steps[Rank(p)]
    IN /\ DOMAIN steps = 1 .. Cardinality(Places)
       /\ \A p \in Places : Read(FoundFor(p)) = Meaning(StepAt(p))
       /\ \A p, q \in Places :
            /\ FoundFor(p).position < FoundFor(q).position <=> Precedes(p, q)
            /\ FoundFor(p).steps_block = FoundFor(q).steps_block <=> p[1] = q[1]

(* docs/lessons/icgt-005-go-service-lifecycle.md:307-311.  What the policy   *)
(* promises of a workflow it accepts.                                      *)
SetupAsReviewed(step) ==
    /\ The(step, "uses").value.text \in ImmutableReferences /\ ~Conditional(step)
    /\ Option(step, "go-version-file") = "go.mod" /\ "go-version" \notin DOMAIN Options(step)
    /\ Option(step, "cache") \in FalseSpellings

Unconditional(scripts) == {p \in Places : Runs(StepAt(p), scripts) /\ ~Conditional(StepAt(p))}

Honoured ==
    LET setups == {p \in Places : Invokes(StepAt(p))}
    IN \E preflight, setup, version, gate \in Places :
        /\ Unconditional({Said(PREFLIGHT)}) = {preflight}
        /\ setups = {setup} /\ SetupAsReviewed(StepAt(setup))
        /\ Unconditional(EXPECTED_GOVERSION_SCRIPTS) = {version}
        /\ Unconditional({Said(GATE)}) = {gate}
        /\ \A p \in {setup, version, gate} : p[1] = preflight[1]
        /\ preflight[2] < setup[2] /\ setup[2] < version[2] /\ version[2] < gate[2]

(* check_repository.py:409-496.  The policy passes a workflow exactly when   *)
(* the four stages are there as promised: each once, unconditional, as steps *)
(* of one job and in their order.                                          *)
PolicyExact == check_ci_go_policy(Steps) = {} <=> Honoured

(* docs/lessons/icgt-005-go-service-lifecycle.md:309-310.  A workflow that   *)
(* is accepted runs the policy, the version verification and the gate in    *)
(* unconditional steps.                                                    *)
AcceptedIsUnconditional == check_ci_go_policy(Steps) = {} => Honoured
=============================================================================
