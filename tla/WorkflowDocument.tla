-------------------------- MODULE WorkflowDocument --------------------------
(***************************************************************************)
(* Workflow documents in YAML's block style: what they say, and how they    *)
(* are written.  This is the reference the reader is compared with; it      *)
(* models no code.                                                         *)
(*                                                                         *)
(* A document is a sequence of jobs, a job a sequence of steps, a step a    *)
(* sequence of fields.  The value of a field is a scalar, a mapping (the    *)
(* entries of its body) or a block scalar (the lines of its body, each at   *)
(* least one space further in than the field).                             *)
(***************************************************************************)
EXTENDS WorkflowSteps

CONSTANTS JobIndent,          \* spaces before the keys of a job
          ItemIndent          \* spaces before a step, beyond those of steps

Line(form, indent, gap, key, value) ==
    [form |-> form, indent |-> indent, gap |-> gap, key |-> key, value |-> value]
Entry(key, value) == Line("entry", 0, 0, key, value)
Text(text) == Line("text", 0, 0, "", Raw(text))

\* Remarks are comment lines written just before a field, where they stand
\* at an indentation of their own.
FieldOf(key, value, body) == [key |-> key, value |-> value, body |-> body, remarks |-> << >>]
Scalar(key, text) == FieldOf(key, Raw(text), << >>)
Mapping(key, entries) == FieldOf(key, Raw(""), entries)
Block(key, lines) == FieldOf(key, Raw("|"), lines)

IsBlock(field) == field.value.text \in BLOCK_SCALARS /\ ~field.value.quoted

-----------------------------------------------------------------------------
(* How it is written.                                                      *)

DashColumn == JobIndent + ItemIndent
FieldColumn == DashColumn + 2
BodyColumn == FieldColumn + 2

WrittenField(field, first) ==
    [n \in DOMAIN field.remarks |-> Line("comment", field.remarks[n], 0, "", Raw("remark"))]
    \o <<IF first THEN Line("entry", DashColumn, 1, field.key, field.value)
         ELSE Line("entry", FieldColumn, 0, field.key, field.value)>>
    \o [n \in DOMAIN field.body |->
          IF Blank(field.body[n]) THEN BlankLine
          ELSE [field.body[n] EXCEPT !.indent = BodyColumn + @]]

WrittenStep(step) == FlattenSeq([n \in DOMAIN step |-> WrittenField(step[n], n = 1)])

WrittenJob(job) ==
    <<Line("entry", 2, 0, "job", Raw("")), Line("entry", JobIndent, 0, "runs-on", Raw("ubuntu")),
      BlankLine, Line("entry", JobIndent, 0, "steps", Raw(""))>>
    \o FlattenSeq([n \in DOMAIN job |-> Append(WrittenStep(job[n]), BlankLine)])

Written(document) ==
    <<Line("entry", 0, 0, "name", Raw("checks")), Line("entry", 0, 0, "jobs", Raw(""))>>
    \o FlattenSeq([n \in DOMAIN document |-> WrittenJob(document[n])])

-----------------------------------------------------------------------------
(* What it says.                                                           *)

Names(step) == {step[n].key : n \in DOMAIN step}
The(step, key) == step[CHOOSE n \in DOMAIN step : step[n].key = key]

Options(step) ==
    IF "with" \notin Names(step) THEN << >>
    ELSE LET body == The(step, "with").body
         IN [key \in {body[n].key : n \in DOMAIN body} |->
               body[CHOOSE n \in DOMAIN body : body[n].key = key].value.text]

Option(step, key) == IF key \in DOMAIN Options(step) THEN Options(step)[key] ELSE ""

Command(step) ==
    IF "run" \notin Names(step) THEN << >>
    ELSE IF IsBlock(The(step, "run"))
    THEN LET body == The(step, "run").body
         IN [n \in DOMAIN body |-> ScriptLine(body[n].indent, body[n].form, body[n].gap, body[n].key,
                                             body[n].value.text)]
    ELSE Said(The(step, "run").value.text)

Meaning(step) ==
    [fields |-> [key \in Names(step) |-> The(step, key).value.text],
     with_fields |-> Options(step), run_script |-> Command(step)]

Runs(step, scripts) == Command(step) \in scripts
Conditional(step) == "if" \in Names(step)
Invokes(step) == "uses" \in Names(step) /\ The(step, "uses").value.text \in SetupReferences
=============================================================================
