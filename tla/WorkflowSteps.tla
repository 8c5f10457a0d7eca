--------------------------- MODULE WorkflowSteps ----------------------------
(***************************************************************************)
(* The workflow reader of scripts/check_repository.py (workflow_steps,       *)
(* parse_workflow_step, yaml_scalar) and the policy it serves               *)
(* (check_ci_go_policy).                                                   *)
(*                                                                         *)
(* A line is a record: its form, its leading spaces, the spaces after its   *)
(* dash (0 without one), its key and its value.  In a line that is not an   *)
(* entry, value is what follows the last colon.                            *)
(***************************************************************************)
EXTENDS Integers, Sequences, FiniteSetsExt, SequencesExt

CONSTANTS SetupReferences,    \* the values of uses that invoke actions/setup-go
          ImmutableReferences,\* those of them pinned to a commit
          FalseSpellings      \* the spellings of false, in any case

\* Each of them begins with the name of the action.
ASSUME SetupAssumption == "" \notin SetupReferences

BLOCK_SCALARS == {"|", ">", "|-"}
PREFLIGHT == "python3 scripts/check_repository.py"
GATE == "./scripts/check"
GOVERSION == "GOTOOLCHAIN=local go env GOVERSION"

Raw(text) == [text |-> text, quoted |-> FALSE, comment |-> FALSE]
BlankLine == [form |-> "blank", indent |-> 0, gap |-> 0, key |-> "", value |-> Raw("")]

Blank(line) == line.form = "blank"
Skipped(line) == line.form \in {"blank", "comment"}

\* The patterns a line may match.
MappingKey(line) == line.form = "entry" /\ line.gap = 0 /\ line.indent >= 1
StepStart(line) == line.form = "entry" /\ line.gap > 0
StepsKey(line) ==
    /\ line.form = "entry" /\ line.gap = 0 /\ line.key = "steps"
    /\ line.value.text = "" /\ ~line.value.quoted
OpensScalar(line) ==
    line.form # "blank" /\ line.value.text \in BLOCK_SCALARS /\ ~line.value.quoted

\* A trailing comment and the quotes go.
yaml_scalar(raw) == raw.text

\* The rows after n and up to stop, as far as none of them ends it.
Until(n, stop, Ends(_)) ==
    LET ends == {k \in n + 1 .. stop : Ends(k)}
    IN n + 1 .. IF ends = {} THEN stop ELSE Min(ends) - 1

-----------------------------------------------------------------------------
\* The text of a block scalar stays among the lines.
MutScriptsKept(raw_lines) == raw_lines

\* The lines with the text of block scalars blanked out.
structure_lines(raw_lines) ==
    LET Take(done, line) ==
            LET inside == done.block_indent >= 0
                          /\ (Blank(line) \/ line.indent > done.block_indent)
            IN [block_indent |-> CASE inside -> done.block_indent
                                   [] ~inside /\ OpensScalar(line) -> line.indent
                                   [] OTHER -> -1,
                lines |-> Append(done.lines, IF inside THEN BlankLine ELSE line)]
    IN FoldLeft(Take, [block_indent |-> -1, lines |-> << >>], raw_lines).lines

\* key -> the last of its rows; the dictionaries of the code keep the last.
LastRows(lines, rows) ==
    [key \in {lines[n].key : n \in rows} |-> Max({n \in rows : lines[n].key = key})]

Scalars(lines, rowOf) == [key \in DOMAIN rowOf |-> yaml_scalar(lines[rowOf[key]].value)]

WithFields(lines, row, stop, field_indent) ==
    LET rows == {n \in Until(row, stop, LAMBDA k : ~Skipped(lines[k]) /\ lines[k].indent <= field_indent) :
                    MappingKey(lines[n])}
        nested == {n \in rows : lines[n].indent = lines[Min(rows)].indent}
    IN Scalars(lines, LastRows(lines, nested))

\* A line of a script: how far it is indented and what it says.
ScriptLine(indent, form, gap, key, text) ==
    [indent |-> indent, says |-> <<form, gap, key, text>>]
Said(text) == <<ScriptLine(0, "text", 0, "", text)>>

\* textwrap.dedent and strip: no common margin, no blank lines around.
Dedented(lines) ==
    LET full == {n \in DOMAIN lines : ~Blank(lines[n])}
        margin == Min({lines[n].indent : n \in full})
        Shift(n) == IF n = Min(full) \/ Blank(lines[n]) THEN 0 ELSE lines[n].indent - margin
    IN IF full = {} THEN << >>
       ELSE [n \in 1 .. Max(full) - Min(full) + 1 |->
               LET k == Min(full) + n - 1
               IN ScriptLine(Shift(k), lines[k].form, lines[k].gap, lines[k].key, lines[k].value.text)]

RunScript(raw_lines, value, row, stop, field_indent) ==
    IF value \notin BLOCK_SCALARS THEN Said(value)
    ELSE LET rows == Until(row, stop, LAMBDA k : ~Blank(raw_lines[k]) /\ raw_lines[k].indent <= field_indent)
         IN Dedented([n \in 1 .. Cardinality(rows) |-> raw_lines[row + n]])

\* The rows of the fields of a step: its first line and those two columns in.
FieldRows(lines, start, stop) ==
    {start} \union {n \in start + 1 .. stop :
                      MappingKey(lines[n]) /\ lines[n].indent = lines[start].indent + 2}

parse_workflow_step(raw_lines, lines, steps_block, start, stop) ==
    LET field_indent == lines[start].indent + 2
        field_lines == LastRows(lines, FieldRows(lines, start, stop))
        fields == Scalars(lines, field_lines)
    IN [position |-> start, steps_block |-> steps_block, fields |-> fields,
        with_fields |-> IF "with" \in DOMAIN fields
                        THEN WithFields(lines, field_lines["with"], stop, field_indent) ELSE << >>,
        run_script |-> IF "run" \in DOMAIN fields
                       THEN RunScript(raw_lines, fields["run"], field_lines["run"], stop, field_indent)
                       ELSE << >>]

\* The steps of the block that the steps key at row n opens.
BlockSteps(raw_lines, lines, n) ==
    LET inside == Until(n, Len(lines), LAMBDA k : ~Skipped(lines[k]) /\ lines[k].indent <= lines[n].indent)
        items == {k \in inside : StepStart(lines[k])}
        starts == {k \in items : lines[k].indent = lines[Min(items)].indent}
        order == SetToSortSeq(starts, <)
        stop(k) == IF k < Len(order) THEN order[k + 1] - 1 ELSE n + Cardinality(inside)
    IN [k \in DOMAIN order |-> parse_workflow_step(raw_lines, lines, n, order[k], stop(k))]

workflow_steps(raw_lines) ==
    LET lines == structure_lines(raw_lines)
        blocks == SetToSortSeq({n \in DOMAIN lines : StepsKey(lines[n])}, <)
    IN FlattenSeq([k \in DOMAIN blocks |-> BlockSteps(raw_lines, lines, blocks[k])])

-----------------------------------------------------------------------------
(* check_ci_go_policy, over the steps found.                               *)

\* A field, or the empty text get() falls back to.
Field(fields, key) == IF key \in DOMAIN fields THEN fields[key] ELSE ""

EXPECTED_GOVERSION_SCRIPTS ==
    {Said(GOVERSION), Said("compare GOVERSION") \o Said("exit 1")}

Setups(steps) == {n \in DOMAIN steps : Field(steps[n].fields, "uses") \in SetupReferences}

\* The condition of a step is not looked at.
MutConditionalRuns(steps, scripts) == {n \in DOMAIN steps : steps[n].run_script \in scripts}

UnconditionalRuns(steps, scripts) ==
    {n \in DOMAIN steps : "if" \notin DOMAIN steps[n].fields /\ steps[n].run_script \in scripts}

SetupErrors(step) ==
    (IF "if" \in DOMAIN step.fields THEN {"setup conditional"} ELSE {})
    \union (IF Field(step.with_fields, "go-version-file") # "go.mod" THEN {"setup version file"} ELSE {})
    \union (IF "go-version" \in DOMAIN step.with_fields THEN {"setup version literal"} ELSE {})
    \union (IF Field(step.with_fields, "cache") \notin FalseSpellings THEN {"setup cache"} ELSE {})

Single(name, found) == IF Cardinality(found) # 1 THEN {name} ELSE {}

check_ci_go_policy(steps) ==
    LET setup == Setups(steps)
        preflight == UnconditionalRuns(steps, {Said(PREFLIGHT)})
        version == UnconditionalRuns(steps, EXPECTED_GOVERSION_SCRIPTS)
        gate == UnconditionalRuns(steps, {Said(GATE)})
        stages == <<preflight, setup, version, gate>>
        complete == \A k \in 1 .. 4 : Cardinality(stages[k]) = 1
        stage(k) == steps[Min(stages[k])]
    IN Single("setup count", setup)
       \union (IF \E n \in setup : Field(steps[n].fields, "uses") \in ImmutableReferences
                  /\ \A m \in setup : Field(steps[m].fields, "uses") \in ImmutableReferences
               THEN {} ELSE {"setup reference"})
       \union (IF Cardinality(setup) = 1 THEN SetupErrors(stage(2)) ELSE {})
       \union Single("preflight count", preflight)
       \union Single("version count", version)
       \union Single("gate count", gate)
       \union (IF complete /\ Cardinality({stage(k).steps_block : k \in 1 .. 4}) # 1
               THEN {"one block"} ELSE {})
       \union (IF complete /\ \A k \in 1 .. 3 : stage(k).position < stage(k + 1).position
               THEN {} ELSE {"order"})
=============================================================================
