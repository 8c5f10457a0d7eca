\* Two edits: one may undo, hide or move what the other did.
CONSTANTS
    SetupReferences <- MCSetupReferences
    ImmutableReferences <- MCImmutableReferences
    FalseSpellings <- MCFalseSpellings
    JobIndent = 4
    ItemIndent = 2
    Approved <- Reviewed
    MaxEdits = 2
    Conditions = {1, 2, 3}
    Rewordings <- MCRewordings
    ExtraSteps <- MCExtraSteps
SPECIFICATION Spec
INVARIANTS StepsRecovered PolicyExact
CHECK_DEADLOCK FALSE
