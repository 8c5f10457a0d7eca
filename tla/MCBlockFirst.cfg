\* A step that begins with a block scalar, and one condition added to it.
CONSTANTS
    SetupReferences <- MCSetupReferences
    ImmutableReferences <- MCImmutableReferences
    FalseSpellings <- MCFalseSpellings
    JobIndent = 4
    ItemIndent = 2
    Approved <- GateByBlock
    MaxEdits = 1
    Conditions = {1, 2}
    Rewordings = {}
    ExtraSteps = {}
SPECIFICATION Spec
INVARIANT AcceptedIsUnconditional
CHECK_DEADLOCK FALSE
