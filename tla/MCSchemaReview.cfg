\* Two edits: one may undo or hide what the other did.  A title two levels
\* deep is within the guard at the properties and past it below them.
CONSTANTS
    MAX_JSON_BYTES = 2
    MAX_NESTING_DEPTH = 5
    LoneStrings = {"lone"}
    MAX_ENUM_ITEMS = 2
    MAX_VIOLATIONS = 3
    SCHEMA_URI = "uri"
    AUDITED_PATTERN_MATCHERS <- MCPatterns
    Length <- MCLength
    Frozen <- MCFrozen
    Rules <- MCRules
    Instances <- MCInstances
    Damages <- MCDamages
    Samples <- MCSamples
    MaxEdits = 2
SPECIFICATION Spec
INVARIANTS LoadedExactly RefusalClassified EqualityAgrees
           AcceptedIsUsable VerdictIsJSONSchema LockFaithful LockExact
CHECK_DEADLOCK FALSE
