\* Two edits: a duplicated rule changed in one place, in two, or in all of them.
CONSTANTS
    MAX_JSON_BYTES = 2
    MAX_NESTING_DEPTH = 4
    LoneStrings = {}
    MAX_ENUM_ITEMS = 2
    MAX_VIOLATIONS = 3
    SCHEMA_URI = "uri"
    AUDITED_PATTERN_MATCHERS <- SmallPatterns
    Length <- SmallLength
    CANONICAL_SCHEMA_METADATA <- SmallMetadata
    CANONICAL_ROOT_FIELDS <- SmallRootFields
    CANONICAL_REQUIRED_FIELDS <- SmallRequiredFields
    V1_SCHEMA_VALIDATION_FINGERPRINTS <- SmallFingerprints
    FrozenSchemas <- SmallSchemas
    Rules <- MCRules
    Instances <- MCInstances
    MaxEdits = 2
SPECIFICATION Spec
INVARIANTS LockSubsumesDiagnostics EchoesUnderParity
CHECK_DEADLOCK FALSE
