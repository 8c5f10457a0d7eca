\* Any one fault of the tree together with any one fault of the manifest.
CONSTANTS
    MAX_JSON_BYTES = 2
    MAX_NESTING_DEPTH = 9
    LoneStrings = {}
    MAX_ENUM_ITEMS = 2
    MAX_VIOLATIONS = 4
    SCHEMA_URI = "uri"
    AUDITED_PATTERN_MATCHERS <- SmallPatterns
    Length <- SmallLength
    CANONICAL_SCHEMA_METADATA <- SmallMetadata
    CANONICAL_ROOT_FIELDS <- SmallRootFields
    CANONICAL_REQUIRED_FIELDS <- SmallRequiredFields
    V1_SCHEMA_VALIDATION_FINGERPRINTS <- SmallFingerprints
    Paths <- MCPaths
    Contents <- MCContents
    Reads <- MCReads
    InProfile <- MCInProfile
    Breaks <- MCBreaks
    Drift <- MCDrift
    CanonicalPaths <- MCCanonical
    Keywords <- SUPPORTED_KEYWORDS
    Slugs <- MCSlugs
    Checkouts <- MCCheckouts
    None = "None"
SPECIFICATION Spec
INVARIANTS PassExactly EveryCaseAccountedFor
CHECK_DEADLOCK FALSE
