\* Two edits: every pair of members at every pair of values.
CONSTANTS
    MaxConversationMessages = 2
    MaxInstructions = 1
    MaxRequiredCapabilities = 1
    MaxMessageTextRunes = 2
    MaxInstructionSourceRunes = 2
    MaxInstructionTextRunes = 2
    MaxOutputTextRunes = 2
    MaxUsageTokens = 1
    maxIdentifierBytes = 2
    Roots <- MCRoots
    Values <- MCValues
    MaxEdits = 2
SPECIFICATION WalkSpec
INVARIANTS DecoderMatchesSchema MappingNeverFails ProviderSeesTheConversation
CHECK_DEADLOCK FALSE
