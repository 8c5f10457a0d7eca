\* Two exchanges at most, so a script of three is one too long.
CONSTANTS
    MaxConversationMessages = 2
    MaxInstructions = 1
    MaxRequiredCapabilities = 1
    MaxMessageTextRunes = 2
    MaxInstructionSourceRunes = 2
    MaxInstructionTextRunes = 2
    MaxOutputTextRunes = 2
    MaxUsageTokens = 1
    MaxExchanges = 2
    Scripts <- MCScripts
    Calls <- MCCalls
    MaxCalls = 3
SPECIFICATION Spec
INVARIANTS ScriptFollowed VerifyExact FirstViolationKept PortObeyed
\* A test stops after its last call.
CHECK_DEADLOCK FALSE
