\* One request: requests share no state of the handler or the executor.
CONSTANTS
    MaxConversationMessages = 1
    MaxInstructions = 1
    MaxRequiredCapabilities = 1
    MaxMessageTextRunes = 2
    MaxInstructionSourceRunes = 2
    MaxInstructionTextRunes = 2
    MaxOutputTextRunes = 2
    MaxUsageTokens = 3
    maxIdentifierBytes = 2
    Requests = {r1}
    Inputs <- MCInputs
    Returns <- MCReturns
SPECIFICATION Spec
INVARIANTS
    PaidOnlyWhenAdmissible CorrelationSafe AnswersConform ProviderReportedExactly
PROPERTY
    ImplementsContract
