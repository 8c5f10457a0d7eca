\* Limit 14 admits a pair of surrogates; buffer 6 doubles to 12 and is clipped to 15.
CONSTANTS
    MaxRequestBodyBytes = 14
    readBufferBytes = 6
    maxConsecutiveNoReads = 2
    maxJSONContainerDepth = 2
    Texts <- MCTexts
SPECIFICATION ParsingSpec
INVARIANTS RetainedBounded ExactLimit PatienceExact CallsBounded StrictExactly SurrogatesExact
