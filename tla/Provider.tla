------------------------------ MODULE Provider ------------------------------
(***************************************************************************)
(* gateway/internal/provider/provider.go: the values that cross the         *)
(* provider-neutral port and the rules every one of them must satisfy.      *)
(*                                                                         *)
(* A Go string is a record: `word' names it where the code compares it with *)
(* a literal, and `chars' is the class of each of its characters, which is  *)
(* all that the validators look at.  A function that returns a value and an *)
(* error returns a set here: the value alone, or nothing.                  *)
(***************************************************************************)
EXTENDS Integers, Sequences

CONSTANTS MaxConversationMessages, MaxInstructions, MaxRequiredCapabilities,
          MaxMessageTextRunes, MaxInstructionSourceRunes, MaxInstructionTextRunes,
          MaxOutputTextRunes, MaxUsageTokens

\* The source's bounds are 64, 32, 1, 65536, 256, 65536, 65536 and 2^53 - 1.
ASSUME ProviderAssumption ==
    /\ MaxConversationMessages \in Nat \ {0}
    /\ MaxInstructions \in Nat /\ MaxRequiredCapabilities \in Nat
    /\ MaxMessageTextRunes \in Nat /\ MaxInstructionSourceRunes \in Nat
    /\ MaxInstructionTextRunes \in Nat /\ MaxOutputTextRunes \in Nat
    /\ MaxUsageTokens \in Nat

\* ASCII letters and digits; one of . _ : -; any other harmless character;
\* a control or line separator; a byte that is no UTF-8.
CharClasses == {"alnum", "mark", "plain", "unsafe", "invalid"}
Text == [word : STRING, chars : Seq(CharClasses)]

validateText(text, minimum, maximum, rejectControls) ==
    /\ Len(text.chars) \in minimum .. maximum
    /\ \A i \in DOMAIN text.chars : text.chars[i] # "invalid"
    /\ rejectControls => \A i \in DOMAIN text.chars : text.chars[i] # "unsafe"

-----------------------------------------------------------------------------
(* Requests.                                                                *)

MessageRoles == {"user", "assistant"}
Message == [role : STRING, content : Text]
Instruction == [source : Text, content : Text]
Request == [conversation : Seq(Message), instructions : Seq(Instruction),
            requiredCapabilities : Seq(STRING)]

validateRequestCardinalities(request) ==
    /\ Len(request.conversation) \in 1 .. MaxConversationMessages
    /\ Len(request.instructions) <= MaxInstructions
    /\ Len(request.requiredCapabilities) <= MaxRequiredCapabilities

ValidRequest(request) ==
    /\ validateRequestCardinalities(request)
    /\ \A i \in DOMAIN request.conversation :
          /\ request.conversation[i].role \in MessageRoles
          /\ validateText(request.conversation[i].content, 1, MaxMessageTextRunes, FALSE)
    /\ \A i \in DOMAIN request.instructions :
          /\ validateText(request.instructions[i].source, 1,
                          MaxInstructionSourceRunes, TRUE)
          /\ validateText(request.instructions[i].content, 1,
                          MaxInstructionTextRunes, FALSE)
    /\ \A i \in DOMAIN request.requiredCapabilities :
          request.requiredCapabilities[i] = "tool_calls"

\* The request built, unless it breaks a rule.
NewRequest(conversation, instructions, requiredCapabilities) ==
    LET request == [conversation |-> conversation, instructions |-> instructions,
                    requiredCapabilities |-> requiredCapabilities]
    IN IF ValidRequest(request) THEN {request} ELSE {}

-----------------------------------------------------------------------------
(* Results and failures.  A usage is a set: empty when none was reported.    *)

Usage == [inputTokens : Int, outputTokens : Int]
Result == [outputText : Text, usage : SUBSET Usage]
Failure == [code : STRING, retryable : BOOLEAN, usage : SUBSET Usage]

validateUsage(usage) ==
    /\ usage.inputTokens \in 0 .. MaxUsageTokens
    /\ usage.outputTokens \in 0 .. MaxUsageTokens

ZeroText == [word |-> "", chars |-> << >>]
ZeroResult == [outputText |-> ZeroText, usage |-> {}]

ValidResult(result) ==
    /\ validateText(result.outputText, 1, MaxOutputTextRunes, FALSE)
    /\ \A usage \in result.usage : validateUsage(usage)

FailureCodes == {"authentication_failed", "rate_limited", "request_rejected",
                 "unavailable", "invalid_response", "unsupported_upstream_output",
                 "internal_error"}

ValidFailure(failure) ==
    /\ failure.code \in FailureCodes
    /\ \A usage \in failure.usage : validateUsage(usage)

\* The errors Invoke may return: none, one of the two context errors, a direct
\* *Failure, a nil *Failure, and any other error (a raw or wrapped one).
ContextErrors == {"Canceled", "DeadlineExceeded"}
NoError == [kind |-> "nil"]
ContextError(e) == [kind |-> e]
FailureError(failure) == [kind |-> "Failure", failure |-> failure]
NilFailure == [kind |-> "nilFailure"]
OtherError == [kind |-> "other"]

MutValidateInvocationLax(ctxErr, result, err) ==
    \/ err.kind = "nil"
    \/ /\ result = ZeroResult
       /\ \/ err.kind \in ContextErrors /\ ctxErr = err.kind
          \/ err.kind = "Failure" /\ ValidFailure(err.failure)

MutValidateInvocationTrustsContext(ctxErr, result, err) ==
    \/ err.kind = "nil" /\ ValidResult(result)
    \/ /\ result = ZeroResult
       /\ \/ err.kind \in ContextErrors
          \/ err.kind = "Failure" /\ ValidFailure(err.failure)

\* Does ValidateInvocation accept what Invoke returned, given what ctx.Err()
\* says when it is asked ("nil" while the context is live)?
ValidateInvocation(ctxErr, result, err) ==
    \/ err.kind = "nil" /\ ValidResult(result)
    \/ /\ result = ZeroResult
       /\ \/ err.kind \in ContextErrors /\ ctxErr = err.kind
          \/ err.kind = "Failure" /\ ValidFailure(err.failure)
=============================================================================
