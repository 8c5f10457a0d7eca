----------------------------- MODULE ModelTurn ------------------------------
(***************************************************************************)
(* gateway/internal/modelturn/executor.go and outcome.go: what Execute      *)
(* decides before it calls the provider and after the provider returned,    *)
(* and the closed Outcome it answers with.                                 *)
(*                                                                         *)
(* A body is what the reader leaves Execute with: `read' says whether       *)
(* readRequestBody returned bytes or an error, `strict' whether those bytes *)
(* pass validateStrictDocument, and `value' is the JSON value they spell.    *)
(***************************************************************************)
EXTENDS RequestSchema

supportedAlias == "learning-text"

NilBody == [nil |-> TRUE]
Body(read, strict, value) ==
    [nil |-> FALSE, read |-> read, strict |-> strict, value |-> value]

-----------------------------------------------------------------------------
(* Outcome.  Accessors return a set, empty when the Go one answers false.    *)

newUncorrelatedFailure == [kind |-> "uncorrelatedFailure"]
newFailure(kind, id, code) == [kind |-> kind, requestID |-> id, failureCode |-> code]
newInvalidRequestFailure(id) == newFailure("admissionFailure", id, "invalid_request")
newUnsupportedCapabilityFailure(id) ==
    newFailure("admissionFailure", id, "unsupported_capability")
newInternalFailure(id) == newFailure("internalFailure", id, "internal_error")
newProviderOutcome(id, result, err) ==
    [kind |-> "provider", requestID |-> id, result |-> result, err |-> err]

\* Execute was called without a body: its ordinary error.
ExecuteError == [kind |-> "executeError"]

RequestID(outcome) ==
    IF outcome.kind \in {"admissionFailure", "provider", "internalFailure"}
    THEN {outcome.requestID} ELSE {}

FailureCode(outcome) ==
    IF outcome.kind \in {"admissionFailure", "internalFailure"}
    THEN {outcome.failureCode} ELSE {}

ProviderOutcome(outcome) ==
    IF outcome.kind = "provider" THEN {outcome} ELSE {}

\* The JSON failure of admission carries no usage and never invites a retry.
correlatedFailureBody(id, code) ==
    [kind |-> "model_turn.failed", requestID |-> id, code |-> code,
     retryable |-> FALSE, usage |-> {}]

FailureBody(outcome) ==
    CASE outcome.kind = "uncorrelatedFailure" -> {"invalid request"}
      [] outcome.kind \in {"admissionFailure", "internalFailure"} ->
            {correlatedFailureBody(outcome.requestID, outcome.failureCode)}
      [] OTHER -> {}

-----------------------------------------------------------------------------
(* Execute, before the provider.                                            *)

\* The members of the document, when the body is a strict JSON object.
Documents(body) ==
    IF body.read /\ body.strict THEN decodeObject(body.value) ELSE {}

\* The wire requests that may go to the provider: at most one.
Admitted(body) ==
    UNION {{request \in decodeWireRequest(root) :
               /\ safeRequestID(root) # {}
               /\ request.requiredCapabilities = << >>
               /\ request.modelAlias.word = supportedAlias} :
           root \in Documents(body)}

\* The correlation IDs that the body safely yields: at most one.
CorrelationIDs(body) == UNION {safeRequestID(root) : root \in Documents(body)}

MutRefusalLeaksId(body) ==
    IF CorrelationIDs(body) = {} /\ body.value.type = "object"
       /\ decodeString(Member(body.value.members, "request_id")) # {}
    THEN newInvalidRequestFailure(body.value.members["request_id"].text)
    ELSE IF CorrelationIDs(body) = {} THEN newUncorrelatedFailure
    ELSE LET id == CHOOSE i \in CorrelationIDs(body) : TRUE
             requests == UNION {decodeWireRequest(root) : root \in Documents(body)}
         IN IF \E request \in requests : request.requiredCapabilities # << >>
            THEN newUnsupportedCapabilityFailure(id)
            ELSE newInvalidRequestFailure(id)

\* The outcome of a body that may not go to the provider.  A capability is
\* reported before an unknown alias.
Refusal(body) ==
    IF CorrelationIDs(body) = {} THEN newUncorrelatedFailure
    ELSE LET id == CHOOSE i \in CorrelationIDs(body) : TRUE
             requests == UNION {decodeWireRequest(root) : root \in Documents(body)}
         IN IF \E request \in requests : request.requiredCapabilities # << >>
            THEN newUnsupportedCapabilityFailure(id)
            ELSE newInvalidRequestFailure(id)

(* Execute, after the provider.                                             *)

\* What the provider returned becomes the outcome only if it keeps the port's
\* contract at the moment ctx.Err() is read.
AfterInvoke(id, ctxErr, result, err) ==
    IF ValidateInvocation(ctxErr, result, err)
    THEN newProviderOutcome(id, result, err)
    ELSE newInternalFailure(id)
=============================================================================
