--------------------------- MODULE ModelTurnHTTP ----------------------------
(***************************************************************************)
(* gateway/internal/modelturnhttp: ServeHTTP from the request's headers to  *)
(* the one response it writes, or the abort that writes none, with the      *)
(* executor inside.  Several requests share one handler, one executor and   *)
(* one provider; each runs in its own goroutine, and the context of each    *)
(* may end at any moment.                                                  *)
(*                                                                         *)
(* The provider behind the Invoker port is the environment: it may return   *)
(* any combination of a result and an error, or panic.                      *)
(***************************************************************************)
EXTENDS ModelTurn

CONSTANTS Requests,   \* the requests being served
          Inputs,     \* what a client may send: transport and body
          Returns     \* what a provider may return: result and err

\* A body that was read as a strict document holds such a value.
ASSUME InputsAssumption ==
    \A in \in Inputs : ~in.body.nil /\ in.body.read /\ in.body.strict => Formed(in.body.value)

\* Whether a failure may be retried is a Go bool.
ASSUME ReturnsAssumption ==
    \A ret \in Returns : ret.err.kind = "Failure" => ret.err.failure.retryable \in BOOLEAN

VARIABLES input,      \* the request each goroutine serves
          pc,         \* where each goroutine is
          ctxErr,     \* what Err of each request's context reports
          calls,      \* history: calls of Invoke for each request
          dispatched, \* the wire request executeAdmitted was given, if any
          returned,   \* what Invoke returned, if it did
          outcome,    \* what Execute returned, if it did
          response    \* the responses written

vars == <<input, pc, ctxErr, calls, dispatched, returned, outcome, response>>

-----------------------------------------------------------------------------
(* handler.go: admission by target, method and headers.                     *)

\* At most one parameter, and that charset=utf-8.
acceptsJSONMediaType(media) ==
    /\ media.parses
    /\ media.type = "application/json"
    /\ media.parameters \in {<< >>, <<"charset=utf-8">>}

textResponse(status) ==
    [status |-> status, media |-> "text/plain", body |-> "text", allow |-> ""]

\* The rejection, if the headers or the declared trailers call for one.
transportRejection(transport) ==
    CASE ~transport.exactTarget -> {textResponse(404)}
      [] transport.method # "POST" -> {[textResponse(405) EXCEPT !.allow = "POST"]}
      [] transport.encoding \/ transport.typeTrailer
         \/ Len(transport.contentTypes) # 1 -> {textResponse(415)}
      [] ~acceptsJSONMediaType(transport.contentTypes[1]) -> {textResponse(415)}
      [] OTHER -> {}

(* presentation.go: from the outcome to the prepared response.               *)

jsonResponse(status, body) ==
    [status |-> status, media |-> "application/json", body |-> body, allow |-> ""]

prepareInternalResponse == textResponse(500)

admissionFailureStatus(code) ==
    CASE code = "invalid_request" -> {400}
      [] code = "unsupported_capability" -> {422}
      [] code = "internal_error" -> {500}
      [] OTHER -> {}

providerFailurePresentation(code) ==
    CASE code = "authentication_failed" -> {502}
      [] code = "rate_limited" -> {429}
      [] code = "request_rejected" -> {422}
      [] code = "unavailable" -> {503}
      [] code \in {"invalid_response", "unsupported_upstream_output"} -> {502}
      [] code = "internal_error" -> {500}
      [] OTHER -> {}

prepareCompletedResponse(id, result) ==
    jsonResponse(200, [kind |-> "model_turn.completed", requestID |-> id,
                       outputText |-> result.outputText, usage |-> result.usage])

MutFailureResponseNoUsage(id, failure) ==
    LET statuses == providerFailurePresentation(failure.code)
    IN IF statuses = {} THEN prepareInternalResponse
       ELSE jsonResponse(CHOOSE s \in statuses : TRUE,
                [kind |-> "model_turn.failed", requestID |-> id,
                 code |-> failure.code, retryable |-> failure.retryable, usage |-> {}])

prepareProviderFailureResponse(id, failure) ==
    LET statuses == providerFailurePresentation(failure.code)
    IN IF statuses = {} THEN prepareInternalResponse
       ELSE jsonResponse(CHOOSE s \in statuses : TRUE,
                [kind |-> "model_turn.failed", requestID |-> id,
                 code |-> failure.code, retryable |-> failure.retryable,
                 usage |-> failure.usage])

\* prepareProviderOutcome panics with ErrAbortHandler on a context error.
Aborts(result) == \E p \in ProviderOutcome(result) : p.err.kind \in ContextErrors

prepareProviderOutcome(id, result, err) ==
    CASE err.kind = "nil" -> prepareCompletedResponse(id, result)
      [] err.kind = "Failure" -> prepareProviderFailureResponse(id, err.failure)
      [] OTHER -> prepareInternalResponse

prepareOutcome(result) ==
    LET ids == RequestID(result)
        bodies == FailureBody(result)
        codes == FailureCode(result)
        provided == ProviderOutcome(result)
        theId == CHOOSE i \in ids : TRUE
        theBody == CHOOSE b \in bodies : TRUE
        statuses == UNION {admissionFailureStatus(c) : c \in codes}
    IN CASE bodies # {} /\ ids = {} /\ codes = {} /\ provided = {} ->
              [textResponse(400) EXCEPT !.body = theBody]
         [] bodies # {} /\ ids # {} /\ codes # {} /\ provided = {} /\ statuses # {} ->
              jsonResponse(CHOOSE s \in statuses : TRUE, theBody)
         [] bodies = {} /\ ids # {} /\ codes = {} /\ provided # {} ->
              prepareProviderOutcome(theId, result.result, result.err)
         [] OTHER -> prepareInternalResponse

-----------------------------------------------------------------------------
Init ==
    /\ input \in [Requests -> Inputs]
    /\ pc = [r \in Requests |-> "arrived"]
    /\ ctxErr = [r \in Requests |-> "nil"]
    /\ calls = [r \in Requests |-> 0]
    /\ dispatched = [r \in Requests |-> {}]
    /\ returned = [r \in Requests |-> {}]
    /\ outcome = [r \in Requests |-> {}]
    /\ response = [r \in Requests |-> << >>]

\* writePreparedResponse: headers, status and body, on the one path out.
Write(r, prepared) ==
    /\ response' = [response EXCEPT ![r] = Append(@, prepared)]
    /\ pc' = [pc EXCEPT ![r] = "written"]

\* The transport is refused, before a byte of the body is read.
RejectTransport(r) ==
    /\ pc[r] = "arrived"
    /\ \E rejection \in transportRejection(input[r].transport) : Write(r, rejection)
    /\ UNCHANGED <<input, ctxErr, calls, dispatched, returned, outcome>>

Finished(r, result) ==
    /\ outcome' = [outcome EXCEPT ![r] = {result}]
    /\ pc' = [pc EXCEPT ![r] = "executed"]

\* Execute reads and judges the whole body.
AdmitBody(r) ==
    /\ pc[r] = "arrived"
    /\ transportRejection(input[r].transport) = {}
    /\ LET body == input[r].body
       IN IF body.nil
          THEN Finished(r, ExecuteError) /\ UNCHANGED dispatched
          ELSE IF Admitted(body) = {}
          THEN Finished(r, Refusal(body)) /\ UNCHANGED dispatched
          ELSE /\ dispatched' = [dispatched EXCEPT ![r] = Admitted(body)]
               /\ pc' = [pc EXCEPT ![r] = "admitted"]
               /\ UNCHANGED outcome
    /\ UNCHANGED <<input, ctxErr, calls, returned, response>>

\* executeAdmitted maps the request and calls the provider.
Invoke(r) ==
    /\ pc[r] = "admitted"
    /\ \E request \in dispatched[r] :
          IF mapProviderRequest(request) = {}
          THEN Finished(r, newInternalFailure(request.requestID)) /\ UNCHANGED calls
          ELSE /\ calls' = [calls EXCEPT ![r] = @ + 1]
               /\ pc' = [pc EXCEPT ![r] = "invoking"]
               /\ UNCHANGED outcome
    /\ UNCHANGED <<input, ctxErr, dispatched, returned, response>>

\* The provider returns anything, or panics through the handler.
ProviderReturns(r, ret) ==
    /\ pc[r] = "invoking"
    /\ returned' = [returned EXCEPT ![r] = {ret}]
    /\ pc' = [pc EXCEPT ![r] = "returned"]
    /\ UNCHANGED <<input, ctxErr, calls, dispatched, outcome, response>>

ProviderPanics(r) ==
    /\ pc[r] = "invoking"
    /\ pc' = [pc EXCEPT ![r] = "panicked"]
    /\ UNCHANGED <<input, ctxErr, calls, dispatched, returned, outcome, response>>

MutValidateRetries(r) ==
    /\ pc[r] = "returned"
    /\ \E request \in dispatched[r], ret \in returned[r] :
          IF ret.err.kind = "Failure" /\ ret.err.failure.retryable
          THEN pc' = [pc EXCEPT ![r] = "admitted"] /\ UNCHANGED outcome
          ELSE Finished(r, AfterInvoke(request.requestID, ctxErr[r], ret.result, ret.err))
    /\ UNCHANGED <<input, ctxErr, calls, dispatched, returned, response>>

\* ValidateInvocation asks the context only now; it may have ended since.
Validate(r) ==
    /\ pc[r] = "returned"
    /\ \E request \in dispatched[r], ret \in returned[r] :
          Finished(r, AfterInvoke(request.requestID, ctxErr[r], ret.result, ret.err))
    /\ UNCHANGED <<input, ctxErr, calls, dispatched, returned, response>>

\* The outcome is presented: an abort leaves the writer untouched.
Present(r) ==
    /\ pc[r] = "executed"
    /\ \E result \in outcome[r] :
          IF Aborts(result)
          THEN pc' = [pc EXCEPT ![r] = "aborted"] /\ UNCHANGED response
          ELSE Write(r, prepareOutcome(result))
    /\ UNCHANGED <<input, ctxErr, calls, dispatched, returned, outcome>>

Ended == {"written", "aborted", "panicked"}

\* The client disconnects or a deadline passes; the first cause stays.
EndContext(r, e) ==
    /\ pc[r] \notin Ended
    /\ ctxErr[r] = "nil"
    /\ ctxErr' = [ctxErr EXCEPT ![r] = e]
    /\ UNCHANGED <<input, pc, calls, dispatched, returned, outcome, response>>

AllEnded == (\A r \in Requests : pc[r] \in Ended) /\ UNCHANGED vars

Next ==
    \/ \E r \in Requests :
          \/ RejectTransport(r) \/ AdmitBody(r) \/ Invoke(r)
          \/ \E ret \in Returns : ProviderReturns(r, ret)
          \/ ProviderPanics(r) \/ Validate(r) \/ Present(r)
          \/ \E e \in ContextErrors : EndContext(r, e)
    \/ AllEnded

Spec == Init /\ [][Next]_vars

-----------------------------------------------------------------------------
(* The response schemas: success.schema.json and failure.schema.json.       *)

UsageSchema(usage) ==
    usage.inputTokens \in 0 .. MaxUsageTokens /\ usage.outputTokens \in 0 .. MaxUsageTokens

SuccessSchema(body) ==
    /\ body.kind = "model_turn.completed"
    /\ IdentifierSchema(String(body.requestID))
    /\ Len(body.outputText.chars) \in 1 .. MaxOutputTextRunes
    /\ \A usage \in body.usage : UsageSchema(usage)

AdmissionCodes == {"invalid_request", "unsupported_capability"}
SchemaCodes == AdmissionCodes \union
    {"authentication_failed", "rate_limited", "request_rejected", "unavailable",
     "invalid_response", "unsupported_upstream_output", "internal_error"}

FailureSchema(body) ==
    /\ body.kind = "model_turn.failed"
    /\ IdentifierSchema(String(body.requestID))
    /\ body.code \in SchemaCodes /\ body.retryable \in BOOLEAN
    /\ \A usage \in body.usage : UsageSchema(usage)

-----------------------------------------------------------------------------
\* The request is one the published contract admits to the provider.
Admissible(transport, body) ==
    /\ transport.exactTarget /\ transport.method = "POST"
    /\ ~transport.encoding /\ ~transport.typeTrailer
    /\ ~body.nil /\ body.read /\ body.strict
    /\ RequestSchemaAccepts(body.value)
    /\ body.value.members["model_alias"].text.word = "learning-text"
    /\ body.value.members["required_capabilities"].items = << >>

(* executor.go:26-70.  The provider, which costs money, is called at most    *)
(* once for a request, only for an admissible one, and an admissible one is  *)
(* never answered without it.                                               *)
PaidOnlyWhenAdmissible ==
    \A r \in Requests :
        LET transport == input[r].transport
        IN /\ calls[r] <= 1
           /\ calls[r] = 1 => Admissible(transport, input[r].body)
           /\ pc[r] \in Ended /\ calls[r] = 0 =>
                \/ ~Admissible(transport, input[r].body)
                \/ Len(transport.contentTypes) # 1
                \/ ~acceptsJSONMediaType(transport.contentTypes[1])

\* The identifier a client may rely on to correlate, if its body carries one.
SafeIds(body) ==
    IF ~body.nil /\ body.read /\ body.strict /\ body.value.type = "object"
       /\ "request_id" \in DOMAIN body.value.members
       /\ body.value.members["request_id"].type = "string"
       /\ IdentifierSchema(body.value.members["request_id"])
    THEN {body.value.members["request_id"].text} ELSE {}

(* executor.go:34-46.  A JSON answer carries the identifier of its own       *)
(* request, taken from a wholly read strict document and never from a        *)
(* rejected one; the plain 400 is only for requests without such identifier. *)
CorrelationSafe ==
    \A r \in Requests : \A i \in DOMAIN response[r] :
        LET answer == response[r][i]
        IN /\ answer.media = "application/json" =>
                SafeIds(input[r].body) = {answer.body.requestID}
           /\ answer.status = 400 /\ answer.media = "text/plain" =>
                SafeIds(input[r].body) = {}

(* handler.go:32-39, presentation.go:102-104.  A request ends with exactly   *)
(* one response or with none at all: an abort leaves the writer untouched,   *)
(* and happens only when the request's own context ended the same way.       *)
ResponseOrAbort ==
    \A r \in Requests :
        /\ Len(response[r]) = IF pc[r] = "written" THEN 1 ELSE 0
        /\ pc[r] = "aborted" =>
             \E ret \in returned[r] :
                 ctxErr[r] # "nil" /\ ret.err.kind = ctxErr[r] /\ ret.result = ZeroResult

(* presentation.go against success.schema.json and failure.schema.json.      *)
(* Whatever the provider returned, each JSON answer conforms to its schema.  *)
AnswersConform ==
    \A r \in Requests : \A i \in DOMAIN response[r] :
        LET answer == response[r][i]
        IN answer.media = "application/json" =>
             IF answer.status = 200 THEN SuccessSchema(answer.body)
             ELSE FailureSchema(answer.body)

\* Did the provider keep to the comment on Invoker (provider.go:317-326)?
Completed(ret) ==
    /\ ret.err.kind = "nil"
    /\ Len(ret.result.outputText.chars) \in 1 .. MaxOutputTextRunes
    /\ "invalid" \notin {ret.result.outputText.chars[i] :
                            i \in DOMAIN ret.result.outputText.chars}
    /\ \A usage \in ret.result.usage : UsageSchema(usage)
Failed(ret) ==
    /\ ret.err.kind = "Failure" /\ ret.result = ZeroResult
    /\ ret.err.failure.code \in SchemaCodes \ AdmissionCodes
    /\ \A usage \in ret.err.failure.usage : UsageSchema(usage)

(* executor.go:65-69, presentation.go:98-144.  What a conforming provider    *)
(* said reaches the client unaltered, usage included; of anything else the   *)
(* client sees only the fixed internal error.                               *)
ProviderReportedExactly ==
    \A r \in Requests : pc[r] = "written" => \A ret \in returned[r] :
        LET answer == response[r][1]
            body == answer.body
        IN CASE Completed(ret) ->
                  /\ answer.status = 200
                  /\ body.outputText = ret.result.outputText
                  /\ body.usage = ret.result.usage
             [] Failed(ret) ->
                  /\ body.code = ret.err.failure.code
                  /\ body.retryable = ret.err.failure.retryable
                  /\ body.usage = ret.err.failure.usage
             [] OTHER ->
                  /\ answer.status = 500 /\ answer.media = "application/json"
                  /\ body.code = "internal_error"
                  /\ ~body.retryable /\ body.usage = {}

-----------------------------------------------------------------------------
(* The contract (ModelTurnContract), and how the state above maps to it.    *)

\* Admissible, with the one content type the media check accepts.
Payable(in) ==
    /\ Admissible(in.transport, in.body)
    /\ Len(in.transport.contentTypes) = 1
    /\ acceptsJSONMediaType(in.transport.contentTypes[1])

What(ret) ==
    IF Completed(ret) THEN "completed"
    ELSE IF Failed(ret) THEN "failed"
    ELSE IF ret.err.kind \in ContextErrors /\ ret.result = ZeroResult THEN ret.err.kind
    ELSE "nonsense"

Saying(r) == IF returned[r] = {} THEN "nothing" ELSE What(CHOOSE ret \in returned[r] : TRUE)

\* What a client reads from an answer: its media type, status and code.
Kind(answer) ==
    IF answer.media = "text/plain" THEN "refused"
    ELSE IF answer.status = 200 THEN "completed"
    ELSE IF answer.body.code \in AdmissionCodes THEN "refused"
    ELSE "failed"

\* A second response, or one beside an abort, is no ending of the contract.
Ending(r) ==
    IF response[r] = << >>
    THEN IF pc[r] \in {"aborted", "panicked"} THEN pc[r] ELSE "open"
    ELSE IF Len(response[r]) = 1 /\ pc[r] = "written" THEN Kind(response[r][1])
    ELSE "garbled"

Contract == INSTANCE ModelTurnContract WITH
    Causes <- ContextErrors,
    payable <- {r \in Requests : Payable(input[r])},
    cause <- ctxErr,
    said <- [r \in Requests |-> Saying(r)],
    ending <- [r \in Requests |-> Ending(r)]

(* handler.go:32-39, executor.go:26-70, presentation.go:98-144.  However    *)
(* headers, body, provider and context play together, a request is refused   *)
(* unpaid, or paid for once and then reported as the provider put it; it is  *)
(* left without an answer only for the cause that ended its own context.     *)
ImplementsContract == Contract!Spec
=============================================================================
