------------------------ MODULE ModelTurnHTTPProofs -------------------------
(***************************************************************************)
(* The path of a request, for any number of requests, whatever the clients   *)
(* send and whatever the provider returns, at whatever moment a context      *)
(* ends.                                                                    *)
(***************************************************************************)
EXTENDS ModelTurnHTTP, WireProofs

-----------------------------------------------------------------------------
(* The correlation ID.                                                     *)

\* The two ways to say that a text is an identifier agree.
LEMMA IdentifiersAgree ==
    ASSUME NEW text
    PROVE  validIdentifier(text) <=> IdentifierSchema(String(text))
BY DEF validIdentifier, IdentifierSchema, HasLength, MatchesIdentifier, String

\* Execute takes the ID from where a client may expect it.
LEMMA CorrelationIDsSafe ==
    ASSUME NEW body, ~body.nil
    PROVE  CorrelationIDs(body) = SafeIds(body)
<1> DEFINE top == body.value.members
           value == top["request_id"]
           strict == body.read /\ body.strict /\ body.value.type = "object"
<1>1. Documents(body) = IF strict THEN {top} ELSE {}
  BY DEF Documents, decodeObject
<1>2. CASE ~strict
  BY <1>1, <1>2 DEF CorrelationIDs, SafeIds
<1>3. CASE strict
  <2>1. CorrelationIDs(body) = safeRequestID(top)
    BY <1>1, <1>3 DEF CorrelationIDs
  <2>2. CASE "request_id" \notin DOMAIN top
    BY <2>1, <2>2 DEF safeRequestID, Member, OtherValue, decodeString, SafeIds
  <2>3. CASE "request_id" \in DOMAIN top /\ value.type # "string"
    BY <2>1, <2>3 DEF safeRequestID, Member, decodeString, SafeIds
  <2>4. CASE "request_id" \in DOMAIN top /\ value.type = "string"
    <3>1. safeRequestID(top) = {id \in {value.text} : validIdentifier(id)}
      BY <2>4 DEF safeRequestID, Member, decodeString
    <3>2. validIdentifier(value.text) <=> IdentifierSchema(value)
      BY <2>4 DEF validIdentifier, IdentifierSchema, HasLength, MatchesIdentifier
    <3>3. SafeIds(body) = IF IdentifierSchema(value) THEN {value.text} ELSE {}
      BY ~body.nil, <1>3, <2>4 DEF SafeIds
    <3> QED BY <2>1, <3>1, <3>2, <3>3
  <2> QED BY <2>2, <2>3, <2>4
<1> QED BY <1>2, <1>3

\* At most one, and it is an identifier of the schema.
LEMMA SafeIdUnique ==
    ASSUME NEW body, NEW id \in SafeIds(body)
    PROVE  SafeIds(body) = {id} /\ IdentifierSchema(String(id))
<1>1. SafeIds(body) = {body.value.members["request_id"].text}
      /\ body.value.members["request_id"].type = "string"
      /\ IdentifierSchema(body.value.members["request_id"])
  BY DEF SafeIds
<1> QED BY <1>1 DEF IdentifierSchema, HasLength, MatchesIdentifier, String

\* An admitted request carries it.
LEMMA AdmittedCorrelates ==
    ASSUME NEW body, ~body.nil, NEW request \in Admitted(body)
    PROVE  SafeIds(body) = {request.requestID}
<1>1. PICK top \in Documents(body) :
        request \in decodeWireRequest(top) /\ safeRequestID(top) # {}
  BY DEF Admitted
<1>2. request.requestID = top["request_id"].text
  BY <1>1 DEF decodeWireRequest
<1>3. safeRequestID(top) = {top["request_id"].text}
  <2>1. "request_id" \in DOMAIN top
    BY <1>1 DEF safeRequestID, Member, OtherValue, decodeString
  <2>2. top["request_id"].type = "string"
    BY <1>1, <2>1 DEF safeRequestID, Member, decodeString
  <2>3. safeRequestID(top) \subseteq {top["request_id"].text}
    BY <2>1, <2>2 DEF safeRequestID, Member, decodeString
  <2> QED BY <1>1, <2>3
<1>4. request.requestID \in CorrelationIDs(body)
  BY <1>1, <1>2, <1>3 DEF CorrelationIDs
<1> QED BY <1>4, CorrelationIDsSafe, SafeIdUnique

-----------------------------------------------------------------------------
(* Outcomes and what is presented of them.                                 *)

\* A body refused before the provider: with the safe ID or without.
IsRefusal(body, result) ==
    \/ result = newUncorrelatedFailure /\ SafeIds(body) = {}
    \/ \E id \in SafeIds(body) :
          result \in {newInvalidRequestFailure(id), newUnsupportedCapabilityFailure(id)}

LEMMA RefusalCorrelates ==
    ASSUME NEW body, ~body.nil
    PROVE  IsRefusal(body, Refusal(body))
<1>1. CASE SafeIds(body) = {}
  BY <1>1, CorrelationIDsSafe DEF Refusal, IsRefusal
<1>2. CASE SafeIds(body) # {}
  <2> DEFINE id == CHOOSE i \in CorrelationIDs(body) : TRUE
  <2>1. id \in SafeIds(body) /\ CorrelationIDs(body) # {}
    BY <1>2, CorrelationIDsSafe
  <2>2. Refusal(body) \in {newInvalidRequestFailure(id), newUnsupportedCapabilityFailure(id)}
    BY <2>1 DEF Refusal
  <2> QED BY <2>1, <2>2 DEF IsRefusal
<1> QED BY <1>1, <1>2

LEMMA PreparedExecuteError == prepareOutcome(ExecuteError) = prepareInternalResponse
<1>1. /\ RequestID(ExecuteError) = {} /\ FailureBody(ExecuteError) = {}
      /\ FailureCode(ExecuteError) = {} /\ ProviderOutcome(ExecuteError) = {}
  BY DEF RequestID, FailureBody, FailureCode, ProviderOutcome, ExecuteError
<1> QED BY <1>1 DEF prepareOutcome

LEMMA PreparedUncorrelated ==
    prepareOutcome(newUncorrelatedFailure) = [textResponse(400) EXCEPT !.body = "invalid request"]
<1> DEFINE result == newUncorrelatedFailure
<1>1. /\ RequestID(result) = {} /\ FailureBody(result) = {"invalid request"}
      /\ FailureCode(result) = {} /\ ProviderOutcome(result) = {}
  BY DEF RequestID, FailureBody, FailureCode, ProviderOutcome, newUncorrelatedFailure
<1>2. (CHOOSE b \in {"invalid request"} : TRUE) = "invalid request"
  OBVIOUS
<1> QED BY <1>1, <1>2 DEF prepareOutcome

\* An outcome with an ID, a code and a body; one with an ID and a provider's answer.
LEMMA PresentedFailure ==
    ASSUME NEW result, NEW id, NEW code, NEW answer, NEW status,
           RequestID(result) = {id}, FailureCode(result) = {code}, FailureBody(result) = {answer},
           ProviderOutcome(result) = {}, admissionFailureStatus(code) = {status}
    PROVE  prepareOutcome(result) = jsonResponse(status, answer)
<1> DEFINE statuses == UNION {admissionFailureStatus(c) : c \in FailureCode(result)}
<1>1. statuses = {status}
  OBVIOUS
<1>2. (CHOOSE s \in statuses : TRUE) = status
  <2> HIDE DEF statuses
  <2> QED BY <1>1
<1>3. (CHOOSE b \in FailureBody(result) : TRUE) = answer
  OBVIOUS
<1>4. prepareOutcome(result) = jsonResponse(CHOOSE s \in statuses : TRUE,
                                            CHOOSE b \in FailureBody(result) : TRUE)
  BY <1>1, Zenon DEF prepareOutcome
<1> HIDE DEF statuses
<1> QED BY <1>2, <1>3, <1>4

LEMMA PresentedProvider ==
    ASSUME NEW result, NEW id, RequestID(result) = {id}, FailureCode(result) = {},
           FailureBody(result) = {}, ProviderOutcome(result) # {}
    PROVE  prepareOutcome(result) = prepareProviderOutcome(id, result.result, result.err)
<1>1. (CHOOSE i \in RequestID(result) : TRUE) = id
  OBVIOUS
<1>2. prepareOutcome(result) = prepareProviderOutcome(CHOOSE i \in RequestID(result) : TRUE,
                                                      result.result, result.err)
  BY Zenon DEF prepareOutcome
<1> QED BY <1>1, <1>2

\* The status of each admission failure.
StatusOf(code) == IF code = "invalid_request" THEN 400
                  ELSE IF code = "unsupported_capability" THEN 422 ELSE 500

LEMMA PreparedFailure ==
    ASSUME NEW id, NEW kind \in {"admissionFailure", "internalFailure"},
           NEW code \in {"invalid_request", "unsupported_capability", "internal_error"}
    PROVE  prepareOutcome(newFailure(kind, id, code))
             = jsonResponse(StatusOf(code), correlatedFailureBody(id, code))
<1> DEFINE result == newFailure(kind, id, code)
           answer == correlatedFailureBody(id, code)
<1>1. RequestID(result) = {id} /\ FailureCode(result) = {code} /\ ProviderOutcome(result) = {}
  BY DEF RequestID, FailureCode, ProviderOutcome, newFailure
<1>2. FailureBody(result) = {answer}
  BY DEF FailureBody, newFailure
<1>3. admissionFailureStatus(code) = {StatusOf(code)}
  BY DEF admissionFailureStatus, StatusOf
<1>4. prepareOutcome(result) = jsonResponse(StatusOf(code), answer)
  <2> HIDE DEF answer, result
  <2> QED BY <1>1, <1>2, <1>3, PresentedFailure
<1> QED BY <1>4

LEMMA PreparedProvider ==
    ASSUME NEW id, NEW res, NEW err
    PROVE  prepareOutcome(newProviderOutcome(id, res, err)) = prepareProviderOutcome(id, res, err)
<1> DEFINE result == newProviderOutcome(id, res, err)
<1>1. /\ RequestID(result) = {id} /\ FailureCode(result) = {} /\ FailureBody(result) = {}
      /\ ProviderOutcome(result) # {} /\ result.result = res /\ result.err = err
  BY DEF RequestID, FailureCode, FailureBody, ProviderOutcome, newProviderOutcome
<1>2. prepareOutcome(result) = prepareProviderOutcome(id, result.result, result.err)
  <2> HIDE DEF result
  <2> QED BY <1>1, PresentedProvider
<1> QED BY <1>1, <1>2

-----------------------------------------------------------------------------
(* The invariant: what is known of a request at each place.                 *)

Places == Ended \union {"arrived", "admitted", "invoking", "returned", "executed"}
Transported(r) == transportRejection(input[r].transport) = {}

\* How an outcome came about.  The verdict of ValidateInvocation still stands:
\* a context error that was accepted was the cause of the context, which stays.
Made(r, result) ==
    LET body == input[r].body
    IN \/ body.nil /\ result = ExecuteError /\ returned[r] = {}
       \/ ~body.nil /\ IsRefusal(body, result) /\ returned[r] = {}
       \/ /\ ~body.nil
          /\ \E id \in SafeIds(body) : result = newInternalFailure(id)
          /\ \A ret \in returned[r] : ~Completed(ret) /\ ~Failed(ret)
       \/ /\ ~body.nil
          /\ \E id \in SafeIds(body), ret \in returned[r] :
                /\ result = newProviderOutcome(id, ret.result, ret.err)
                /\ ValidateInvocation(ctxErr[r], ret.result, ret.err)

Presented(r) ==
    \/ /\ outcome[r] = {} /\ returned[r] = {}
       /\ \E rejection \in transportRejection(input[r].transport) : response[r] = <<rejection>>
    \/ \E result : /\ outcome[r] = {result} /\ Made(r, result) /\ ~Aborts(result)
                   /\ response[r] = <<prepareOutcome(result)>>

Facts(r) ==
    /\ pc[r] \in {"arrived", "admitted"} => calls[r] = 0
    /\ pc[r] \in {"arrived", "admitted", "invoking"} => returned[r] = {}
    /\ returned[r] = {} \/ \E ret \in Returns : returned[r] = {ret}
    /\ pc[r] \in {"admitted", "invoking", "returned"} =>
         /\ ~input[r].body.nil /\ Transported(r)
         /\ dispatched[r] = Admitted(input[r].body) /\ dispatched[r] # {}
    /\ pc[r] \in {"arrived", "admitted", "invoking", "returned", "panicked"} => outcome[r] = {}
    /\ pc[r] \in {"executed", "aborted"} =>
         \E result : /\ outcome[r] = {result} /\ Made(r, result)
                     /\ pc[r] = "aborted" => Aborts(result)
    /\ pc[r] = "written" => Presented(r)
    /\ pc[r] # "written" => response[r] = << >>

Shapes ==
    /\ input \in [Requests -> Inputs] /\ pc \in [Requests -> Places]
    /\ ctxErr \in [Requests -> ContextErrors \union {"nil"}]
    /\ calls \in [Requests -> {0, 1}]
    /\ dispatched = [r \in Requests |-> dispatched[r]]
    /\ returned = [r \in Requests |-> returned[r]]
    /\ outcome = [r \in Requests |-> outcome[r]]
    /\ response = [r \in Requests |-> response[r]]

IInv == Shapes /\ \A r \in Requests : Facts(r)

LEMMA Initially == Init => IInv
<1> SUFFICES ASSUME Init PROVE IInv
  OBVIOUS
<1>1. Shapes
  BY DEF Init, Shapes, Places, Ended
<1>2. ASSUME NEW r \in Requests PROVE Facts(r)
  BY DEF Init, Facts
<1> QED BY <1>1, <1>2 DEF IInv

\* Requests share nothing: a step of one leaves the facts of another.
Untouched(q) ==
    /\ input'[q] = input[q] /\ pc'[q] = pc[q] /\ ctxErr'[q] = ctxErr[q] /\ calls'[q] = calls[q]
    /\ dispatched'[q] = dispatched[q] /\ returned'[q] = returned[q]
    /\ outcome'[q] = outcome[q] /\ response'[q] = response[q]

LEMMA MadeStays ==
    ASSUME NEW r, NEW result, Made(r, result), input'[r] = input[r], returned'[r] = returned[r],
           ctxErr'[r] = ctxErr[r] \/ ctxErr[r] = "nil"
    PROVE  Made(r, result)'
<1>1. \A ret : ValidateInvocation(ctxErr[r], ret.result, ret.err)
                 => ValidateInvocation(ctxErr'[r], ret.result, ret.err)
  BY DEF ValidateInvocation, ContextErrors
<1> QED BY <1>1 DEF Made

LEMMA FactsStay ==
    ASSUME NEW q \in Requests, Untouched(q), Facts(q)
    PROVE  Facts(q)'
<1>1. \A result : Made(q, result) => Made(q, result)'
  BY MadeStays DEF Untouched
<1>2. Presented(q) => Presented(q)'
  BY <1>1 DEF Presented, Untouched
<1>3. Transported(q)' <=> Transported(q)
  BY DEF Transported, Untouched
<1> QED BY <1>1, <1>2, <1>3 DEF Facts, Untouched

\* A step of one request, judged by that request alone.
LEMMA OneRequest ==
    ASSUME IInv, NEW r \in Requests, Shapes', Facts(r)',
           \A q \in Requests \ {r} : Untouched(q)
    PROVE  IInv'
BY FactsStay DEF IInv

-----------------------------------------------------------------------------
(* The actions, one by one.                                                *)

LEMMA WriteKeepsFacts ==
    ASSUME IInv, NEW r \in Requests, NEW prepared, pc[r] # "written", Write(r, prepared),
           UNCHANGED <<input, ctxErr, calls, dispatched, returned, outcome>>,
           outcome[r] = {} \/ \E result : outcome[r] = {result} /\ Made(r, result),
           response'[r] = <<prepared>> => Presented(r)'
    PROVE  IInv'
<1>1. response[r] = << >> /\ Append(<< >>, prepared) = <<prepared>>
  BY DEF IInv, Facts
<1>2. response'[r] = <<prepared>> /\ pc'[r] = "written"
  BY <1>1 DEF IInv, Shapes, Write
<1>3. Shapes'
  BY DEF IInv, Shapes, Write, Places, Ended
<1>4. \A q \in Requests \ {r} : Untouched(q)
  BY DEF IInv, Shapes, Write, Untouched
<1>5. Facts(r)'
  BY <1>2 DEF IInv, Facts
<1> QED BY <1>3, <1>4, <1>5, OneRequest

LEMMA RejectTransportKeeps ==
    ASSUME IInv, NEW r \in Requests, RejectTransport(r)
    PROVE  IInv'
<1>1. PICK rejection \in transportRejection(input[r].transport) : Write(r, rejection)
  BY DEF RejectTransport
<1>2. outcome[r] = {} /\ returned[r] = {} /\ pc[r] # "written"
  BY DEF IInv, Facts, RejectTransport
<1>3. response'[r] = <<rejection>> => Presented(r)'
  BY <1>1, <1>2 DEF Presented, RejectTransport
<1> QED BY <1>1, <1>2, <1>3, WriteKeepsFacts DEF RejectTransport

\* An outcome is noted.
LEMMA FinishedKeepsFacts ==
    ASSUME IInv, NEW r \in Requests, NEW result, Finished(r, result),
           pc[r] \in {"arrived", "admitted", "returned"},
           UNCHANGED <<input, ctxErr, calls, dispatched, returned, response>>,
           Made(r, result)
    PROVE  IInv'
<1>1. outcome'[r] = {result} /\ pc'[r] = "executed"
  BY DEF IInv, Shapes, Finished
<1>2. Shapes'
  BY DEF IInv, Shapes, Finished, Places, Ended
<1>3. \A q \in Requests \ {r} : Untouched(q)
  BY DEF IInv, Shapes, Finished, Untouched
<1>4. Made(r, result)'
  BY MadeStays
<1>5. Facts(r)'
  BY <1>1, <1>4 DEF IInv, Facts
<1> QED BY <1>2, <1>3, <1>5, OneRequest

LEMMA AdmitBodyKeeps ==
    ASSUME IInv, NEW r \in Requests, AdmitBody(r)
    PROVE  IInv'
<1> DEFINE body == input[r].body
<1>1. pc[r] = "arrived" /\ returned[r] = {} /\ Transported(r)
  BY DEF AdmitBody, IInv, Facts, Transported
<1>2. CASE body.nil
  BY <1>1, <1>2, FinishedKeepsFacts DEF AdmitBody, Made
<1>3. CASE ~body.nil /\ Admitted(body) = {}
  BY <1>1, <1>3, FinishedKeepsFacts, RefusalCorrelates DEF AdmitBody, Made
<1>4. CASE ~body.nil /\ Admitted(body) # {}
  <2>1. /\ pc' = [pc EXCEPT ![r] = "admitted"]
        /\ dispatched' = [dispatched EXCEPT ![r] = Admitted(body)]
        /\ UNCHANGED <<input, ctxErr, calls, returned, outcome, response>>
    BY <1>4 DEF AdmitBody
  <2>2. Shapes'
    BY <2>1 DEF IInv, Shapes, Places, Ended
  <2>3. \A q \in Requests \ {r} : Untouched(q)
    BY <2>1 DEF IInv, Shapes, Untouched
  <2>4. pc'[r] = "admitted" /\ dispatched'[r] = Admitted(body) /\ Transported(r)'
    BY <1>1, <2>1 DEF IInv, Shapes, Transported
  <2>5. Facts(r)'
    BY <1>1, <1>4, <2>1, <2>4 DEF IInv, Facts
  <2> QED BY <2>2, <2>3, <2>5, OneRequest
<1> QED BY <1>2, <1>3, <1>4

LEMMA InvokeKeeps ==
    ASSUME IInv, NEW r \in Requests, Invoke(r)
    PROVE  IInv'
<1>1. PICK request \in dispatched[r] :
          IF mapProviderRequest(request) = {}
          THEN Finished(r, newInternalFailure(request.requestID)) /\ UNCHANGED calls
          ELSE /\ calls' = [calls EXCEPT ![r] = @ + 1]
               /\ pc' = [pc EXCEPT ![r] = "invoking"]
               /\ UNCHANGED outcome
  BY DEF Invoke
<1>2. /\ pc[r] = "admitted" /\ calls[r] = 0 /\ returned[r] = {} /\ ~input[r].body.nil
      /\ dispatched[r] = Admitted(input[r].body)
  BY DEF Invoke, IInv, Facts
<1>3. CASE mapProviderRequest(request) = {}
  <2>1. request.requestID \in SafeIds(input[r].body)
    BY <1>2, AdmittedCorrelates
  <2>2. Made(r, newInternalFailure(request.requestID))
    BY <1>2, <2>1 DEF Made
  <2> QED BY <1>1, <1>2, <1>3, <2>2, FinishedKeepsFacts DEF Invoke
<1>4. CASE mapProviderRequest(request) # {}
  <2>1. /\ calls' = [calls EXCEPT ![r] = 1] /\ pc' = [pc EXCEPT ![r] = "invoking"]
        /\ UNCHANGED <<input, ctxErr, dispatched, returned, outcome, response>>
    BY <1>1, <1>2, <1>4 DEF Invoke
  <2>2. Shapes'
    BY <2>1 DEF IInv, Shapes, Places, Ended
  <2>3. \A q \in Requests \ {r} : Untouched(q)
    BY <2>1 DEF IInv, Shapes, Untouched
  <2>4. pc'[r] = "invoking" /\ Transported(r)' = Transported(r)
    BY <2>1 DEF IInv, Shapes, Transported
  <2>5. Facts(r)'
    BY <1>2, <2>1, <2>4 DEF IInv, Facts
  <2> QED BY <2>2, <2>3, <2>5, OneRequest
<1> QED BY <1>3, <1>4

LEMMA ProviderReturnsKeeps ==
    ASSUME IInv, NEW r \in Requests, NEW ret \in Returns, ProviderReturns(r, ret)
    PROVE  IInv'
<1>1. Shapes'
  BY DEF IInv, Shapes, Places, Ended, ProviderReturns
<1>2. \A q \in Requests \ {r} : Untouched(q)
  BY DEF IInv, Shapes, Untouched, ProviderReturns
<1>3. /\ pc[r] = "invoking" /\ pc'[r] = "returned" /\ returned'[r] = {ret}
      /\ Transported(r)' = Transported(r)
  BY DEF IInv, Shapes, ProviderReturns, Transported
<1>4. Facts(r)'
  BY <1>3 DEF IInv, Facts, ProviderReturns
<1> QED BY <1>1, <1>2, <1>4, OneRequest

LEMMA ProviderPanicsKeeps ==
    ASSUME IInv, NEW r \in Requests, ProviderPanics(r)
    PROVE  IInv'
<1>1. Shapes'
  BY DEF IInv, Shapes, Places, Ended, ProviderPanics
<1>2. \A q \in Requests \ {r} : Untouched(q)
  BY DEF IInv, Shapes, Untouched, ProviderPanics
<1>3. pc[r] = "invoking" /\ pc'[r] = "panicked"
  BY DEF IInv, Shapes, ProviderPanics
<1>4. Facts(r)'
  BY <1>3 DEF IInv, Facts, ProviderPanics
<1> QED BY <1>1, <1>2, <1>4, OneRequest

\* The contract of the port is the one ValidateInvocation applies.
LEMMA RejectedBrokeContract ==
    ASSUME NEW cause, NEW ret, ~ValidateInvocation(cause, ret.result, ret.err)
    PROVE  ~Completed(ret) /\ ~Failed(ret)
BY DEF ValidateInvocation, Completed, Failed, ValidResult, ValidFailure, validateText,
       validateUsage, UsageSchema, SchemaCodes, AdmissionCodes, FailureCodes

LEMMA ValidateKeeps ==
    ASSUME IInv, NEW r \in Requests, Validate(r)
    PROVE  IInv'
<1>1. PICK request \in dispatched[r], ret \in returned[r] :
          Finished(r, AfterInvoke(request.requestID, ctxErr[r], ret.result, ret.err))
  BY DEF Validate
<1>2. /\ pc[r] = "returned" /\ returned[r] = {ret} /\ ~input[r].body.nil
      /\ dispatched[r] = Admitted(input[r].body)
  BY <1>1 DEF Validate, IInv, Facts
<1>3. request.requestID \in SafeIds(input[r].body)
  BY <1>1, <1>2, AdmittedCorrelates
<1>4. Made(r, AfterInvoke(request.requestID, ctxErr[r], ret.result, ret.err))
  <2>1. CASE ValidateInvocation(ctxErr[r], ret.result, ret.err)
    BY <1>2, <1>3, <2>1 DEF AfterInvoke, Made
  <2>2. CASE ~ValidateInvocation(ctxErr[r], ret.result, ret.err)
    <3>1. ~Completed(ret) /\ ~Failed(ret)
      BY <2>2, RejectedBrokeContract
    <3> QED BY <1>2, <1>3, <2>2, <3>1 DEF AfterInvoke, Made
  <2> QED BY <2>1, <2>2
<1> QED BY <1>1, <1>2, <1>4, FinishedKeepsFacts DEF Validate

LEMMA PresentKeeps ==
    ASSUME IInv, NEW r \in Requests, Present(r)
    PROVE  IInv'
<1>1. PICK result \in outcome[r] :
          IF Aborts(result)
          THEN pc' = [pc EXCEPT ![r] = "aborted"] /\ UNCHANGED response
          ELSE Write(r, prepareOutcome(result))
  BY DEF Present
<1>2. pc[r] = "executed" /\ outcome[r] = {result} /\ Made(r, result)
  BY <1>1 DEF Present, IInv, Facts
<1>3. Made(r, result)'
  BY <1>2, MadeStays DEF Present
<1>4. CASE Aborts(result)
  <2>1. /\ pc' = [pc EXCEPT ![r] = "aborted"]
        /\ UNCHANGED <<input, ctxErr, calls, dispatched, returned, outcome, response>>
    BY <1>1, <1>4 DEF Present
  <2>2. Shapes'
    BY <2>1 DEF IInv, Shapes, Places, Ended
  <2>3. \A q \in Requests \ {r} : Untouched(q)
    BY <2>1 DEF IInv, Shapes, Untouched
  <2>4. pc'[r] = "aborted" /\ outcome'[r] = {result}
    BY <1>2, <2>1 DEF IInv, Shapes
  <2>5. Facts(r)'
    BY <1>2, <1>3, <1>4, <2>1, <2>4 DEF IInv, Facts
  <2> QED BY <2>2, <2>3, <2>5, OneRequest
<1>5. CASE ~Aborts(result)
  <2>1. Write(r, prepareOutcome(result))
    BY <1>1, <1>5
  <2>2. response'[r] = <<prepareOutcome(result)>> => Presented(r)'
    BY <1>2, <1>3, <1>5 DEF Presented, Present
  <2> QED BY <1>2, <2>1, <2>2, WriteKeepsFacts DEF Present
<1> QED BY <1>4, <1>5

LEMMA EndContextKeeps ==
    ASSUME IInv, NEW r \in Requests, NEW e \in ContextErrors, EndContext(r, e)
    PROVE  IInv'
<1>1. Shapes'
  BY DEF IInv, Shapes, EndContext
<1>2. \A q \in Requests \ {r} : Untouched(q)
  BY DEF IInv, Shapes, Untouched, EndContext
<1>3. \A result : Made(r, result) => Made(r, result)'
  BY MadeStays DEF EndContext
<1>4. pc[r] \notin {"written", "aborted"} /\ Transported(r)' = Transported(r)
  BY DEF EndContext, Ended, Transported
<1>5. Facts(r)'
  BY <1>3, <1>4 DEF IInv, Facts, EndContext
<1> QED BY <1>1, <1>2, <1>5, OneRequest

LEMMA StepKeepsInvariant == IInv /\ [Next]_vars => IInv'
<1> SUFFICES ASSUME IInv, [Next]_vars PROVE IInv'
  OBVIOUS
<1>1. ASSUME UNCHANGED vars PROVE IInv'
  <2>1. \A q \in Requests : Untouched(q) /\ Facts(q)
    BY <1>1 DEF vars, Untouched, IInv
  <2>2. \A q \in Requests : Facts(q)'
    BY <2>1, FactsStay
  <2>3. Shapes'
    BY <1>1 DEF vars, Shapes, IInv
  <2> QED BY <2>2, <2>3 DEF IInv
<1>2. ASSUME NEW r \in Requests, RejectTransport(r) PROVE IInv'
  BY <1>2, RejectTransportKeeps
<1>3. ASSUME NEW r \in Requests, AdmitBody(r) PROVE IInv'
  BY <1>3, AdmitBodyKeeps
<1>4. ASSUME NEW r \in Requests, Invoke(r) PROVE IInv'
  BY <1>4, InvokeKeeps
<1>5. ASSUME NEW r \in Requests, NEW ret \in Returns, ProviderReturns(r, ret) PROVE IInv'
  BY <1>5, ProviderReturnsKeeps
<1>6. ASSUME NEW r \in Requests, ProviderPanics(r) PROVE IInv'
  BY <1>6, ProviderPanicsKeeps
<1>7. ASSUME NEW r \in Requests, Validate(r) PROVE IInv'
  BY <1>7, ValidateKeeps
<1>8. ASSUME NEW r \in Requests, Present(r) PROVE IInv'
  BY <1>8, PresentKeeps
<1>9. ASSUME NEW r \in Requests, NEW e \in ContextErrors, EndContext(r, e) PROVE IInv'
  BY <1>9, EndContextKeeps
<1> QED BY <1>1, <1>2, <1>3, <1>4, <1>5, <1>6, <1>7, <1>8, <1>9 DEF Next, AllEnded

LEMMA AlwaysIInv == Spec => []IInv
BY Initially, StepKeepsInvariant, PTL DEF Spec

-----------------------------------------------------------------------------
(* What the invariant says of an answer.                                    *)

\* The answers there are, and where each comes from.
Unadmitted(r, answer) ==
    /\ returned[r] = {} /\ answer.media = "text/plain"
    /\ answer.status = 400 => SafeIds(input[r].body) = {}

Refused(r, answer) ==
    /\ \E id \in SafeIds(input[r].body),
          code \in {"invalid_request", "unsupported_capability", "internal_error"} :
          /\ answer = jsonResponse(StatusOf(code), correlatedFailureBody(id, code))
          /\ returned[r] = {} \/ code = "internal_error"
    /\ \A ret \in returned[r] : ~Completed(ret) /\ ~Failed(ret)

Succeeded(r, answer) ==
    \E id \in SafeIds(input[r].body), ret \in returned[r] :
        /\ ret.err.kind = "nil" /\ ValidResult(ret.result)
        /\ answer = prepareCompletedResponse(id, ret.result)

\* The status of each provider failure.
ProviderStatusOf(code) == CHOOSE s \in providerFailurePresentation(code) : TRUE

ReportedFailure(r, answer) ==
    \E id \in SafeIds(input[r].body), ret \in returned[r] :
        /\ ret.err.kind = "Failure" /\ ValidFailure(ret.err.failure) /\ ret.result = ZeroResult
        /\ answer = jsonResponse(ProviderStatusOf(ret.err.failure.code),
                        [kind |-> "model_turn.failed", requestID |-> id,
                         code |-> ret.err.failure.code,
                         retryable |-> ret.err.failure.retryable,
                         usage |-> ret.err.failure.usage])

Answered(r, answer) ==
    \/ Unadmitted(r, answer) \/ Refused(r, answer)
    \/ Succeeded(r, answer) \/ ReportedFailure(r, answer)

LEMMA KnownStatus ==
    ASSUME NEW code \in FailureCodes
    PROVE  /\ providerFailurePresentation(code) # {}
           /\ ProviderStatusOf(code) \in {429, 500, 502, 503, 422}
<1>1. \E s \in {429, 500, 502, 503, 422} : providerFailurePresentation(code) = {s}
  BY DEF FailureCodes, providerFailurePresentation
<1> QED BY <1>1 DEF ProviderStatusOf

LEMMA ResponseFields ==
    ASSUME NEW status, NEW content
    PROVE  /\ jsonResponse(status, content).status = status
           /\ jsonResponse(status, content).media = "application/json"
           /\ jsonResponse(status, content).body = content
           /\ textResponse(status).status = status
           /\ textResponse(status).media = "text/plain"
BY DEF jsonResponse, textResponse

LEMMA RejectionIsText ==
    ASSUME NEW transport, NEW rejection \in transportRejection(transport)
    PROVE  rejection.media = "text/plain" /\ rejection.status # 400
<1> DEFINE strange == ~transport.exactTarget
           other == transport.method # "POST"
           coded == transport.encoding \/ transport.typeTrailer \/ Len(transport.contentTypes) # 1
           media == ~acceptsJSONMediaType(transport.contentTypes[1])
           allowPost == [textResponse(405) EXCEPT !.allow = "POST"]
<1>1. transportRejection(transport) =
        CASE strange -> {textResponse(404)} [] other -> {allowPost}
          [] coded -> {textResponse(415)} [] media -> {textResponse(415)} [] OTHER -> {}
  BY Zenon DEF transportRejection
<1>2. allowPost.media = "text/plain" /\ allowPost.status = 405
  BY DEF textResponse
<1>3. rejection \in {textResponse(404), allowPost, textResponse(415)}
  <2> HIDE DEF strange, other, coded, media, allowPost
  <2>1. transportRejection(transport) \in
          {{textResponse(404)}, {allowPost}, {textResponse(415)}, {}}
    BY <1>1, Zenon
  <2> QED BY <2>1
<1> HIDE DEF allowPost
<1> QED BY <1>2, <1>3, ResponseFields

LEMMA MadeAnswered ==
    ASSUME IInv, NEW r \in Requests, NEW result, Made(r, result), ~Aborts(result)
    PROVE  Answered(r, prepareOutcome(result))
<1> DEFINE body == input[r].body
<1>1. CASE body.nil /\ result = ExecuteError /\ returned[r] = {}
  <2>1. prepareOutcome(result) = textResponse(500)
    BY <1>1, PreparedExecuteError DEF prepareInternalResponse
  <2> QED BY <1>1, <2>1, ResponseFields DEF Answered, Unadmitted
<1>2. CASE ~body.nil /\ IsRefusal(body, result) /\ returned[r] = {}
  <2>1. CASE result = newUncorrelatedFailure /\ SafeIds(body) = {}
    <3>1. prepareOutcome(result).media = "text/plain"
      BY <2>1, PreparedUncorrelated DEF textResponse
    <3> QED BY <1>2, <2>1, <3>1 DEF Answered, Unadmitted
  <2>2. ASSUME NEW id \in SafeIds(body),
               NEW code \in {"invalid_request", "unsupported_capability"},
               result = newFailure("admissionFailure", id, code)
        PROVE  Refused(r, prepareOutcome(result))
    BY <1>2, <2>2, PreparedFailure DEF Refused
  <2> QED BY <1>2, <2>1, <2>2
          DEF IsRefusal, newInvalidRequestFailure, newUnsupportedCapabilityFailure, Answered
<1>3. ASSUME NEW id \in SafeIds(body), result = newInternalFailure(id),
             \A ret \in returned[r] : ~Completed(ret) /\ ~Failed(ret)
      PROVE  Refused(r, prepareOutcome(result))
  <2>1. prepareOutcome(result) = jsonResponse(StatusOf("internal_error"),
                                              correlatedFailureBody(id, "internal_error"))
    BY <1>3, PreparedFailure DEF newInternalFailure
  <2> QED BY <1>3, <2>1 DEF Refused
<1>4. ASSUME NEW id \in SafeIds(body), NEW ret \in returned[r],
             result = newProviderOutcome(id, ret.result, ret.err),
             ValidateInvocation(ctxErr[r], ret.result, ret.err)
      PROVE  Answered(r, prepareOutcome(result))
  <2>1. prepareOutcome(result) = prepareProviderOutcome(id, ret.result, ret.err)
    BY <1>4, PreparedProvider
  <2>2. ret.err.kind \notin ContextErrors
    BY <1>4 DEF Aborts, ProviderOutcome, newProviderOutcome
  <2>3. CASE ret.err.kind = "nil"
    <3>1. ValidResult(ret.result)
      BY <1>4, <2>3 DEF ValidateInvocation, ContextErrors
    <3>2. prepareOutcome(result) = prepareCompletedResponse(id, ret.result)
      BY <2>1, <2>3, Zenon DEF prepareProviderOutcome
    <3> QED BY <2>3, <3>1, <3>2 DEF Answered, Succeeded
  <2>4. CASE ret.err.kind # "nil"
    <3>1. /\ ret.err.kind = "Failure" /\ ValidFailure(ret.err.failure)
          /\ ret.result = ZeroResult
      BY <1>4, <2>2, <2>4 DEF ValidateInvocation
    <3>2. prepareOutcome(result) = prepareProviderFailureResponse(id, ret.err.failure)
      BY <2>1, <2>4, <3>1 DEF prepareProviderOutcome
    <3>3. providerFailurePresentation(ret.err.failure.code) # {}
      BY <3>1, KnownStatus DEF ValidFailure
    <3> QED BY <3>1, <3>2, <3>3
            DEF Answered, ReportedFailure, prepareProviderFailureResponse, ProviderStatusOf
  <2> QED BY <2>3, <2>4
<1> QED BY <1>1, <1>2, <1>3, <1>4 DEF Made, Answered

LEMMA WrittenAnswered ==
    ASSUME IInv, NEW r \in Requests, pc[r] = "written"
    PROVE  \E answer : response[r] = <<answer>> /\ Answered(r, answer)
<1>1. Presented(r)
  BY DEF IInv, Facts
<1>2. ASSUME NEW rejection \in transportRejection(input[r].transport), returned[r] = {},
             response[r] = <<rejection>>
      PROVE  Answered(r, rejection)
  BY <1>2, RejectionIsText DEF Answered, Unadmitted
<1> QED BY <1>1, <1>2, MadeAnswered DEF Presented

\* An answer is in a response only when the response has been written.
LEMMA AnswersAnswered ==
    ASSUME IInv, NEW r \in Requests, NEW i \in DOMAIN response[r]
    PROVE  Answered(r, response[r][i])
<1>1. pc[r] = "written"
  BY DEF IInv, Facts
<1> QED BY <1>1, WrittenAnswered

-----------------------------------------------------------------------------
(* The theorems.                                                           *)

LEMMA ResponseOrAbortFollows == IInv => ResponseOrAbort
<1> SUFFICES ASSUME IInv, NEW r \in Requests
             PROVE  /\ Len(response[r]) = IF pc[r] = "written" THEN 1 ELSE 0
                    /\ pc[r] = "aborted" =>
                         \E ret \in returned[r] : /\ ctxErr[r] # "nil" /\ ret.err.kind = ctxErr[r]
                                                  /\ ret.result = ZeroResult
  BY DEF ResponseOrAbort
<1>1. Len(response[r]) = IF pc[r] = "written" THEN 1 ELSE 0
  <2>1. CASE pc[r] = "written"
    <3>1. PICK answer : response[r] = <<answer>>
      BY <2>1, WrittenAnswered
    <3> QED BY <2>1, <3>1
  <2>2. CASE pc[r] # "written"
    BY <2>2 DEF IInv, Facts
  <2> QED BY <2>1, <2>2
<1>2. ASSUME pc[r] = "aborted"
      PROVE  \E ret \in returned[r] : /\ ctxErr[r] # "nil" /\ ret.err.kind = ctxErr[r]
                                      /\ ret.result = ZeroResult
  <2>1. PICK result : Made(r, result) /\ Aborts(result)
    BY <1>2 DEF IInv, Facts
  <2>2. result.kind = "provider" /\ result.err.kind \in ContextErrors
    BY <2>1 DEF Aborts, ProviderOutcome
  <2>3. \E id \in SafeIds(input[r].body), ret \in returned[r] :
           /\ result = newProviderOutcome(id, ret.result, ret.err)
           /\ ValidateInvocation(ctxErr[r], ret.result, ret.err)
    <3>1. result # ExecuteError /\ result # newUncorrelatedFailure
      BY <2>2 DEF ExecuteError, newUncorrelatedFailure
    <3>2. \A kind, id, code : result = newFailure(kind, id, code) => kind = "provider"
      BY <2>2 DEF newFailure
    <3>3. ~IsRefusal(input[r].body, result)
      BY <3>1, <3>2 DEF IsRefusal, newInvalidRequestFailure, newUnsupportedCapabilityFailure
    <3>4. \A id : result # newInternalFailure(id)
      BY <3>2 DEF newInternalFailure
    <3> QED BY <2>1, <3>1, <3>3, <3>4 DEF Made
  <2> QED BY <2>2, <2>3 DEF newProviderOutcome, ValidateInvocation, ContextErrors
<1> QED BY <1>1, <1>2

(* handler.go:32-39, presentation.go:102-104.  For every mix of requests and *)
(* provider: one response or none, and none only for the cause that ended    *)
(* the request's own context.                                              *)
THEOREM ResponseOrAbortHolds == Spec => []ResponseOrAbort
BY AlwaysIInv, ResponseOrAbortFollows, PTL

LEMMA JSONCorrelates ==
    ASSUME NEW r, NEW answer, Answered(r, answer), ~Unadmitted(r, answer)
    PROVE  /\ answer.media = "application/json"
           /\ SafeIds(input[r].body) = {answer.body.requestID}
<1>1. ASSUME NEW id \in SafeIds(input[r].body), NEW status, NEW content,
             answer = jsonResponse(status, content), content.requestID = id
      PROVE  /\ answer.media = "application/json"
             /\ SafeIds(input[r].body) = {answer.body.requestID}
  BY <1>1, SafeIdUnique, ResponseFields
<1>2. CASE Refused(r, answer)
  BY <1>1, <1>2 DEF Refused, correlatedFailureBody
<1>3. CASE Succeeded(r, answer)
  BY <1>1, <1>3 DEF Succeeded, prepareCompletedResponse
<1>4. CASE ReportedFailure(r, answer)
  <2>1. PICK id \in SafeIds(input[r].body), ret \in returned[r] :
          answer = jsonResponse(ProviderStatusOf(ret.err.failure.code),
                          [kind |-> "model_turn.failed", requestID |-> id,
                           code |-> ret.err.failure.code,
                           retryable |-> ret.err.failure.retryable,
                           usage |-> ret.err.failure.usage])
    BY <1>4 DEF ReportedFailure
  <2> QED BY <1>1, <2>1
<1> QED BY <1>2, <1>3, <1>4 DEF Answered

LEMMA CorrelationSafeFollows == IInv => CorrelationSafe
<1>1. ASSUME IInv, NEW r \in Requests, NEW answer, Answered(r, answer)
      PROVE  /\ answer.media = "application/json" =>
                  SafeIds(input[r].body) = {answer.body.requestID}
             /\ answer.status = 400 /\ answer.media = "text/plain" =>
                  SafeIds(input[r].body) = {}
  BY <1>1, JSONCorrelates DEF Unadmitted
<1> QED BY <1>1, AnswersAnswered DEF CorrelationSafe

(* executor.go:34-46.  Whatever clients send, a JSON answer carries the one  *)
(* identifier its own request safely yields, and the plain 400 is left for   *)
(* requests that yield none.                                               *)
THEOREM CorrelationSafeHolds == Spec => []CorrelationSafe
BY AlwaysIInv, CorrelationSafeFollows, PTL

\* Each body there may be, against its schema.
LEMMA BodiesConform ==
    ASSUME NEW id, IdentifierSchema(String(id))
    PROVE  /\ \A code \in SchemaCodes : FailureSchema(correlatedFailureBody(id, code))
           /\ \A result : ValidResult(result) =>
                SuccessSchema([kind |-> "model_turn.completed", requestID |-> id,
                               outputText |-> result.outputText, usage |-> result.usage])
           /\ \A failure : ValidFailure(failure) /\ failure.retryable \in BOOLEAN =>
                FailureSchema([kind |-> "model_turn.failed", requestID |-> id,
                               code |-> failure.code, retryable |-> failure.retryable,
                               usage |-> failure.usage])
<1>1. \A usage : validateUsage(usage) => UsageSchema(usage)
  BY DEF validateUsage, UsageSchema
<1>2. \A code \in SchemaCodes : FailureSchema(correlatedFailureBody(id, code))
  BY DEF FailureSchema, correlatedFailureBody
<1>3. ASSUME NEW result, ValidResult(result)
      PROVE  SuccessSchema([kind |-> "model_turn.completed", requestID |-> id,
                            outputText |-> result.outputText, usage |-> result.usage])
  <2>1. /\ Len(result.outputText.chars) \in 1 .. MaxOutputTextRunes
        /\ \A usage \in result.usage : UsageSchema(usage)
    BY <1>1, <1>3 DEF ValidResult, validateText
  <2> QED BY <2>1 DEF SuccessSchema
<1>4. ASSUME NEW failure, ValidFailure(failure), failure.retryable \in BOOLEAN
      PROVE  FailureSchema([kind |-> "model_turn.failed", requestID |-> id,
                            code |-> failure.code, retryable |-> failure.retryable,
                            usage |-> failure.usage])
  <2>1. failure.code \in SchemaCodes /\ \A usage \in failure.usage : UsageSchema(usage)
    BY <1>1, <1>4 DEF ValidFailure, FailureCodes, SchemaCodes
  <2> QED BY <1>4, <2>1 DEF FailureSchema
<1> QED BY <1>2, <1>3, <1>4

LEMMA JSONConforms ==
    ASSUME IInv, NEW r \in Requests, NEW answer, Answered(r, answer), ~Unadmitted(r, answer)
    PROVE  IF answer.status = 200 THEN SuccessSchema(answer.body) ELSE FailureSchema(answer.body)
<1>1. \A id \in SafeIds(input[r].body) : IdentifierSchema(String(id))
  BY SafeIdUnique
<1>2. CASE Refused(r, answer)
  <2>1. PICK id \in SafeIds(input[r].body),
             code \in {"invalid_request", "unsupported_capability", "internal_error"} :
          answer = jsonResponse(StatusOf(code), correlatedFailureBody(id, code))
    BY <1>2 DEF Refused
  <2>2. StatusOf(code) # 200 /\ code \in SchemaCodes
    BY DEF StatusOf, SchemaCodes, AdmissionCodes
  <2> QED BY <1>1, <2>1, <2>2, ResponseFields, BodiesConform
<1>3. CASE Succeeded(r, answer)
  <2>1. PICK id \in SafeIds(input[r].body), ret \in returned[r] :
          ValidResult(ret.result) /\ answer = prepareCompletedResponse(id, ret.result)
    BY <1>3 DEF Succeeded
  <2>2. answer.status = 200
        /\ answer.body = [kind |-> "model_turn.completed", requestID |-> id,
                          outputText |-> ret.result.outputText, usage |-> ret.result.usage]
    BY <2>1, ResponseFields DEF prepareCompletedResponse
  <2> QED BY <1>1, <2>1, <2>2, BodiesConform
<1>4. CASE ReportedFailure(r, answer)
  <2>1. PICK id \in SafeIds(input[r].body), ret \in returned[r] :
          /\ ret.err.kind = "Failure" /\ ValidFailure(ret.err.failure)
          /\ answer = jsonResponse(ProviderStatusOf(ret.err.failure.code),
                          [kind |-> "model_turn.failed", requestID |-> id,
                           code |-> ret.err.failure.code,
                           retryable |-> ret.err.failure.retryable,
                           usage |-> ret.err.failure.usage])
    BY <1>4 DEF ReportedFailure
  <2>2. ret.err.failure.retryable \in BOOLEAN
    <3>1. ret \in Returns
      BY DEF IInv, Facts
    <3> QED BY <2>1, <3>1, ReturnsAssumption
  <2>3. ProviderStatusOf(ret.err.failure.code) # 200
    BY <2>1, KnownStatus DEF ValidFailure
  <2> QED BY <1>1, <2>1, <2>2, <2>3, ResponseFields, BodiesConform
<1> QED BY <1>2, <1>3, <1>4 DEF Answered

LEMMA AnswersConformFollows == IInv => AnswersConform
<1>1. ASSUME IInv, NEW r \in Requests, NEW answer, Answered(r, answer),
             answer.media = "application/json"
      PROVE  IF answer.status = 200 THEN SuccessSchema(answer.body)
             ELSE FailureSchema(answer.body)
  BY <1>1, JSONConforms DEF Unadmitted
<1> QED BY <1>1, AnswersAnswered DEF AnswersConform

(* presentation.go against the two response schemas.  Whatever the provider  *)
(* returns, out of its contract or in it, a JSON answer conforms.           *)
THEOREM AnswersConformHolds == Spec => []AnswersConform
BY AlwaysIInv, AnswersConformFollows, PTL

\* The comment on Invoker demands what the validators demand.
LEMMA ContractOfInvoker ==
    ASSUME NEW ret
    PROVE  /\ ret.err.kind = "nil" /\ ValidResult(ret.result) => Completed(ret)
           /\ ret.err.kind = "Failure" /\ ValidFailure(ret.err.failure)
              /\ ret.result = ZeroResult => Failed(ret)
<1>1. ASSUME ret.err.kind = "nil", ValidResult(ret.result) PROVE Completed(ret)
  BY <1>1 DEF Completed, ValidResult, validateText, validateUsage, UsageSchema
<1>2. ASSUME ret.err.kind = "Failure", ValidFailure(ret.err.failure), ret.result = ZeroResult
      PROVE  Failed(ret)
  BY <1>2 DEF Failed, ValidFailure, FailureCodes, SchemaCodes, AdmissionCodes, validateUsage,
     UsageSchema
<1> QED BY <1>1, <1>2

\* What ProviderReportedExactly asks of one answer to one return.
Exact(answer, ret) ==
    /\ Completed(ret) => /\ answer.status = 200
                         /\ answer.body.outputText = ret.result.outputText
                         /\ answer.body.usage = ret.result.usage
    /\ Failed(ret) => /\ answer.body.code = ret.err.failure.code
                      /\ answer.body.retryable = ret.err.failure.retryable
                      /\ answer.body.usage = ret.err.failure.usage
    /\ ~Completed(ret) /\ ~Failed(ret) =>
         /\ answer.status = 500 /\ answer.media = "application/json"
         /\ answer.body.code = "internal_error"
         /\ ~answer.body.retryable /\ answer.body.usage = {}

LEMMA AnswersExact ==
    ASSUME IInv, NEW r \in Requests, NEW answer, Answered(r, answer), NEW ret \in returned[r]
    PROVE  Exact(answer, ret)
<1>1. returned[r] = {ret}
  BY DEF IInv, Facts
<1>2. ~(Completed(ret) /\ Failed(ret))
  BY DEF Completed, Failed
<1>3. ~Unadmitted(r, answer)
  BY DEF Unadmitted
<1>4. CASE Refused(r, answer)
  <2>1. PICK id \in SafeIds(input[r].body) :
          answer = jsonResponse(500, correlatedFailureBody(id, "internal_error"))
    BY <1>1, <1>4 DEF Refused, StatusOf
  <2>2. /\ answer.status = 500 /\ answer.media = "application/json"
        /\ answer.body.code = "internal_error" /\ ~answer.body.retryable
        /\ answer.body.usage = {}
    BY <2>1, ResponseFields DEF correlatedFailureBody
  <2> QED BY <1>4, <2>2 DEF Refused, Exact
<1>5. CASE Succeeded(r, answer)
  <2>1. PICK id \in SafeIds(input[r].body) :
          answer = prepareCompletedResponse(id, ret.result)
    BY <1>1, <1>5 DEF Succeeded
  <2>2. Completed(ret)
    BY <1>1, <1>5, ContractOfInvoker DEF Succeeded
  <2>3. answer.status = 200 /\ answer.body.outputText = ret.result.outputText
        /\ answer.body.usage = ret.result.usage
    BY <2>1, ResponseFields DEF prepareCompletedResponse
  <2> QED BY <1>2, <2>2, <2>3 DEF Exact
<1>6. CASE ReportedFailure(r, answer)
  <2>1. PICK id \in SafeIds(input[r].body) :
          answer.body = [kind |-> "model_turn.failed", requestID |-> id,
                         code |-> ret.err.failure.code,
                         retryable |-> ret.err.failure.retryable,
                         usage |-> ret.err.failure.usage]
    BY <1>1, <1>6, ResponseFields DEF ReportedFailure
  <2>2. Failed(ret)
    BY <1>1, <1>6, ContractOfInvoker DEF ReportedFailure
  <2>3. /\ answer.body.code = ret.err.failure.code
        /\ answer.body.retryable = ret.err.failure.retryable
        /\ answer.body.usage = ret.err.failure.usage
    BY <2>1
  <2> QED BY <1>2, <2>2, <2>3 DEF Exact
<1> QED BY <1>3, <1>4, <1>5, <1>6 DEF Answered

LEMMA ReportedExactlyFollows == IInv => ProviderReportedExactly
<1>1. ASSUME IInv, NEW r \in Requests, pc[r] = "written", NEW ret \in returned[r]
      PROVE  Exact(response[r][1], ret)
  <2>1. PICK answer : response[r] = <<answer>> /\ Answered(r, answer)
    BY <1>1, WrittenAnswered
  <2>2. response[r][1] = answer
    BY <2>1
  <2> QED BY <1>1, <2>1, <2>2, AnswersExact
<1>2. ASSUME NEW answer, NEW ret, Exact(answer, ret)
      PROVE  CASE Completed(ret) ->
                    /\ answer.status = 200
                    /\ answer.body.outputText = ret.result.outputText
                    /\ answer.body.usage = ret.result.usage
               [] Failed(ret) ->
                    /\ answer.body.code = ret.err.failure.code
                    /\ answer.body.retryable = ret.err.failure.retryable
                    /\ answer.body.usage = ret.err.failure.usage
               [] OTHER ->
                    /\ answer.status = 500 /\ answer.media = "application/json"
                    /\ answer.body.code = "internal_error"
                    /\ ~answer.body.retryable /\ answer.body.usage = {}
  BY <1>2, Zenon DEF Exact
<1> QED BY <1>1, <1>2, Zenon DEF ProviderReportedExactly

(* executor.go:65-69, presentation.go:98-144.  A provider that keeps to the  *)
(* port is quoted unaltered, one that does not is replaced by the fixed      *)
(* internal error, whatever it returned and however requests interleave.    *)
THEOREM ProviderReportedExactlyHolds == Spec => []ProviderReportedExactly
BY AlwaysIInv, ReportedExactlyFollows, PTL

-----------------------------------------------------------------------------
(* Who pays.                                                               *)

\* A body goes to the provider exactly when the contract lets it.
PayableBody(body) ==
    /\ ~body.nil /\ body.read /\ body.strict
    /\ RequestSchemaAccepts(body.value)
    /\ body.value.members["model_alias"].text.word = "learning-text"
    /\ body.value.members["required_capabilities"].items = << >>

LEMMA AdmittedExactly ==
    ASSUME NEW body, ~body.nil, body.read /\ body.strict => Formed(body.value)
    PROVE  Admitted(body) # {} <=> PayableBody(body)
<1> DEFINE value == body.value
           top == value.members
<1>1. CASE ~(body.read /\ body.strict /\ value.type = "object")
  <2>1. Documents(body) = {}
    BY <1>1 DEF Documents, decodeObject
  <2>2. ~PayableBody(body)
    BY <1>1 DEF PayableBody, RequestSchemaAccepts, HasProperties
  <2> QED BY <2>1, <2>2 DEF Admitted
<1>2. CASE body.read /\ body.strict /\ value.type = "object"
  <2>1. Admitted(body) = {request \in decodeWireRequest(top) :
                            /\ safeRequestID(top) # {}
                            /\ request.requiredCapabilities = << >>
                            /\ request.modelAlias.word = supportedAlias}
    BY <1>2 DEF Admitted, Documents, decodeObject
  <2>2. decodeWireRequest(top) # {} <=> RequestSchemaAccepts(value)
    BY <1>2, DecoderIsSchema
  <2>3. ASSUME NEW request \in decodeWireRequest(top)
        PROVE  /\ safeRequestID(top) # {}
               /\ request.requiredCapabilities = << >> <=>
                    top["required_capabilities"].items = << >>
               /\ request.modelAlias.word = supportedAlias <=>
                    top["model_alias"].text.word = "learning-text"
    <3>1. /\ ValidEnvelope(top) /\ request.modelAlias = top["model_alias"].text
          /\ request.requiredCapabilities \in
               decodeCapabilities(top["required_capabilities"])
      BY DEF decodeWireRequest
    <3>2. safeRequestID(top) # {}
      BY <3>1 DEF ValidEnvelope, hasExactFields, RequestFields, safeRequestID, Member
    <3>3. FieldFormed(top["required_capabilities"])
      BY <1>2, <3>1 DEF Formed, ValidEnvelope, hasExactFields, RequestFields
    <3> QED BY <3>1, <3>2, <3>3, CapabilitiesDecoded DEF supportedAlias
  <2> QED BY <1>2, <2>1, <2>2, <2>3 DEF PayableBody
<1> QED BY <1>1, <1>2

\* A request that ended unpaid was refused by its headers or by its body.
Unpayable(r) ==
    \/ ~Transported(r)
    \/ input[r].body.nil \/ Admitted(input[r].body) = {}

PaidFacts(r) ==
    /\ calls[r] = 1 => /\ Transported(r) /\ ~input[r].body.nil
                       /\ Admitted(input[r].body) # {}
    /\ pc[r] \in {"invoking", "returned", "panicked"} => calls[r] = 1
    /\ pc[r] \in {"executed", "written", "aborted"} /\ calls[r] = 0 => Unpayable(r)

PInv == \A r \in Requests : PaidFacts(r)

\* The clients' bodies are formed, and an admitted one maps to the port.
LEMMA AdmittedMaps ==
    ASSUME IInv, NEW r \in Requests, ~input[r].body.nil,
           NEW request \in Admitted(input[r].body)
    PROVE  mapProviderRequest(request) # {}
<1> DEFINE body == input[r].body
<1>1. input[r] \in Inputs
  BY DEF IInv, Shapes
<1>2. PICK top \in Documents(body) :
        request \in decodeWireRequest(top) /\ request.requiredCapabilities = << >>
  BY DEF Admitted
<1>3. /\ body.read /\ body.strict /\ body.value.type = "object"
      /\ top = body.value.members
  BY <1>2 DEF Documents, decodeObject
<1>4. Formed(body.value)
  BY <1>1, <1>3, InputsAssumption
<1> QED BY <1>2, <1>3, <1>4, MappingSucceeds

LEMMA PaidFactsStay ==
    ASSUME NEW q \in Requests, PaidFacts(q), input'[q] = input[q], pc'[q] = pc[q],
           calls'[q] = calls[q]
    PROVE  PaidFacts(q)'
BY DEF PaidFacts, Unpayable, Transported

LEMMA StepKeepsPaid == IInv /\ PInv /\ [Next]_vars => PInv'
<1> SUFFICES ASSUME IInv, PInv, [Next]_vars, NEW q \in Requests PROVE PaidFacts(q)'
  BY DEF PInv
<1>0. /\ PaidFacts(q) /\ pc \in [Requests -> Places] /\ calls \in [Requests -> {0, 1}]
      /\ pc[q] \in {"arrived", "admitted"} => calls[q] = 0
  BY DEF PInv, IInv, Shapes, Facts
<1>s. Transported(q)' = Transported(q)
  BY DEF Transported, Next, RejectTransport, AdmitBody, Invoke, ProviderReturns,
     ProviderPanics, Validate, Present, EndContext, AllEnded, vars
<1>1. ASSUME NEW r \in Requests, RejectTransport(r) PROVE PaidFacts(q)'
  <2>1. CASE q # r
    BY <1>0, <1>1, <2>1, PaidFactsStay DEF RejectTransport, Write
  <2>2. CASE q = r
    BY <1>0, <1>1, <1>s, <2>2
    DEF RejectTransport, Write, PaidFacts, Unpayable, Transported
  <2> QED BY <2>1, <2>2
<1>2. ASSUME NEW r \in Requests, AdmitBody(r) PROVE PaidFacts(q)'
  <2>1. CASE q # r
    BY <1>0, <1>2, <2>1, PaidFactsStay DEF AdmitBody, Finished
  <2>2. CASE q = r
    BY <1>0, <1>2, <1>s, <2>2 DEF AdmitBody, Finished, PaidFacts, Unpayable
  <2> QED BY <2>1, <2>2
<1>3. ASSUME NEW r \in Requests, Invoke(r) PROVE PaidFacts(q)'
  <2>1. CASE q # r
    BY <1>0, <1>3, <2>1, PaidFactsStay DEF Invoke, Finished
  <2>2. CASE q = r
    <3>1. /\ Transported(r) /\ ~input[r].body.nil /\ Admitted(input[r].body) # {}
          /\ dispatched[r] = Admitted(input[r].body) /\ calls[r] = 0
      BY <1>3 DEF Invoke, IInv, Facts
    <3>2. calls' = [calls EXCEPT ![r] = 1] /\ pc' = [pc EXCEPT ![r] = "invoking"]
      BY <1>3, <3>1, AdmittedMaps DEF Invoke
    <3> QED BY <1>0, <1>3, <1>s, <2>2, <3>1, <3>2 DEF Invoke, PaidFacts
  <2> QED BY <2>1, <2>2
<1>4. ASSUME NEW r \in Requests,
             \/ \E ret \in Returns : ProviderReturns(r, ret)
             \/ ProviderPanics(r) \/ Validate(r) \/ Present(r)
      PROVE  PaidFacts(q)'
  <2>1. CASE q # r
    BY <1>0, <1>4, <2>1, PaidFactsStay
    DEF ProviderReturns, ProviderPanics, Validate, Present, Finished, Write
  <2>2. CASE q = r
    <3>1. UNCHANGED <<input, calls>> /\ Unpayable(r)' = Unpayable(r)
      BY <1>4, <1>s, <2>2
      DEF ProviderReturns, ProviderPanics, Validate, Present, Unpayable
    <3>2. CASE \E ret \in Returns : ProviderReturns(r, ret)
      BY <1>0, <1>s, <2>2, <3>1, <3>2 DEF ProviderReturns, PaidFacts
    <3>3. CASE ProviderPanics(r)
      BY <1>0, <1>s, <2>2, <3>1, <3>3 DEF ProviderPanics, PaidFacts
    <3>4. CASE Validate(r)
      BY <1>0, <1>s, <2>2, <3>1, <3>4 DEF Validate, Finished, PaidFacts
    <3>5. CASE Present(r)
      BY <1>0, <1>s, <2>2, <3>1, <3>5 DEF Present, Write, PaidFacts
    <3> QED BY <1>4, <3>2, <3>3, <3>4, <3>5
  <2> QED BY <2>1, <2>2
<1>5. ASSUME NEW r \in Requests, NEW e \in ContextErrors, EndContext(r, e) PROVE PaidFacts(q)'
  BY <1>0, <1>5, PaidFactsStay DEF EndContext
<1>6. ASSUME UNCHANGED vars PROVE PaidFacts(q)'
  BY <1>0, <1>6, PaidFactsStay DEF vars
<1> QED BY <1>1, <1>2, <1>3, <1>4, <1>5, <1>6 DEF Next, AllEnded

\* What the headers must be for the body to be read.
LEMMA TransportedExactly ==
    ASSUME NEW transport
    PROVE  transportRejection(transport) = {} <=>
             /\ transport.exactTarget /\ transport.method = "POST"
             /\ ~transport.encoding /\ ~transport.typeTrailer
             /\ Len(transport.contentTypes) = 1
             /\ acceptsJSONMediaType(transport.contentTypes[1])
<1> DEFINE strange == ~transport.exactTarget
           other == transport.method # "POST"
           coded == transport.encoding \/ transport.typeTrailer
                    \/ Len(transport.contentTypes) # 1
           media == ~acceptsJSONMediaType(transport.contentTypes[1])
           notFound == textResponse(404)
           notAllowed == [textResponse(405) EXCEPT !.allow = "POST"]
           unsupported == textResponse(415)
<1>1. transportRejection(transport) =
        CASE strange -> {notFound} [] other -> {notAllowed}
          [] coded -> {unsupported} [] media -> {unsupported} [] OTHER -> {}
  BY Zenon DEF transportRejection
<1>2. transportRejection(transport) = {} <=> ~strange /\ ~other /\ ~coded /\ ~media
  <2> HIDE DEF strange, other, coded, media, notFound, notAllowed, unsupported
  <2> QED BY <1>1, Zenon
<1> QED BY <1>2

\* What is refused unpaid is exactly what the contract does not let through.
LEMMA PayableExactly ==
    ASSUME IInv, NEW r \in Requests
    PROVE  Payable(input[r]) <=> ~Unpayable(r)
<1> DEFINE transport == input[r].transport
           body == input[r].body
<1>1. ~body.nil => (Admitted(body) # {} <=> PayableBody(body))
  <2>1. ~body.nil /\ body.read /\ body.strict => Formed(body.value)
    BY InputsAssumption DEF IInv, Shapes
  <2> QED BY <2>1, AdmittedExactly
<1>2. Admissible(transport, body) <=>
        /\ transport.exactTarget /\ transport.method = "POST"
        /\ ~transport.encoding /\ ~transport.typeTrailer /\ PayableBody(body)
  BY DEF Admissible, PayableBody
<1>3. PayableBody(body) => ~body.nil
  BY DEF PayableBody
<1> QED BY <1>1, <1>2, <1>3, TransportedExactly DEF Payable, Unpayable, Transported

LEMMA PaidFollows == IInv /\ PInv => PaidOnlyWhenAdmissible
<1> SUFFICES ASSUME IInv, PInv, NEW r \in Requests
             PROVE  LET transport == input[r].transport
                    IN /\ calls[r] <= 1
                       /\ calls[r] = 1 => Admissible(transport, input[r].body)
                       /\ pc[r] \in Ended /\ calls[r] = 0 =>
                            \/ ~Admissible(transport, input[r].body)
                            \/ Len(transport.contentTypes) # 1
                            \/ ~acceptsJSONMediaType(transport.contentTypes[1])
  BY DEF PaidOnlyWhenAdmissible
<1>1. calls[r] \in {0, 1} /\ PaidFacts(r)
  BY DEF IInv, PInv, Shapes
<1>2. calls[r] = 1 => Payable(input[r])
  BY <1>1, PayableExactly DEF PaidFacts, Unpayable
<1>3. pc[r] \in Ended /\ calls[r] = 0 => ~Payable(input[r])
  BY <1>1, PayableExactly DEF PaidFacts, Ended
<1> QED BY <1>1, <1>2, <1>3 DEF Payable

(* executor.go:26-70.  The provider is called at most once for a request,    *)
(* only for one the published contract admits, and always for such a one,    *)
(* for every document, all bounds and any number of requests.               *)
THEOREM PaidOnlyWhenAdmissibleHolds == Spec => []PaidOnlyWhenAdmissible
<1>1. Init => PInv
  BY DEF Init, PInv, PaidFacts
<1> QED BY <1>1, StepKeepsPaid, PaidFollows, AlwaysIInv, PTL DEF Spec

-----------------------------------------------------------------------------
(* The path implements its contract (ModelTurnContract).                    *)

\* An outcome that was reached without the provider.
RefusedOutcome(r) ==
    LET body == input[r].body
    IN \E result : /\ outcome[r] = {result}
                   /\ \/ body.nil /\ result = ExecuteError
                      \/ ~body.nil /\ IsRefusal(body, result)

\* An outcome is a refusal, or follows what the provider said.
SpokenFacts(r) ==
    /\ pc[r] = "returned" => returned[r] # {}
    /\ pc[r] = "executed" => \/ calls[r] = 1 /\ returned[r] # {}
                             \/ calls[r] = 0 /\ RefusedOutcome(r)

SInv == \A r \in Requests : SpokenFacts(r)

LEMMA SpokenFactsStay ==
    ASSUME NEW q \in Requests, SpokenFacts(q), Untouched(q)
    PROVE  SpokenFacts(q)'
BY DEF SpokenFacts, RefusedOutcome, Untouched

LEMMA StepKeepsSpoken == IInv /\ PInv /\ SInv /\ [Next]_vars => SInv'
<1> SUFFICES ASSUME IInv, PInv, SInv, [Next]_vars, NEW q \in Requests PROVE SpokenFacts(q)'
  BY DEF SInv
<1>0. /\ SpokenFacts(q) /\ PaidFacts(q) /\ Facts(q) /\ Shapes
  BY DEF SInv, PInv, IInv
<1>1. ASSUME NEW r \in Requests, RejectTransport(r) PROVE SpokenFacts(q)'
  <2>1. CASE q # r
    BY <1>0, <1>1, <2>1, SpokenFactsStay DEF RejectTransport, Write, Untouched, Shapes
  <2>2. CASE q = r
    BY <1>0, <1>1, <2>2 DEF RejectTransport, Write, SpokenFacts, Shapes
  <2> QED BY <2>1, <2>2
<1>2. ASSUME NEW r \in Requests, AdmitBody(r) PROVE SpokenFacts(q)'
  <2>1. CASE q # r
    BY <1>0, <1>2, <2>1, SpokenFactsStay DEF AdmitBody, Finished, Untouched, Shapes
  <2>2. CASE q = r
    <3>1. calls[r] = 0 /\ UNCHANGED <<input, calls>>
      BY <1>0, <1>2, <2>2 DEF Facts, AdmitBody
    <3>2. ASSUME NEW result, Finished(r, result),
                 \/ input[r].body.nil /\ result = ExecuteError
                 \/ ~input[r].body.nil /\ IsRefusal(input[r].body, result)
          PROVE  SpokenFacts(r)'
      <4>1. outcome'[r] = {result} /\ pc'[r] = "executed"
        BY <1>0, <3>2 DEF Finished, Shapes
      <4>2. RefusedOutcome(r)'
        BY <3>1, <3>2, <4>1 DEF RefusedOutcome
      <4> QED BY <3>1, <4>1, <4>2 DEF SpokenFacts
    <3>3. CASE pc' = [pc EXCEPT ![r] = "admitted"]
      BY <1>0, <2>2, <3>3 DEF SpokenFacts, Shapes
    <3> QED BY <1>2, <2>2, <3>2, <3>3, RefusalCorrelates DEF AdmitBody
  <2> QED BY <2>1, <2>2
<1>3. ASSUME NEW r \in Requests, Invoke(r) PROVE SpokenFacts(q)'
  <2>1. CASE q # r
    BY <1>0, <1>3, <2>1, SpokenFactsStay DEF Invoke, Finished, Untouched, Shapes
  <2>2. CASE q = r
    <3>1. pc' = [pc EXCEPT ![r] = "invoking"]
      BY <1>0, <1>3, <2>2, AdmittedMaps DEF Invoke, Facts
    <3> QED BY <1>0, <2>2, <3>1 DEF SpokenFacts, Shapes
  <2> QED BY <2>1, <2>2
<1>4. ASSUME NEW r \in Requests, NEW ret \in Returns, ProviderReturns(r, ret)
      PROVE  SpokenFacts(q)'
  <2>1. CASE q # r
    BY <1>0, <1>4, <2>1, SpokenFactsStay DEF ProviderReturns, Untouched, Shapes
  <2>2. CASE q = r
    BY <1>0, <1>4, <2>2 DEF ProviderReturns, SpokenFacts, Shapes
  <2> QED BY <2>1, <2>2
<1>5. ASSUME NEW r \in Requests, ProviderPanics(r) PROVE SpokenFacts(q)'
  <2>1. CASE q # r
    BY <1>0, <1>5, <2>1, SpokenFactsStay DEF ProviderPanics, Untouched, Shapes
  <2>2. CASE q = r
    BY <1>0, <1>5, <2>2 DEF ProviderPanics, SpokenFacts, Shapes
  <2> QED BY <2>1, <2>2
<1>6. ASSUME NEW r \in Requests, Validate(r) PROVE SpokenFacts(q)'
  <2>1. CASE q # r
    BY <1>0, <1>6, <2>1, SpokenFactsStay DEF Validate, Finished, Untouched, Shapes
  <2>2. CASE q = r
    <3>1. calls[r] = 1 /\ returned[r] # {} /\ UNCHANGED <<calls, returned>>
      BY <1>0, <1>6, <2>2 DEF Validate, PaidFacts, SpokenFacts
    <3>2. pc'[r] = "executed"
      BY <1>0, <1>6 DEF Validate, Finished, Shapes
    <3> QED BY <2>2, <3>1, <3>2 DEF SpokenFacts
  <2> QED BY <2>1, <2>2
<1>7. ASSUME NEW r \in Requests, Present(r) PROVE SpokenFacts(q)'
  <2>1. CASE q # r
    BY <1>0, <1>7, <2>1, SpokenFactsStay DEF Present, Write, Untouched, Shapes
  <2>2. CASE q = r
    BY <1>0, <1>7, <2>2 DEF Present, Write, SpokenFacts, Shapes
  <2> QED BY <2>1, <2>2
<1>8. ASSUME NEW r \in Requests, NEW e \in ContextErrors, EndContext(r, e)
      PROVE  SpokenFacts(q)'
  BY <1>0, <1>8 DEF EndContext, SpokenFacts, RefusedOutcome
<1>9. ASSUME UNCHANGED vars PROVE SpokenFacts(q)'
  BY <1>0, <1>9 DEF vars, SpokenFacts, RefusedOutcome
<1> QED BY <1>1, <1>2, <1>3, <1>4, <1>5, <1>6, <1>7, <1>8, <1>9 DEF Next, AllEnded

\* A refusal of the body is read as one.
LEMMA RefusalsAreRefused ==
    ASSUME IInv, NEW r \in Requests, NEW result,
           \/ input[r].body.nil /\ result = ExecuteError
           \/ ~input[r].body.nil /\ IsRefusal(input[r].body, result)
    PROVE  ~Aborts(result) /\ Kind(prepareOutcome(result)) = "refused"
<1>1. CASE result = ExecuteError
  <2>1. prepareOutcome(result).media = "text/plain"
    BY <1>1, PreparedExecuteError, ResponseFields DEF prepareInternalResponse
  <2> QED BY <1>1, <2>1 DEF Kind, Aborts, ProviderOutcome, ExecuteError
<1>2. CASE result = newUncorrelatedFailure
  <2>1. prepareOutcome(result).media = "text/plain"
    BY <1>2, PreparedUncorrelated DEF textResponse
  <2> QED BY <1>2, <2>1 DEF Kind, Aborts, ProviderOutcome, newUncorrelatedFailure
<1>3. ASSUME NEW id, NEW code \in AdmissionCodes,
             result = newFailure("admissionFailure", id, code)
      PROVE  ~Aborts(result) /\ Kind(prepareOutcome(result)) = "refused"
  <2>1. prepareOutcome(result) = jsonResponse(StatusOf(code), correlatedFailureBody(id, code))
    BY <1>3, PreparedFailure DEF AdmissionCodes
  <2>2. prepareOutcome(result).body = correlatedFailureBody(id, code)
        /\ prepareOutcome(result).status \in {400, 422}
        /\ prepareOutcome(result).media = "application/json"
    BY <2>1, ResponseFields DEF StatusOf, AdmissionCodes
  <2>3. Kind(prepareOutcome(result)) = "refused"
    BY <2>2 DEF Kind, correlatedFailureBody
  <2> QED BY <1>3, <2>3 DEF Aborts, ProviderOutcome, newFailure
<1> QED BY <1>1, <1>2, <1>3
        DEF IsRefusal, newInvalidRequestFailure, newUnsupportedCapabilityFailure, AdmissionCodes

LEMMA SayingIs ==
    ASSUME NEW r, NEW ret, returned[r] = {ret}
    PROVE  Saying(r) = What(ret)
<1>1. (CHOOSE x \in {ret} : TRUE) = ret
  OBVIOUS
<1> QED BY <1>1 DEF Saying

\* What a provider made of a request is one of the sayings.
LEMMA WhatIsSaid ==
    ASSUME NEW ret
    PROVE  What(ret) \in Contract!Sayings /\ What(ret) # "nothing"
BY DEF What, Contract!Sayings, ContextErrors

\* What the provider said is what its client is told.
LEMMA ReportsWhatIsSaid ==
    ASSUME NEW r \in Requests, NEW ret, returned[r] = {ret}, NEW answer, Answered(r, answer)
    PROVE  Kind(answer) = IF What(ret) = "completed" THEN "completed" ELSE "failed"
<1>1. ~(Completed(ret) /\ Failed(ret)) /\ ~Unadmitted(r, answer)
  BY DEF Completed, Failed, Unadmitted
<1>2. CASE Refused(r, answer)
  <2>1. PICK id \in SafeIds(input[r].body) :
          answer = jsonResponse(500, correlatedFailureBody(id, "internal_error"))
    BY <1>2 DEF Refused, StatusOf
  <2>2. Kind(answer) = "failed"
    BY <2>1, ResponseFields DEF Kind, correlatedFailureBody, AdmissionCodes
  <2> QED BY <1>2, <2>2 DEF Refused, What, ContextErrors
<1>3. CASE Succeeded(r, answer)
  <2>1. answer.media = "application/json" /\ answer.status = 200
    BY <1>3, ResponseFields DEF Succeeded, prepareCompletedResponse
  <2>2. Completed(ret)
    BY <1>3, ContractOfInvoker DEF Succeeded
  <2> QED BY <2>1, <2>2 DEF Kind, What
<1>4. CASE ReportedFailure(r, answer)
  <2>1. PICK id \in SafeIds(input[r].body) :
          /\ ret.err.kind = "Failure" /\ ValidFailure(ret.err.failure) /\ ret.result = ZeroResult
          /\ answer = jsonResponse(ProviderStatusOf(ret.err.failure.code),
                          [kind |-> "model_turn.failed", requestID |-> id,
                           code |-> ret.err.failure.code,
                           retryable |-> ret.err.failure.retryable,
                           usage |-> ret.err.failure.usage])
    BY <1>4 DEF ReportedFailure
  <2>2. /\ answer.media = "application/json" /\ answer.status # 200
        /\ answer.body.code \in FailureCodes
    BY <2>1, ResponseFields, KnownStatus DEF ValidFailure
  <2>3. Kind(answer) = "failed"
    BY <2>2 DEF Kind, FailureCodes, AdmissionCodes
  <2>4. Failed(ret)
    BY <2>1, ContractOfInvoker
  <2> QED BY <1>1, <2>3, <2>4 DEF What
<1> QED BY <1>1, <1>2, <1>3, <1>4 DEF Answered

\* An abort is the provider's word for the cause of the request's own context.
LEMMA AbortsForTheCause ==
    ASSUME IInv, NEW r \in Requests, NEW result, Made(r, result), Aborts(result),
           NEW ret, returned[r] = {ret}
    PROVE  What(ret) \in ContextErrors /\ What(ret) = ctxErr[r]
<1>1. result.kind = "provider" /\ result.err.kind \in ContextErrors
  BY DEF Aborts, ProviderOutcome
<1>2. result # ExecuteError /\ \A id : result # newInternalFailure(id)
  BY <1>1 DEF ExecuteError, newInternalFailure, newFailure
<1>3. PICK id \in SafeIds(input[r].body) :
        /\ result = newProviderOutcome(id, ret.result, ret.err)
        /\ ValidateInvocation(ctxErr[r], ret.result, ret.err)
  BY <1>2 DEF Made
<1>4. ret.err.kind \in ContextErrors
  BY <1>1, <1>3 DEF newProviderOutcome
<1>5. ret.err.kind = ctxErr[r] /\ ret.result = ZeroResult
  BY <1>3, <1>4 DEF ValidateInvocation, ContextErrors
<1> QED BY <1>4, <1>5 DEF What, Completed, Failed, ContextErrors

\* Whatever a step does to one request, the contract sees nothing of the others.
Elsewhere(r) == \A q \in Requests \ {r} : Untouched(q)

LEMMA OthersSeem ==
    ASSUME NEW q, Untouched(q)
    PROVE  Ending(q)' = Ending(q) /\ Saying(q)' = Saying(q)
BY DEF Untouched, Ending, Saying

LEMMA PayableStays ==
    ASSUME UNCHANGED input
    PROVE  UNCHANGED {q \in Requests : Payable(input[q])}
OBVIOUS

LEMMA StutterSeen ==
    ASSUME IInv, NEW r \in Requests, Elsewhere(r), UNCHANGED <<input, ctxErr, calls>>,
           Ending(r)' = Ending(r), Saying(r)' = Saying(r)
    PROVE  UNCHANGED Contract!vars
<1>1. \A q \in Requests : Ending(q)' = Ending(q) /\ Saying(q)' = Saying(q)
  BY OthersSeem DEF Elsewhere
<1>2. [q \in Requests |-> Ending(q)]' = [q \in Requests |-> Ending(q)]
  BY <1>1
<1>3. [q \in Requests |-> Saying(q)]' = [q \in Requests |-> Saying(q)]
  BY <1>1
<1> QED BY <1>2, <1>3, PayableStays DEF Contract!vars

LEMMA EndSeen ==
    ASSUME IInv, NEW r \in Requests, Elsewhere(r), UNCHANGED <<input, ctxErr, calls, returned>>,
           Ending(r) = "open", NEW how, Ending(r)' = how
    PROVE  Contract!End(r, how)
<1>1. \A q \in Requests \ {r} : Ending(q)' = Ending(q)
  BY OthersSeem DEF Elsewhere
<1>2. [q \in Requests |-> Ending(q)]' = [[q \in Requests |-> Ending(q)] EXCEPT ![r] = how]
  BY <1>1
<1>3. \A q \in Requests : Saying(q)' = Saying(q)
  BY DEF Saying
<1>4. [q \in Requests |-> Saying(q)]' = [q \in Requests |-> Saying(q)]
  BY <1>3
<1>5. [q \in Requests |-> Ending(q)][r] = "open"
  OBVIOUS
<1> QED BY <1>2, <1>4, <1>5, PayableStays DEF Contract!End

\* A written response that was the first.
LEMMA WriteEnds ==
    ASSUME IInv, NEW r \in Requests, pc[r] # "written", NEW prepared, Write(r, prepared)
    PROVE  Ending(r)' = Kind(prepared)
<1>1. response[r] = << >> /\ Append(<< >>, prepared) = <<prepared>>
  BY DEF IInv, Facts
<1>2. response'[r] = <<prepared>> /\ pc'[r] = "written"
  BY <1>1 DEF IInv, Shapes, Write
<1>3. <<prepared>> # << >> /\ Len(<<prepared>>) = 1 /\ <<prepared>>[1] = prepared
  OBVIOUS
<1> QED BY <1>2, <1>3 DEF Ending

LEMMA Unended ==
    ASSUME IInv, NEW r \in Requests, pc[r] \notin Ended
    PROVE  Ending(r) = "open"
BY DEF IInv, Facts, Ended, Ending

-----------------------------------------------------------------------------
(* Each step of the path is a step of the contract or none.                 *)

LEMMA RejectTransportRefuses ==
    ASSUME IInv, NEW r \in Requests, RejectTransport(r)
    PROVE  Contract!Refuse(r)
<1>1. PICK rejection \in transportRejection(input[r].transport) : Write(r, rejection)
  BY DEF RejectTransport
<1>2. Ending(r) = "open" /\ Ending(r)' = Kind(rejection)
  BY <1>1, Unended, WriteEnds DEF RejectTransport, Ended
<1>3. Kind(rejection) = "refused"
  BY RejectionIsText DEF Kind
<1>4. r \notin {q \in Requests : Payable(input[q])}
  BY <1>1, PayableExactly DEF Unpayable, Transported
<1>5. Elsewhere(r)
  BY <1>1 DEF RejectTransport, Write, Elsewhere, Untouched, IInv, Shapes
<1>6. Contract!End(r, "refused")
  BY <1>2, <1>3, <1>5, EndSeen DEF RejectTransport
<1> QED BY <1>4, <1>6 DEF Contract!Refuse

LEMMA AdmitBodyUnseen ==
    ASSUME IInv, NEW r \in Requests, AdmitBody(r)
    PROVE  UNCHANGED Contract!vars
<1>1. /\ pc'[r] \in {"executed", "admitted"} /\ response' = response
      /\ Elsewhere(r) /\ UNCHANGED <<input, ctxErr, calls, returned>>
  BY DEF AdmitBody, Finished, Elsewhere, Untouched, IInv, Shapes
<1>2. Ending(r)' = Ending(r) /\ Saying(r)' = Saying(r)
  BY <1>1 DEF AdmitBody, Ending, Saying
<1> QED BY <1>1, <1>2, StutterSeen

LEMMA InvokePays ==
    ASSUME IInv, PInv, NEW r \in Requests, Invoke(r)
    PROVE  Contract!Pay(r)
<1>1. /\ Transported(r) /\ ~input[r].body.nil /\ Admitted(input[r].body) # {}
      /\ dispatched[r] = Admitted(input[r].body) /\ calls[r] = 0
  BY DEF Invoke, IInv, Facts
<1>2. calls' = [calls EXCEPT ![r] = 1] /\ pc' = [pc EXCEPT ![r] = "invoking"]
  BY <1>1, AdmittedMaps DEF Invoke
<1>3. Payable(input[r])
  BY <1>1, PayableExactly DEF Unpayable
<1>4. Ending(r) = "open" /\ Ending(r)' = "open"
  <2>1. pc'[r] = "invoking" /\ response'[r] = << >>
    BY <1>2 DEF Invoke, IInv, Facts, Shapes
  <2> QED BY <2>1, Unended DEF Invoke, Ended, Ending
<1>5. \A q \in Requests : Ending(q)' = Ending(q) /\ Saying(q)' = Saying(q)
  <2>1. ASSUME NEW q \in Requests \ {r} PROVE Untouched(q)
    BY <1>2 DEF Invoke, Finished, Untouched, IInv, Shapes
  <2>2. Saying(r)' = Saying(r)
    BY DEF Invoke, Saying
  <2> QED BY <1>4, <2>1, <2>2, OthersSeem
<1>6. [q \in Requests |-> Ending(q)]' = [q \in Requests |-> Ending(q)]
      /\ [q \in Requests |-> Saying(q)]' = [q \in Requests |-> Saying(q)]
  BY <1>5
<1>7. [q \in Requests |-> Ending(q)][r] = "open"
  BY <1>4
<1> QED BY <1>1, <1>2, <1>3, <1>6, <1>7, PayableStays DEF Contract!Pay, Invoke

LEMMA ProviderReturnsSays ==
    ASSUME IInv, PInv, NEW r \in Requests, NEW ret \in Returns, ProviderReturns(r, ret)
    PROVE  Contract!Say(r, What(ret))
<1>1. returned[r] = {} /\ calls[r] = 1 /\ pc[r] = "invoking" /\ response[r] = << >>
  BY DEF ProviderReturns, IInv, Facts, PInv, PaidFacts
<1>2. returned'[r] = {ret} /\ pc'[r] = "returned" /\ response'[r] = << >>
  BY <1>1 DEF ProviderReturns, IInv, Shapes
<1>3. Ending(r) = "open" /\ Ending(r)' = "open"
  BY <1>1, <1>2 DEF Ending
<1>4. Saying(r) = "nothing" /\ Saying(r)' = What(ret)
  <2>1. (CHOOSE x \in {ret} : TRUE) = ret
    OBVIOUS
  <2> QED BY <1>1, <1>2, <2>1 DEF Saying
<1>5. \A q \in Requests \ {r} : Ending(q)' = Ending(q) /\ Saying(q)' = Saying(q)
  <2>1. ASSUME NEW q \in Requests \ {r} PROVE Untouched(q)
    BY DEF ProviderReturns, Untouched, IInv, Shapes
  <2> QED BY <2>1, OthersSeem
<1>6. /\ [q \in Requests |-> Ending(q)]' = [q \in Requests |-> Ending(q)]
      /\ [q \in Requests |-> Ending(q)][r] = "open"
      /\ [q \in Requests |-> Saying(q)][r] = "nothing"
  BY <1>3, <1>4, <1>5
<1>7. [q \in Requests |-> Saying(q)]' = [[q \in Requests |-> Saying(q)] EXCEPT ![r] = What(ret)]
  BY <1>4, <1>5
<1> QED BY <1>1, <1>6, <1>7, PayableStays DEF Contract!Say, ProviderReturns

LEMMA ProviderPanicsSeen ==
    ASSUME IInv, PInv, NEW r \in Requests, ProviderPanics(r)
    PROVE  Contract!Panic(r)
<1>1. returned[r] = {} /\ calls[r] = 1 /\ pc[r] = "invoking" /\ response[r] = << >>
  BY DEF ProviderPanics, IInv, Facts, PInv, PaidFacts
<1>2. pc'[r] = "panicked" /\ response'[r] = << >>
  BY <1>1 DEF ProviderPanics, IInv, Shapes
<1>3. Ending(r) = "open" /\ Ending(r)' = "panicked"
  BY <1>1, <1>2 DEF Ending
<1>4. Elsewhere(r)
  BY DEF ProviderPanics, Elsewhere, Untouched, IInv, Shapes
<1>5. Contract!End(r, "panicked")
  BY <1>3, <1>4, EndSeen DEF ProviderPanics
<1>6. [q \in Requests |-> Saying(q)][r] = "nothing"
  BY <1>1 DEF Saying
<1> QED BY <1>1, <1>5, <1>6 DEF Contract!Panic

LEMMA ValidateUnseen ==
    ASSUME IInv, NEW r \in Requests, Validate(r)
    PROVE  UNCHANGED Contract!vars
<1>1. /\ pc'[r] = "executed" /\ response' = response
      /\ Elsewhere(r) /\ UNCHANGED <<input, ctxErr, calls, returned>>
  BY DEF Validate, Finished, Elsewhere, Untouched, IInv, Shapes
<1>2. Ending(r)' = Ending(r) /\ Saying(r)' = Saying(r)
  BY <1>1 DEF Validate, Ending, Saying
<1> QED BY <1>1, <1>2, StutterSeen

LEMMA PresentEnds ==
    ASSUME IInv, PInv, SInv, NEW r \in Requests, Present(r)
    PROVE  Contract!Refuse(r) \/ Contract!Report(r) \/ Contract!Abort(r)
<1>1. PICK result : outcome[r] = {result} /\ Made(r, result) /\ pc[r] = "executed"
  BY DEF Present, IInv, Facts
<1>2. Ending(r) = "open" /\ Elsewhere(r)
  BY Unended DEF Present, Write, Ended, Elsewhere, Untouched, IInv, Shapes
<1>3. ASSUME NEW how, Ending(r)' = how PROVE Contract!End(r, how)
  BY <1>2, <1>3, EndSeen DEF Present
<1>4. CASE calls[r] = 0 /\ RefusedOutcome(r)
  <2>1. \/ input[r].body.nil /\ result = ExecuteError
        \/ ~input[r].body.nil /\ IsRefusal(input[r].body, result)
    BY <1>1, <1>4 DEF RefusedOutcome
  <2>2. ~Aborts(result) /\ Kind(prepareOutcome(result)) = "refused"
    BY <2>1, RefusalsAreRefused
  <2>3. Ending(r)' = "refused"
    BY <1>1, <2>2, WriteEnds DEF Present
  <2>4. r \notin {q \in Requests : Payable(input[q])}
    BY <1>1, <1>4, PayableExactly DEF PInv, PaidFacts
  <2> QED BY <1>3, <2>3, <2>4 DEF Contract!Refuse
<1>5. CASE calls[r] = 1 /\ returned[r] # {}
  <2>1. PICK ret : returned[r] = {ret}
    BY <1>5 DEF IInv, Facts
  <2>2. [q \in Requests |-> Saying(q)][r] = What(ret)
    BY <2>1, SayingIs
  <2>3. CASE Aborts(result)
    <3>1. What(ret) \in ContextErrors /\ What(ret) = ctxErr[r]
      BY <1>1, <2>1, <2>3, AbortsForTheCause
    <3>2. pc'[r] = "aborted" /\ response'[r] = << >>
      BY <1>1, <2>3 DEF Present, IInv, Facts, Shapes
    <3>3. Ending(r)' = "aborted"
      BY <3>2 DEF Ending
    <3> QED BY <1>3, <2>2, <3>1, <3>3 DEF Contract!Abort
  <2>4. CASE ~Aborts(result)
    <3>1. Answered(r, prepareOutcome(result))
      BY <1>1, <2>4, MadeAnswered
    <3>2. Kind(prepareOutcome(result)) = IF What(ret) = "completed" THEN "completed" ELSE "failed"
      BY <2>1, <3>1, ReportsWhatIsSaid
    <3>3. Ending(r)' = IF What(ret) = "completed" THEN "completed" ELSE "failed"
      BY <1>1, <2>4, <3>2, WriteEnds DEF Present
    <3>4. What(ret) # "nothing"
      BY WhatIsSaid
    <3> QED BY <1>3, <2>2, <3>3, <3>4 DEF Contract!Report
  <2> QED BY <2>3, <2>4
<1> QED BY <1>1, <1>4, <1>5 DEF SInv, SpokenFacts

LEMMA EndContextSeen ==
    ASSUME IInv, NEW r \in Requests, NEW e \in ContextErrors, EndContext(r, e)
    PROVE  Contract!EndContext(r, e)
<1>1. /\ [q \in Requests |-> Ending(q)]' = [q \in Requests |-> Ending(q)]
      /\ [q \in Requests |-> Saying(q)]' = [q \in Requests |-> Saying(q)]
  BY DEF EndContext, Ending, Saying
<1>2. [q \in Requests |-> Ending(q)][r] = "open"
  BY Unended DEF EndContext
<1> QED BY <1>1, <1>2, PayableStays DEF EndContext, Contract!EndContext

LEMMA InitImplements == Init => Contract!Init
<1> SUFFICES ASSUME Init PROVE Contract!Init
  OBVIOUS
<1>1. \A r \in Requests : Ending(r) = "open" /\ Saying(r) = "nothing"
  BY DEF Init, Ending, Saying
<1> QED BY <1>1 DEF Init, Contract!Init

LEMMA StepImplements ==
    IInv /\ PInv /\ SInv /\ [Next]_vars => [Contract!Next]_(Contract!vars)
<1> SUFFICES ASSUME IInv, PInv, SInv, [Next]_vars PROVE [Contract!Next]_(Contract!vars)
  OBVIOUS
<1>1. ASSUME NEW r \in Requests, RejectTransport(r) PROVE Contract!Next
  BY <1>1, RejectTransportRefuses DEF Contract!Next
<1>2. ASSUME NEW r \in Requests, AdmitBody(r) \/ Validate(r) PROVE UNCHANGED Contract!vars
  BY <1>2, AdmitBodyUnseen, ValidateUnseen
<1>3. ASSUME NEW r \in Requests, Invoke(r) PROVE Contract!Next
  BY <1>3, InvokePays DEF Contract!Next
<1>4. ASSUME NEW r \in Requests, NEW ret \in Returns, ProviderReturns(r, ret)
      PROVE  Contract!Next
  <2>1. Contract!Say(r, What(ret)) /\ What(ret) \in Contract!Sayings
    BY <1>4, ProviderReturnsSays, WhatIsSaid
  <2> QED BY <2>1 DEF Contract!Next
<1>5. ASSUME NEW r \in Requests, ProviderPanics(r) PROVE Contract!Next
  BY <1>5, ProviderPanicsSeen DEF Contract!Next
<1>6. ASSUME NEW r \in Requests, Present(r) PROVE Contract!Next
  BY <1>6, PresentEnds DEF Contract!Next
<1>7. ASSUME NEW r \in Requests, NEW e \in ContextErrors, EndContext(r, e) PROVE Contract!Next
  BY <1>7, EndContextSeen DEF Contract!Next
<1>8. ASSUME UNCHANGED vars PROVE UNCHANGED Contract!vars
  <2>1. \A q \in Requests : Ending(q)' = Ending(q) /\ Saying(q)' = Saying(q)
    BY <1>8 DEF vars, Ending, Saying
  <2>2. /\ [q \in Requests |-> Ending(q)]' = [q \in Requests |-> Ending(q)]
        /\ [q \in Requests |-> Saying(q)]' = [q \in Requests |-> Saying(q)]
    BY <2>1
  <2> QED BY <1>8, <2>2, PayableStays DEF vars, Contract!vars
<1> QED BY <1>1, <1>2, <1>3, <1>4, <1>5, <1>6, <1>7, <1>8 DEF Next, AllEnded

(* handler.go:32-39, executor.go:26-70, presentation.go:98-144.  For any     *)
(* number of requests, all documents, headers and bounds, any provider and   *)
(* any moment a context ends: a request is refused unpaid, or paid for once  *)
(* and reported as the provider put it, or left without an answer for the    *)
(* cause that ended its own context.                                        *)
THEOREM ImplementsContractHolds == Spec => ImplementsContract
<1>1. Init => PInv /\ SInv
  BY DEF Init, PInv, PaidFacts, SInv, SpokenFacts
<1>2. Spec => [](IInv /\ PInv)
  BY <1>1, StepKeepsPaid, AlwaysIInv, PTL DEF Spec
<1> QED BY <1>1, <1>2, StepKeepsSpoken, InitImplements, StepImplements, PTL
        DEF Spec, ImplementsContract, Contract!Spec
=============================================================================
