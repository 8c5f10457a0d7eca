-------------------------- MODULE MCModelTurnHTTP ---------------------------
(***************************************************************************)
(* ModelTurnHTTP for TLC: each way a transport or a body can be refused,    *)
(* and each way a provider can keep or break its contract.                  *)
(***************************************************************************)
EXTENDS ModelTurnHTTP

MCWord(word) == [word |-> word, chars |-> <<"alnum", "alnum">>]
MCChars(chars) == [word |-> "text", chars |-> chars]

MCRoot ==
    [version |-> String(MCWord("v1")), kind |-> String(MCWord("model_turn.request")),
     request_id |-> String(MCChars(<<"alnum", "mark">>)),
     model_alias |-> String(MCWord("learning-text")),
     conversation |-> Array(<<Object([role |-> String(MCWord("user")),
                                      content |-> String(MCChars(<<"plain">>))])>>),
     instructions |-> Array(<< >>),
     required_capabilities |-> Array(<< >>)]

toolCalls == Array(<<String(MCWord("tool_calls"))>>)

MCBodies ==
    {NilBody,
     Body(TRUE, TRUE, Object(MCRoot)),
     Body(FALSE, TRUE, Object(MCRoot)),
     Body(TRUE, FALSE, Object(MCRoot)),
     Body(TRUE, TRUE, Array(<< >>)),
     Body(TRUE, TRUE, Object([f \in DOMAIN MCRoot \ {"request_id"} |-> MCRoot[f]])),
     Body(TRUE, TRUE, Object([MCRoot EXCEPT !["request_id"] = String(MCChars(<<"mark">>))])),
     Body(TRUE, TRUE, Object([MCRoot EXCEPT !["version"] = String(MCWord("v2"))])),
     Body(TRUE, TRUE, Object([MCRoot EXCEPT !["required_capabilities"] = toolCalls])),
     Body(TRUE, TRUE, Object([MCRoot EXCEPT !["model_alias"] = String(MCWord("other"))])),
     Body(TRUE, TRUE, Object([MCRoot EXCEPT !["model_alias"] = String(MCWord("other")),
                                            !["required_capabilities"] = toolCalls]))}

JSONType == [parses |-> TRUE, type |-> "application/json", parameters |-> << >>]

MCTransport ==
    [exactTarget |-> TRUE, method |-> "POST", encoding |-> FALSE,
     contentTypes |-> <<JSONType>>, typeTrailer |-> FALSE]

MCMediaTypes ==
    {[JSONType EXCEPT !.parses = FALSE], [JSONType EXCEPT !.type = "text/plain"],
     [JSONType EXCEPT !.parameters = <<"charset=latin1">>],
     [JSONType EXCEPT !.parameters = <<"charset=utf-8", "charset=utf-8">>]}

MCRefusedTransports ==
    {[MCTransport EXCEPT !.exactTarget = FALSE], [MCTransport EXCEPT !.method = "GET"],
     [MCTransport EXCEPT !.encoding = TRUE], [MCTransport EXCEPT !.typeTrailer = TRUE],
     [MCTransport EXCEPT !.contentTypes = << >>],
     [MCTransport EXCEPT !.contentTypes = <<JSONType, JSONType>>]}
    \union {[MCTransport EXCEPT !.contentTypes = <<m>>] : m \in MCMediaTypes}

MCInputs ==
    {[transport |-> MCTransport, body |-> b] : b \in MCBodies}
    \union {[transport |-> t, body |-> Body(TRUE, TRUE, Object(MCRoot))] :
               t \in MCRefusedTransports \union
                     {[MCTransport EXCEPT !.contentTypes =
                         <<[JSONType EXCEPT !.parameters = <<"charset=utf-8">>]>>]}}

MCUsages == {{}, {[inputTokens |-> 0, outputTokens |-> MaxUsageTokens]},
             {[inputTokens |-> 0, outputTokens |-> MaxUsageTokens + 1]},
             {[inputTokens |-> -1, outputTokens |-> 0]}}

MCResults ==
    {[outputText |-> MCChars(c), usage |-> u] :
        c \in {<<"plain">>, <<"invalid">>, <<"plain", "unsafe", "plain">>}, u \in MCUsages}
    \union {ZeroResult}

MCFailures ==
    {FailureError([code |-> c, retryable |-> b, usage |-> u]) :
        c \in FailureCodes \union {"invalid_request", "unknown"},
        b \in BOOLEAN, u \in MCUsages}

MCErrors == MCFailures \union {NilFailure, OtherError}
            \union {ContextError(e) : e \in ContextErrors}

MCReturns ==
    {[result |-> res, err |-> NoError] : res \in MCResults}
    \union {[result |-> ZeroResult, err |-> e] : e \in MCErrors}
    \union {[result |-> [outputText |-> MCChars(<<"plain">>), usage |-> {}], err |-> e] :
               e \in {OtherError, ContextError("Canceled"),
                      FailureError([code |-> "unavailable", retryable |-> TRUE,
                                    usage |-> {}])}}
=============================================================================
