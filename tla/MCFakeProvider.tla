--------------------------- MODULE MCFakeProvider ---------------------------
(***************************************************************************)
(* FakeProvider for TLC: scripts of up to three exchanges, valid and not,   *)
(* and calls that differ from them in each field firstRequestMismatch       *)
(* compares.                                                                *)
(***************************************************************************)
EXTENDS FakeProvider

MCText(word) == [word |-> word, chars |-> <<"plain">>]
MCMessage(role, word) == [role |-> role, content |-> MCText(word)]
MCRequest(conversation, instructions, capabilities) ==
    [conversation |-> conversation, instructions |-> instructions,
     requiredCapabilities |-> capabilities]

plain == MCRequest(<<MCMessage("user", "a")>>, << >>, << >>)
instructed == MCRequest(<<MCMessage("user", "a")>>,
                        <<[source |-> MCText("s"), content |-> MCText("c")]>>, << >>)

MCRequests ==
    {plain, instructed,
     MCRequest(<<MCMessage("assistant", "a")>>, << >>, << >>),
     MCRequest(<<MCMessage("user", "b")>>, << >>, << >>),
     MCRequest(<<MCMessage("user", "a"), MCMessage("user", "a")>>, << >>, << >>),
     MCRequest(<<MCMessage("user", "a")>>,
               <<[source |-> MCText("s"), content |-> MCText("d")]>>, << >>),
     MCRequest(<<MCMessage("user", "a")>>, << >>, <<"tool_calls">>)}

done == [outputText |-> MCText("done"), usage |-> {}]
failed == [code |-> "unavailable", retryable |-> TRUE,
           usage |-> {[inputTokens |-> 1, outputTokens |-> 0]}]

MCExchanges ==
    ExpectResult(plain, done) \union ExpectResult(instructed, done)
    \union ExpectFailure(plain, {failed}) \union {ZeroExchange}
    \union ExpectResult(NoRequest, done) \union ExpectResult(plain, ZeroResult)
    \union ExpectFailure(plain, {})
    \union ExpectFailure(plain, {[failed EXCEPT !.code = "invalid_request"]})

MCScripts == UNION {[1 .. n -> MCExchanges] : n \in 0 .. 3}

MCCalls == {[nilContext |-> FALSE, request |-> r] : r \in MCRequests}
           \union {[nilContext |-> TRUE, request |-> plain]}
=============================================================================
