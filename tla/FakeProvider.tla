---------------------------- MODULE FakeProvider ----------------------------
(***************************************************************************)
(* gateway/internal/provider/fake/fake.go: the test double behind the       *)
(* Invoker port.  It follows one strict script; a call that departs from it *)
(* panics, and the violation stays on record after the test recovers.       *)
(*                                                                         *)
(* The double has one owner and no locks, so its calls are one sequence.    *)
(***************************************************************************)
EXTENDS Provider

CONSTANTS MaxExchanges,   \* 64 in the source
          Scripts,        \* what a test may pass to New
          Calls,          \* calls of Invoke a test or an executor may make
          MaxCalls        \* bound on their number

Exchange == [expected : Request, result : Result, failure : SUBSET Failure,
             outcome : {"none", "result", "failure"}]

ASSUME FakeAssumption ==
    /\ MaxExchanges \in Nat /\ MaxCalls \in Nat
    /\ Scripts \subseteq Seq(Exchange)
    /\ Calls \subseteq [nilContext : BOOLEAN, request : Request]

\* Exchanges are values of the exported constructors, or zero.
NoRequest == [conversation |-> << >>, instructions |-> << >>,
              requiredCapabilities |-> << >>]
ZeroExchange == [expected |-> NoRequest, result |-> ZeroResult,
                 failure |-> {}, outcome |-> "none"]

MutExchangeAnyResult(exchange) ==
    /\ ValidRequest(exchange.expected)
    /\ \/ exchange.outcome = "result" /\ exchange.failure = {}
       \/ /\ exchange.outcome = "failure" /\ exchange.result = ZeroResult
          /\ exchange.failure # {}
          /\ \A failure \in exchange.failure : ValidFailure(failure)

ValidExchange(exchange) ==
    /\ ValidRequest(exchange.expected)
    /\ \/ /\ exchange.outcome = "result" /\ exchange.failure = {}
          /\ ValidResult(exchange.result)
       \/ /\ exchange.outcome = "failure" /\ exchange.result = ZeroResult
          /\ exchange.failure # {}
          /\ \A failure \in exchange.failure : ValidFailure(failure)

\* The exchange built, unless it is invalid.
ExpectResult(expected, result) ==
    {exchange \in {[expected |-> expected, result |-> result,
                    failure |-> {}, outcome |-> "result"]} : ValidExchange(exchange)}

\* `failure' is empty for a nil *Failure.
ExpectFailure(expected, failure) ==
    {exchange \in {[expected |-> expected, result |-> ZeroResult,
                    failure |-> failure, outcome |-> "failure"]} : ValidExchange(exchange)}

VARIABLES built,       \* "no", "refused" once New failed (a nil Provider), or "yes"
          exchanges,   \* the script the double owns
          next,        \* exchanges consumed
          violation,   \* the diagnostic on record, if any
          log          \* history: every call of Invoke and how it ended

vars == <<built, exchanges, next, violation, log>>

-----------------------------------------------------------------------------
(* firstRequestMismatch: the path of the first difference.                   *)

Path(field, index) == [field |-> field, index |-> index]

\* The first index at which two sequences of equal length differ.
FirstDifference(s, t) ==
    {i \in DOMAIN s : s[i] # t[i] /\ \A j \in 1 .. i - 1 : s[j] = t[j]}

\* The mismatch among the items of one list; `first' is compared before `second'.
ListMismatch(list, first, second, s, t) ==
    IF Len(s) # Len(t) THEN {Path(list, 0)}
    ELSE {Path(IF s[i][first] # t[i][first] THEN first ELSE second, i) :
             i \in FirstDifference(s, t)}

MutFirstMismatchNoInstructions(expected, actual) ==
    LET conversation == ListMismatch("conversation", "role", "content",
                            expected.conversation, actual.conversation)
    IN conversation

\* Capabilities have no fields: the index alone tells which one differs.
firstRequestMismatch(expected, actual) ==
    LET conversation == ListMismatch("conversation", "role", "content",
                            expected.conversation, actual.conversation)
        instructions == ListMismatch("instructions", "source", "content",
                            expected.instructions, actual.instructions)
        s == expected.requiredCapabilities
        t == actual.requiredCapabilities
    IN IF conversation # {} THEN conversation
       ELSE IF instructions # {} THEN instructions
       ELSE IF Len(s) # Len(t) THEN {Path("requiredCapabilities", 0)}
       ELSE {Path("requiredCapabilities", i) : i \in FirstDifference(s, t)}

-----------------------------------------------------------------------------
Init ==
    /\ built = "no"
    /\ exchanges = << >>
    /\ next = 0
    /\ violation = {}
    /\ log = << >>

\* New validates every exchange again and owns a copy of the script.
New(script) ==
    /\ built = "no"
    /\ IF Len(script) <= MaxExchanges /\ \A i \in DOMAIN script : ValidExchange(script[i])
       THEN built' = "yes" /\ exchanges' = script
       ELSE built' = "refused" /\ UNCHANGED exchanges
    /\ UNCHANGED <<next, violation, log>>

\* What is wrong with this call, if anything; the number is the exchange's.
Diagnostic(call) ==
    IF call.nilContext THEN {[what |-> "context", number |-> 0, path |-> {}]}
    ELSE IF next >= Len(exchanges)
    THEN {[what |-> "unexpected", number |-> next + 1, path |-> {}]}
    ELSE LET path == firstRequestMismatch(exchanges[next + 1].expected, call.request)
         IN IF path = {} THEN {}
            ELSE {[what |-> "differed", number |-> next + 1, path |-> path]}

Panicked == [panicked |-> TRUE, result |-> ZeroResult, err |-> NoError]

\* What the script says of the next call.
Scripted(exchange) ==
    IF exchange.outcome = "result"
    THEN [panicked |-> FALSE, result |-> exchange.result, err |-> NoError]
    ELSE [panicked |-> FALSE, result |-> ZeroResult,
          err |-> FailureError(CHOOSE f \in exchange.failure : TRUE)]

Record(call, answer) == log' = Append(log, [call |-> call, answer |-> answer])

MutInvokeForgives(call) ==
    /\ built = "yes"
    /\ Len(log) < MaxCalls
    /\ IF violation # {} \/ Diagnostic(call) # {}
       THEN /\ violation' = IF violation = {} /\ ~call.nilContext
                            THEN Diagnostic(call) ELSE violation
            /\ Record(call, Panicked)
            /\ UNCHANGED next
       ELSE /\ next' = next + 1
            /\ Record(call, Scripted(exchanges[next + 1]))
            /\ UNCHANGED violation
    /\ UNCHANGED <<built, exchanges>>

MutInvokeOverwrites(call) ==
    /\ built = "yes"
    /\ Len(log) < MaxCalls
    /\ IF violation # {} \/ Diagnostic(call) # {}
       THEN /\ violation' = IF Diagnostic(call) # {} THEN Diagnostic(call) ELSE violation
            /\ Record(call, Panicked)
            /\ UNCHANGED next
       ELSE /\ next' = next + 1
            /\ Record(call, Scripted(exchanges[next + 1]))
            /\ UNCHANGED violation
    /\ UNCHANGED <<built, exchanges>>

\* A violation on record panics again before anything else is looked at.
Invoke(call) ==
    /\ built = "yes"
    /\ Len(log) < MaxCalls
    /\ IF violation # {} \/ Diagnostic(call) # {}
       THEN /\ violation' = IF violation = {} THEN Diagnostic(call) ELSE violation
            /\ Record(call, Panicked)
            /\ UNCHANGED next
       ELSE /\ next' = next + 1
            /\ Record(call, Scripted(exchanges[next + 1]))
            /\ UNCHANGED violation
    /\ UNCHANGED <<built, exchanges>>

\* On a nil Provider, Invoke panics and leaves no trace.
InvokeNil(call) ==
    /\ built = "refused"
    /\ Len(log) < MaxCalls
    /\ Record(call, Panicked)
    /\ UNCHANGED <<built, exchanges, next, violation>>

Next ==
    \/ \E script \in Scripts : New(script)
    \/ \E call \in Calls : Invoke(call) \/ InvokeNil(call)

Spec == Init /\ [][Next]_vars

\* VerifyComplete, which changes nothing: does it return nil?
VerifyComplete == built = "yes" /\ violation = {} /\ ~(next < Len(exchanges))

-----------------------------------------------------------------------------
\* Types, and the range of the cursor.
TypeOK ==
    /\ built \in {"no", "refused", "yes"}
    /\ \A i \in DOMAIN exchanges : ValidExchange(exchanges[i])
    /\ next \in 0 .. Len(exchanges)
    /\ built # "yes" => exchanges = << >> /\ violation = {}
    /\ \A i \in DOMAIN log : log[i].answer.panicked \in BOOLEAN

(* fake.go:103-124.  The calls that were answered are the first ones, they    *)
(* are those of the script, in its order, and each got the scripted outcome. *)
ScriptFollowed ==
    /\ next <= Len(log)
    /\ \A i \in DOMAIN log : log[i].answer.panicked <=> i > next
    /\ \A i \in 1 .. next :
          /\ log[i].call.request = exchanges[i].expected
          /\ log[i].answer = Scripted(exchanges[i])

\* The call is the one the script has in its place.
Expected(i) ==
    /\ i <= Len(exchanges)
    /\ ~log[i].call.nilContext
    /\ log[i].call.request = exchanges[i].expected

(* fake.go:62-65, 128-144.  VerifyComplete accepts exactly the tests whose   *)
(* calls were the whole script and nothing else, however many panics a test  *)
(* recovered from in between.                                               *)
VerifyExact ==
    VerifyComplete <=>
        /\ built = "yes"
        /\ Len(log) = Len(exchanges)
        /\ \A i \in DOMAIN log : Expected(i)

(* fake.go:171-176.  The diagnostic on record is that of the first call that *)
(* departed from the script, never that of a later one.                      *)
FirstViolationKept ==
    built = "yes" =>
        /\ violation = {} <=> \A i \in DOMAIN log : Expected(i)
        /\ \A v \in violation : \E i \in DOMAIN log :
              /\ ~Expected(i) /\ \A j \in 1 .. i - 1 : Expected(j)
              /\ v.what = "context" <=> log[i].call.nilContext
              /\ v.what # "context" => v.number = i

(* provider.go:317-326.  Every answer of the double keeps the port's         *)
(* contract: the executor never turns a scripted outcome into a failure of   *)
(* its own.                                                                 *)
PortObeyed ==
    \A i \in DOMAIN log : ~log[i].answer.panicked =>
        ValidateInvocation("nil", log[i].answer.result, log[i].answer.err)
=============================================================================
