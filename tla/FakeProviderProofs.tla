------------------------- MODULE FakeProviderProofs -------------------------
(***************************************************************************)
(* The fake follows its script, keeps the first violation and verifies      *)
(* exactly the scripted interaction, for every script and every sequence of *)
(* calls.                                                                   *)
(***************************************************************************)
EXTENDS FakeProvider, WellFoundedInduction, TLAPS

\* Every nonempty set of naturals has a least member: the place in a sequence
\* that a proof looks at first.
LEMMA LeastMember ==
    ASSUME NEW T, T \subseteq Nat, T # {}
    PROVE  \E x \in T : \A y \in T : x <= y
<1> DEFINE Less == OpToRel(<, Nat)
<1>1. IsWellFoundedOn(Less, Nat)
  BY NatLessThanWellFounded, Zenon
<1>2. \A x, y \in Nat : x < y => <<x, y>> \in Less
  BY Zenon DEF OpToRel
<1> HIDE DEF Less
<1>3. PICK x \in T : \A y \in T : ~(<<y, x>> \in Less)
  BY <1>1, WFMin, Zenon
<1>4. ASSUME NEW y \in T PROVE x <= y
  <2>1. ~(y < x)
    BY <1>2, <1>3, Zenon
  <2> QED BY <2>1
<1> QED BY <1>4

\* Equal lengths and no first difference leave no difference at all.
LEMMA NoFirstDifference ==
    ASSUME NEW S, NEW s \in Seq(S), NEW t \in Seq(S), Len(s) = Len(t)
    PROVE  FirstDifference(s, t) = {} <=> s = t
<1> DEFINE D == {i \in DOMAIN s : s[i] # t[i]}
<1>1. DOMAIN s = 1 .. Len(s) /\ DOMAIN t = DOMAIN s
  OBVIOUS
<1>2. ASSUME D # {} PROVE FirstDifference(s, t) # {}
  <2>1. D \subseteq Nat
    BY <1>1
  <2>2. PICK i \in D : \A j \in D : i <= j
    <3> HIDE DEF D
    <3> QED BY <1>2, <2>1, LeastMember
  <2>3. ASSUME NEW j \in 1 .. i - 1 PROVE s[j] = t[j]
    BY <1>1, <2>2
  <2> QED BY <2>2, <2>3 DEF FirstDifference
<1>3. D = {} => s = t
  <2> SUFFICES ASSUME D = {} PROVE s = t
    OBVIOUS
  <2>1. \A i \in 1 .. Len(s) : s[i] = t[i]
    BY <1>1
  <2> QED BY <2>1
<1>4. s = t => FirstDifference(s, t) = {}
  BY DEF FirstDifference
<1> QED BY <1>2, <1>3, <1>4

\* A list has no mismatch exactly when it is the expected one.
LEMMA NoListMismatch ==
    ASSUME NEW S, NEW s \in Seq(S), NEW t \in Seq(S), NEW list, NEW first, NEW second
    PROVE  ListMismatch(list, first, second, s, t) = {} <=> s = t
<1>1. CASE Len(s) # Len(t)
  BY <1>1 DEF ListMismatch
<1>2. CASE Len(s) = Len(t)
  <2> DEFINE path(i) == Path(IF s[i][first] # t[i][first] THEN first ELSE second, i)
  <2>1. ListMismatch(list, first, second, s, t)
        = {path(i) : i \in FirstDifference(s, t)}
    BY <1>2 DEF ListMismatch
  <2>2. ListMismatch(list, first, second, s, t) = {} <=> FirstDifference(s, t) = {}
    <3> HIDE DEF path
    <3> QED BY <2>1
  <2> QED BY <1>2, <2>2, NoFirstDifference
<1> QED BY <1>1, <1>2

\* firstRequestMismatch finds nothing exactly in the expected request.
LEMMA NoRequestMismatch ==
    ASSUME NEW expected \in Request, NEW actual \in Request
    PROVE  firstRequestMismatch(expected, actual) = {} <=> expected = actual
<1> DEFINE s == expected.requiredCapabilities
           t == actual.requiredCapabilities
           capabilities == IF Len(s) # Len(t) THEN {Path("requiredCapabilities", 0)}
                           ELSE {Path("requiredCapabilities", i) : i \in FirstDifference(s, t)}
<1>1. ListMismatch("conversation", "role", "content",
                   expected.conversation, actual.conversation) = {}
      <=> expected.conversation = actual.conversation
  <2>1. expected.conversation \in Seq(Message) /\ actual.conversation \in Seq(Message)
    BY DEF Request
  <2> QED BY <2>1, NoListMismatch
<1>2. ListMismatch("instructions", "source", "content",
                   expected.instructions, actual.instructions) = {}
      <=> expected.instructions = actual.instructions
  <2>1. expected.instructions \in Seq(Instruction) /\ actual.instructions \in Seq(Instruction)
    BY DEF Request
  <2> QED BY <2>1, NoListMismatch
<1>3. capabilities = {} <=> s = t
  <2>1. s \in Seq(STRING) /\ t \in Seq(STRING)
    BY DEF Request
  <2>2. CASE Len(s) = Len(t)
    <3>1. capabilities = {} <=> FirstDifference(s, t) = {}
      BY <2>2
    <3> QED BY <2>1, <2>2, <3>1, NoFirstDifference
  <2> QED BY <2>2
<1>4. expected = actual <=> /\ expected.conversation = actual.conversation
                            /\ expected.instructions = actual.instructions
                            /\ s = t
  BY DEF Request
<1> HIDE DEF s, t
<1> QED BY <1>1, <1>2, <1>3, <1>4 DEF firstRequestMismatch, s, t

-----------------------------------------------------------------------------
\* The records of the history, and the script the fake owns.
Entry == [call : Calls, answer : {Panicked} \union {Scripted(e) : e \in Exchange}]
Histories == log \in Seq(Entry) /\ exchanges \in Seq(Exchange)

\* Until New accepts a script the fake has none; a refused one leaves no trace.
Unbuilt ==
    built # "yes" => exchanges = << >> /\ violation = {} /\ next = 0
                     /\ (built = "no" => log = << >>)

\* The violation on record is that of call next + 1, the first unexpected one.
FirstDeparture ==
    built = "yes" =>
        /\ \A i \in 1 .. next : ~log[i].call.nilContext
        /\ violation = {} => next = Len(log)
        /\ violation # {} =>
              /\ next < Len(log)
              /\ ~Expected(next + 1)
              /\ \A v \in violation :
                    /\ v.what = "context" <=> log[next + 1].call.nilContext
                    /\ v.what # "context" => v.number = next + 1

IInv == TypeOK /\ Histories /\ ScriptFollowed /\ Unbuilt /\ FirstDeparture

LEMMA InitInvariant == Init => IInv
<1> SUFFICES ASSUME Init PROVE IInv
  OBVIOUS
<1>1. TypeOK /\ Histories
  BY DEF Init, TypeOK, Histories
<1>2. ScriptFollowed /\ Unbuilt /\ FirstDeparture
  BY DEF Init, ScriptFollowed, Unbuilt, FirstDeparture
<1> QED BY <1>1, <1>2 DEF IInv

\* Scripted answers never panic.
LEMMA ScriptedAnswers == ASSUME NEW e PROVE Scripted(e).panicked = FALSE
  BY DEF Scripted

\* Whether an answer was a panic is known of every entry of a history.
LEMMA EntriesBoolean ==
    ASSUME NEW h \in Seq(Entry)
    PROVE  \A i \in DOMAIN h : h[i].answer.panicked \in BOOLEAN
<1>1. \A e \in Entry : e.answer.panicked = TRUE \/ e.answer.panicked = FALSE
  BY ScriptedAnswers DEF Entry, Panicked
<1>2. \A e \in Entry : e.answer.panicked \in BOOLEAN
  BY <1>1, Zenon
<1>3. \A i \in DOMAIN h : h[i] \in Entry
  OBVIOUS
<1> QED BY <1>2, <1>3, Zenon

\* A call without a diagnostic is the one the script has next.
LEMMA DiagnosticExact ==
    ASSUME Histories, next \in 0 .. Len(exchanges), NEW call \in Calls
    PROVE  Diagnostic(call) = {} <=>
              /\ next < Len(exchanges) /\ ~call.nilContext
              /\ call.request = exchanges[next + 1].expected
<1>1. call.request \in Request
  BY FakeAssumption
<1>2. ASSUME next < Len(exchanges)
      PROVE  exchanges[next + 1].expected \in Request
  <2>1. exchanges[next + 1] \in Exchange
    BY <1>2 DEF Histories
  <2> QED BY <2>1 DEF Exchange
<1>3. call.nilContext \in BOOLEAN /\ Len(exchanges) \in Nat /\ next \in Nat
  BY FakeAssumption DEF Histories
<1>4. CASE call.nilContext
  <2>1. Diagnostic(call) # {}
    BY <1>4 DEF Diagnostic
  <2> QED BY <1>4, <2>1
<1>5. CASE ~call.nilContext /\ next >= Len(exchanges)
  <2>1. Diagnostic(call) # {}
    BY <1>5 DEF Diagnostic
  <2>2. ~(next < Len(exchanges))
    BY <1>3, <1>5
  <2> QED BY <2>1, <2>2
<1>6. CASE ~call.nilContext /\ next < Len(exchanges)
  <2> DEFINE path == firstRequestMismatch(exchanges[next + 1].expected, call.request)
  <2>1. Diagnostic(call) =
          IF path = {} THEN {}
          ELSE {[what |-> "differed", number |-> next + 1, path |-> path]}
    BY <1>3, <1>6 DEF Diagnostic
  <2>2. path = {} <=> call.request = exchanges[next + 1].expected
    BY <1>1, <1>2, <1>6, NoRequestMismatch
  <2> HIDE DEF path
  <2> QED BY <1>6, <2>1, <2>2
<1>7. next >= Len(exchanges) \/ next < Len(exchanges)
  BY <1>3
<1> QED BY <1>3, <1>4, <1>5, <1>6, <1>7

\* What a diagnostic says.
LEMMA DiagnosticSays ==
    ASSUME NEW call \in Calls, NEW v \in Diagnostic(call)
    PROVE  /\ v.what = "context" <=> call.nilContext
           /\ v.what # "context" => v.number = next + 1
<1>1. call.nilContext \in BOOLEAN
  BY FakeAssumption
<1>2. CASE call.nilContext
  BY <1>2 DEF Diagnostic
<1>3. CASE ~call.nilContext
  <2>1. v.what \in {"unexpected", "differed"} /\ v.number = next + 1
    BY <1>3 DEF Diagnostic
  <2> QED BY <1>3, <2>1
<1> QED BY <1>1, <1>2, <1>3

\* An answered call keeps every part of the invariant.
LEMMA AnsweredKeeps ==
    ASSUME IInv, NEW call \in Calls, Invoke(call), next' = next + 1,
           Record(call, Scripted(exchanges[next + 1])), violation = {},
           Diagnostic(call) = {}, violation' = violation
    PROVE  IInv'
<1>1. built = "yes" /\ UNCHANGED <<built, exchanges>>
  BY DEF Invoke
<1>2. /\ exchanges \in Seq(Exchange) /\ next \in Nat /\ Len(exchanges) \in Nat
      /\ log \in Seq(Entry)
  BY DEF IInv, TypeOK, Histories
<1>3. /\ next < Len(exchanges) /\ ~call.nilContext
      /\ call.request = exchanges[next + 1].expected
  BY DiagnosticExact DEF IInv, TypeOK
<1>4. next = Len(log)
  BY <1>1 DEF IInv, FirstDeparture
<1> DEFINE entry == [call |-> call, answer |-> Scripted(exchanges[next + 1])]
<1>5. log' = Append(log, entry) /\ exchanges[next + 1] \in Exchange
  BY <1>2, <1>3 DEF Record
<1>6. entry \in Entry
  BY <1>5 DEF Entry
<1>7. /\ Len(log') = next + 1 /\ log'[next + 1] = entry
      /\ \A i \in 1 .. next : log'[i] = log[i]
  <2> HIDE DEF entry
  <2> QED BY <1>2, <1>4, <1>5, <1>6
<1>8. entry.answer.panicked = FALSE /\ entry.call = call
      /\ entry.answer = Scripted(exchanges[next + 1])
  BY ScriptedAnswers
<1>9. DOMAIN log' = 1 .. (next + 1) /\ DOMAIN log = 1 .. next
  <2> HIDE DEF entry
  <2> QED BY <1>2, <1>4, <1>5, <1>6
<1> HIDE DEF entry
<1>10. TypeOK'
  <2>1. \A i \in DOMAIN log' : log'[i].answer.panicked \in BOOLEAN
    <3>1. log' \in Seq(Entry)
      BY <1>2, <1>5, <1>6
    <3> QED BY <3>1, EntriesBoolean
  <2>2. \A i \in DOMAIN exchanges' : ValidExchange(exchanges'[i])
    BY <1>1 DEF IInv, TypeOK
  <2>3. next' \in 0 .. Len(exchanges')
    BY <1>1, <1>2, <1>3
  <2> QED BY <1>1, <2>1, <2>2, <2>3 DEF TypeOK
<1>11. Histories'
  BY <1>1, <1>2, <1>5, <1>6 DEF Histories
<1>12. ScriptFollowed'
  BY <1>1, <1>2, <1>3, <1>4, <1>7, <1>8, <1>9 DEF IInv, ScriptFollowed
<1>13. Unbuilt'
  BY <1>1 DEF Unbuilt
<1>14. FirstDeparture'
  BY <1>1, <1>2, <1>3, <1>4, <1>7, <1>8 DEF IInv, FirstDeparture
<1> QED BY <1>10, <1>11, <1>12, <1>13, <1>14 DEF IInv

\* A panic, on an existing fake or on none, only adds to the history.
LEMMA PanicExtends ==
    ASSUME IInv, NEW call \in Calls, Record(call, Panicked)
    PROVE  /\ Len(log') = Len(log) + 1 /\ DOMAIN log' = 1 .. (Len(log) + 1)
           /\ \A i \in 1 .. Len(log) : log'[i] = log[i]
           /\ log'[Len(log) + 1].call = call
           /\ log'[Len(log) + 1].answer.panicked = TRUE
           /\ log' \in Seq(Entry)
           /\ log \in Seq(Entry)
<1> DEFINE entry == [call |-> call, answer |-> Panicked]
<1>1. log \in Seq(Entry)
      /\ entry \in Entry
  BY DEF IInv, Histories, Entry
<1>2. log' = Append(log, entry)
  BY DEF Record
<1>3. entry.call = call /\ entry.answer.panicked = TRUE
  BY DEF Panicked
<1> HIDE DEF entry
<1> QED BY <1>1, <1>2, <1>3

\* A panic keeps the invariant: at the first one the diagnostic is recorded.
LEMMA PanicKeeps ==
    ASSUME IInv, NEW call \in Calls, built = "yes", UNCHANGED <<built, exchanges, next>>,
           violation # {} \/ Diagnostic(call) # {},
           violation' = IF violation = {} THEN Diagnostic(call) ELSE violation,
           Record(call, Panicked)
    PROVE  IInv'
<1>1. /\ exchanges \in Seq(Exchange) /\ next \in 0 .. Len(exchanges) /\ next \in Nat
      /\ Len(log) \in Nat /\ DOMAIN log = 1 .. Len(log) /\ next <= Len(log)
  BY DEF IInv, TypeOK, Histories, ScriptFollowed
<1>2. /\ Len(log') = Len(log) + 1 /\ DOMAIN log' = 1 .. (Len(log) + 1)
      /\ \A i \in 1 .. Len(log) : log'[i] = log[i]
      /\ log'[Len(log) + 1].call = call
      /\ log'[Len(log) + 1].answer.panicked = TRUE
      /\ log' \in Seq(Entry)
  BY PanicExtends
<1>3. TypeOK'
  <2>1. \A i \in DOMAIN log' : log'[i].answer.panicked \in BOOLEAN
    BY <1>2, EntriesBoolean
  <2>2. \A i \in DOMAIN exchanges' : ValidExchange(exchanges'[i])
    BY DEF IInv, TypeOK
  <2> QED BY <1>1, <2>1, <2>2 DEF TypeOK
<1>4. Histories'
  BY <1>1, <1>2 DEF Histories
<1>5. ScriptFollowed'
  BY <1>1, <1>2 DEF IInv, ScriptFollowed
<1>6. Unbuilt'
  BY DEF Unbuilt
<1>7. FirstDeparture'
  <2>1. \A i \in 1 .. next' : ~log'[i].call.nilContext
    <3>1. \A i \in 1 .. next : log'[i] = log[i]
      BY <1>1, <1>2
    <3>2. \A i \in 1 .. next : ~log[i].call.nilContext
      BY DEF IInv, FirstDeparture
    <3>3. next' = next
      OBVIOUS
    <3> QED BY <3>1, <3>2, <3>3
  <2>2. violation' # {} /\ next' < Len(log')
    BY <1>1, <1>2
  <2>3. CASE violation # {}
    <3>1. next < Len(log) /\ log'[next + 1] = log[next + 1]
      <4>1. next < Len(log)
        BY <2>3 DEF IInv, FirstDeparture
      <4> QED BY <1>1, <1>2, <4>1
    <3>2. Expected(next + 1)' <=> Expected(next + 1)
      BY <3>1 DEF Expected
    <3> QED BY <2>1, <2>2, <2>3, <3>1, <3>2 DEF IInv, FirstDeparture
  <2>4. CASE violation = {}
    <3>1. next = Len(log) /\ log'[next + 1].call = call /\ violation' = Diagnostic(call)
      BY <1>2, <2>4 DEF IInv, FirstDeparture
    <3>2. ~Expected(next + 1)'
      <4>1. ~(next < Len(exchanges) /\ ~call.nilContext
              /\ call.request = exchanges[next + 1].expected)
        BY <1>1, <2>4, DiagnosticExact DEF IInv
      <4> QED BY <1>1, <3>1, <4>1 DEF Expected
    <3>3. \A v \in violation' :
            /\ v.what = "context" <=> log'[next + 1].call.nilContext
            /\ v.what # "context" => v.number = next + 1
      BY <3>1, DiagnosticSays
    <3> QED BY <2>1, <2>2, <3>2, <3>3 DEF FirstDeparture
  <2> QED BY <2>3, <2>4
<1> QED BY <1>3, <1>4, <1>5, <1>6, <1>7 DEF IInv

LEMMA StepInvariant == IInv /\ [Next]_vars => IInv'
<1> SUFFICES ASSUME IInv, [Next]_vars PROVE IInv'
  OBVIOUS
<1>1. ASSUME NEW script \in Scripts, New(script) PROVE IInv'
  <2>1. script \in Seq(Exchange) /\ Len(script) \in Nat
    BY FakeAssumption
  <2>2. built = "no" /\ log = << >> /\ exchanges = << >> /\ violation = {} /\ next = 0
        /\ UNCHANGED <<next, violation, log>>
    BY <1>1 DEF New, IInv, Unbuilt
  <2>3. \/ /\ built' = "yes" /\ exchanges' = script
           /\ \A i \in DOMAIN script : ValidExchange(script[i])
        \/ built' = "refused" /\ exchanges' = << >>
    BY <1>1, <2>2 DEF New
  <2>4. exchanges' \in Seq(Exchange) /\ log' = << >> /\ next' = 0
    <3>1. << >> \in Seq(Exchange)
      OBVIOUS
    <3>2. exchanges' \in Seq(Exchange)
      BY <2>1, <2>3, <3>1
    <3>3. log' = << >> /\ next' = 0
      BY <2>2
    <3> QED BY <3>2, <3>3
  <2>5. TypeOK' /\ Histories'
    <3>1. \A i \in DOMAIN exchanges' : ValidExchange(exchanges'[i])
      BY <2>3
    <3>2. next' \in 0 .. Len(exchanges') /\ DOMAIN log' = {}
      BY <2>4
    <3> QED BY <2>2, <2>3, <2>4, <3>1, <3>2 DEF TypeOK, Histories
  <2>6. ScriptFollowed' /\ Unbuilt' /\ FirstDeparture'
    BY <2>1, <2>2, <2>3 DEF ScriptFollowed, Unbuilt, FirstDeparture
  <2> QED BY <2>5, <2>6 DEF IInv
<1>2. ASSUME NEW call \in Calls, Invoke(call) PROVE IInv'
  <2>1. CASE violation # {} \/ Diagnostic(call) # {}
    BY <1>2, <2>1, PanicKeeps DEF Invoke
  <2>2. CASE violation = {} /\ Diagnostic(call) = {}
    BY <1>2, <2>2, AnsweredKeeps DEF Invoke
  <2> QED BY <2>1, <2>2
<1>3. ASSUME NEW call \in Calls, InvokeNil(call) PROVE IInv'
  <2>1. /\ built = "refused" /\ UNCHANGED <<built, exchanges, next, violation>>
        /\ exchanges = << >> /\ violation = {} /\ next = 0
    BY <1>3 DEF InvokeNil, IInv, Unbuilt
  <2>2. /\ Len(log') = Len(log) + 1 /\ DOMAIN log' = 1 .. (Len(log) + 1)
        /\ \A i \in 1 .. Len(log) : log'[i] = log[i]
        /\ log'[Len(log) + 1].answer.panicked = TRUE
        /\ log' \in Seq(Entry) /\ log \in Seq(Entry)
    <3>1. Record(call, Panicked)
      BY <1>3 DEF InvokeNil
    <3> QED BY <3>1, PanicExtends
  <2>3. \A i \in DOMAIN log' : log'[i].answer.panicked = TRUE
    BY <2>1, <2>2 DEF IInv, ScriptFollowed, TypeOK
  <2>4. TypeOK' /\ Histories'
    <3>1. \A i \in DOMAIN log' : log'[i].answer.panicked \in BOOLEAN
      BY <2>2, EntriesBoolean
    <3> QED BY <2>1, <2>2, <3>1 DEF TypeOK, Histories
  <2>5. ScriptFollowed' /\ Unbuilt' /\ FirstDeparture'
    BY <2>1, <2>2, <2>3 DEF ScriptFollowed, Unbuilt, FirstDeparture
  <2> QED BY <2>4, <2>5 DEF IInv
<1>4. CASE UNCHANGED vars
  BY <1>4 DEF IInv, TypeOK, Histories, ScriptFollowed, Unbuilt, FirstDeparture,
              Expected, vars
<1> QED BY <1>1, <1>2, <1>3, <1>4 DEF Next

\* The inductive invariant holds in every reachable state.
THEOREM Invariance == Spec => []IInv
  BY InitInvariant, StepInvariant, PTL DEF Spec

-----------------------------------------------------------------------------
\* The cursor stays within the script the fake accepted, every exchange of
\* which is valid, and a fake that New refused keeps no trace of any call.
THEOREM TypeOKHolds == Spec => []TypeOK
<1>1. IInv => TypeOK
  BY DEF IInv
<1> QED BY <1>1, Invariance, PTL

\* The answered calls are the first ones of the script, in its order, each
\* with its scripted outcome; every later call panicked (fake.go:103-124).
THEOREM ScriptFollowedHolds == Spec => []ScriptFollowed
<1>1. IInv => ScriptFollowed
  BY DEF IInv
<1> QED BY <1>1, Invariance, PTL

\* Until a violation is recorded every call was the expected one.
LEMMA AnsweredExpected ==
    ASSUME IInv, built = "yes", NEW i \in 1 .. next
    PROVE  Expected(i)
<1>1. next \in 0 .. Len(exchanges) /\ Len(exchanges) \in Nat
  BY DEF IInv, TypeOK, Histories
<1>2. ~log[i].call.nilContext
  BY DEF IInv, FirstDeparture
<1>3. log[i].call.request = exchanges[i].expected
  BY DEF IInv, ScriptFollowed
<1> QED BY <1>1, <1>2, <1>3 DEF Expected

\* VerifyComplete returns nil exactly when the calls were the whole script and
\* nothing else, whatever the test recovered from (fake.go:128-144).
THEOREM VerifyExactHolds == Spec => []VerifyExact
<1>1. IInv => VerifyExact
  <2> SUFFICES ASSUME IInv PROVE VerifyExact
    OBVIOUS
  <2>1. /\ next \in 0 .. Len(exchanges) /\ Len(exchanges) \in Nat
        /\ Len(log) \in Nat /\ DOMAIN log = 1 .. Len(log) /\ next <= Len(log)
    BY DEF IInv, TypeOK, Histories, ScriptFollowed
  <2>2. CASE built # "yes"
    BY <2>2 DEF VerifyExact, VerifyComplete
  <2>3. CASE built = "yes" /\ violation = {}
    <3>1. next = Len(log)
      BY <2>3 DEF IInv, FirstDeparture
    <3>2. \A i \in DOMAIN log : Expected(i)
      BY <2>1, <2>3, <3>1, AnsweredExpected
    <3>3. ~(next < Len(exchanges)) <=> Len(log) = Len(exchanges)
      BY <2>1, <3>1
    <3> QED BY <2>3, <3>2, <3>3 DEF VerifyExact, VerifyComplete
  <2>4. CASE built = "yes" /\ violation # {}
    <3>1. next < Len(log) /\ ~Expected(next + 1)
      BY <2>4 DEF IInv, FirstDeparture
    <3>2. next + 1 \in DOMAIN log
      BY <2>1, <3>1
    <3> QED BY <2>4, <3>1, <3>2 DEF VerifyExact, VerifyComplete
  <2> QED BY <2>2, <2>3, <2>4
<1> QED BY <1>1, Invariance, PTL

\* The diagnostic on record is always that of the first call that departed
\* from the script (fake.go:171-176).
THEOREM FirstViolationKeptHolds == Spec => []FirstViolationKept
<1>1. IInv => FirstViolationKept
  <2> SUFFICES ASSUME IInv, built = "yes"
               PROVE  /\ violation = {} <=> \A i \in DOMAIN log : Expected(i)
                      /\ \A v \in violation : \E i \in DOMAIN log :
                            /\ ~Expected(i) /\ \A j \in 1 .. i - 1 : Expected(j)
                            /\ v.what = "context" <=> log[i].call.nilContext
                            /\ v.what # "context" => v.number = i
    BY DEF FirstViolationKept
  <2>1. /\ next \in 0 .. Len(exchanges) /\ next \in Nat
        /\ Len(log) \in Nat /\ DOMAIN log = 1 .. Len(log) /\ next <= Len(log)
    BY DEF IInv, TypeOK, Histories, ScriptFollowed
  <2>2. CASE violation = {}
    <3>1. next = Len(log)
      BY <2>2 DEF IInv, FirstDeparture
    <3>2. \A i \in DOMAIN log : Expected(i)
      BY <2>1, <3>1, AnsweredExpected
    <3> QED BY <2>2, <3>2
  <2>3. CASE violation # {}
    <3>1. next < Len(log) /\ ~Expected(next + 1)
      BY <2>3 DEF IInv, FirstDeparture
    <3>2. next + 1 \in DOMAIN log /\ 1 .. (next + 1) - 1 = 1 .. next
      BY <2>1, <3>1
    <3>3. \A j \in 1 .. (next + 1) - 1 : Expected(j)
      BY <3>2, AnsweredExpected
    <3>4. \A v \in violation :
            /\ v.what = "context" <=> log[next + 1].call.nilContext
            /\ v.what # "context" => v.number = next + 1
      BY <2>3 DEF IInv, FirstDeparture
    <3> QED BY <2>3, <3>1, <3>2, <3>3, <3>4
  <2> QED BY <2>2, <2>3
<1> QED BY <1>1, Invariance, PTL

\* What a valid exchange scripts, a live invocation may return.
LEMMA ScriptedIsValid ==
    ASSUME NEW exchange, ValidExchange(exchange)
    PROVE  ValidateInvocation("nil", Scripted(exchange).result, Scripted(exchange).err)
<1>1. CASE exchange.outcome = "result"
  <2>1. Scripted(exchange).err.kind = "nil" /\ Scripted(exchange).result = exchange.result
    BY <1>1 DEF Scripted, NoError
  <2>2. ValidResult(exchange.result)
    BY <1>1 DEF ValidExchange
  <2> QED BY <2>1, <2>2 DEF ValidateInvocation
<1>2. CASE exchange.outcome # "result"
  <2> DEFINE failure == CHOOSE f \in exchange.failure : TRUE
  <2>1. failure \in exchange.failure /\ \A f \in exchange.failure : ValidFailure(f)
    BY <1>2 DEF ValidExchange
  <2>2. Scripted(exchange).err = FailureError(failure)
        /\ Scripted(exchange).result = ZeroResult
    BY <1>2 DEF Scripted
  <2> HIDE DEF failure
  <2>3. ValidFailure(failure)
    BY <2>1
  <2>4. Scripted(exchange).err.kind = "Failure" /\ Scripted(exchange).err.failure = failure
    BY <2>2 DEF FailureError
  <2> QED BY <2>2, <2>3, <2>4 DEF ValidateInvocation
<1> QED BY <1>1, <1>2

\* No answer of the fake is one that the executor would turn into a failure of
\* its own (provider.go:317-326).
THEOREM PortObeyedHolds == Spec => []PortObeyed
<1>1. IInv => PortObeyed
  <2> SUFFICES ASSUME IInv, NEW i \in DOMAIN log, ~log[i].answer.panicked
               PROVE  ValidateInvocation("nil", log[i].answer.result, log[i].answer.err)
    BY DEF PortObeyed
  <2>1. /\ next \in 0 .. Len(exchanges) /\ exchanges \in Seq(Exchange)
        /\ log \in Seq(Entry) /\ Len(exchanges) \in Nat
    BY DEF IInv, TypeOK, Histories
  <2>2. i \in Nat \ {0} /\ ~(i > next)
    BY <2>1 DEF IInv, ScriptFollowed
  <2>3. i \in 1 .. next /\ i \in DOMAIN exchanges
    BY <2>1, <2>2
  <2>4. log[i].answer = Scripted(exchanges[i])
    BY <2>3 DEF IInv, ScriptFollowed
  <2>5. ValidExchange(exchanges[i])
    BY <2>3 DEF IInv, TypeOK
  <2> QED BY <2>4, <2>5, ScriptedIsValid
<1> QED BY <1>1, Invariance, PTL
=============================================================================
