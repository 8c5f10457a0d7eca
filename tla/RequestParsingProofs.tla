------------------------ MODULE RequestParsingProofs ------------------------
(***************************************************************************)
(* What Execute knows of a body it has parsed, for every limit, buffer,     *)
(* patience and depth and for every set of texts: readRequestBody respects  *)
(* its limits, the surrogate scanner reads what a byte-by-byte reader does, *)
(* and validateStrictDocument accepts exactly the strict documents.         *)
(***************************************************************************)
EXTENDS RequestParsing, WellFoundedInduction, FiniteSetTheorems, SequenceTheorems, TLAPS

(***************************************************************************)
(* readRequestBody.  Its inductive invariant adds to the checked properties *)
(* what holds at the head of the loop: the body read so far is within the   *)
(* limit and the empty reads so far are fewer than the patience.            *)
(***************************************************************************)

\* What the loop knows between two iterations.
LoopHead ==
    result = "none" =>
        /\ length <= MaxRequestBodyBytes
        /\ noReads < maxConsecutiveNoReads
        /\ calls - progressAt = noReads
        /\ calls <= length * maxConsecutiveNoReads + noReads

\* What each way of returning tells about the body.
ReturnFacts ==
    /\ result = "complete" => length <= MaxRequestBodyBytes /\ lastErr = "EOF"
    /\ result = "errRequestBodyTooLarge" => length > MaxRequestBodyBytes

IInv ==
    /\ TypeOK
    /\ RetainedBounded
    /\ length = delivered
    /\ LoopHead
    /\ ReturnFacts
    /\ PatienceExact
    /\ CallsBounded

-----------------------------------------------------------------------------
\* The arithmetic of one more chunk: n bytes pay for the empty reads before it.
LEMMA ChunkPays ==
    ASSUME NEW len \in Nat, NEW n \in Nat, n >= 1,
           NEW K \in Nat, NEW empties \in Nat, empties < K,
           NEW c \in Nat, c <= len * K + empties
    PROVE  c + 1 <= (len + n) * K
<1>1. (len + n) * K = len * K + n * K
  OBVIOUS
<1>2. n * K >= K
  <2>1. n * K = K + (n - 1) * K
    OBVIOUS
  <2>2. (n - 1) * K >= 0
    OBVIOUS
  <2> QED BY <2>1, <2>2
<1>3. len * K \in Nat /\ n * K \in Nat
  OBVIOUS
<1> QED BY <1>1, <1>2, <1>3

\* A product grows with its first factor.
LEMMA ProductMonotone ==
    ASSUME NEW a \in Nat, NEW b \in Nat, a <= b, NEW K \in Nat
    PROVE  a * K <= b * K
<1>1. b * K = a * K + (b - a) * K
  OBVIOUS
<1>2. (b - a) * K >= 0
  OBVIOUS
<1>3. a * K \in Nat /\ (b - a) * K \in Int
  OBVIOUS
<1> QED BY <1>1, <1>2, <1>3

-----------------------------------------------------------------------------
\* The empty slice satisfies the invariant.
LEMMA InitInvariant == Init => IInv
<1> SUFFICES ASSUME Init PROVE IInv
  OBVIOUS
<1>1. maxRetainedBytes * maxConsecutiveNoReads >= 0
  BY BoundsAssumption DEF maxRetainedBytes
<1> QED
  BY <1>1, BoundsAssumption
  DEF Init, IInv, TypeOK, RetainedBounded, LoopHead, ReturnFacts, PatienceExact,
      CallsBounded, maxRetainedBytes, ReadErrors, Results

\* What is offered fits both the buffer and what may still be retained.
LEMMA OfferedFits ==
    ASSUME IInv
    PROVE  /\ offered \in Int
           /\ offered <= maxRetainedBytes - length
           /\ offered <= readBufferBytes
  BY BoundsAssumption
  DEF IInv, TypeOK, offered, remaining, Smaller, maxRetainedBytes

\* Growing makes room for what is needed and stays within the bound.
LEMMA GrownFits ==
    ASSUME IInv, NEW needed \in Nat, needed <= maxRetainedBytes
    PROVE  /\ Grown(needed) \in Nat
           /\ needed <= Grown(needed)
           /\ Grown(needed) <= maxRetainedBytes
  BY BoundsAssumption
  DEF IInv, TypeOK, RetainedBounded, Grown, Smaller, Larger, maxRetainedBytes

\* A call made at the head of the loop stays within the bound on calls.
LEMMA OneMoreCall ==
    ASSUME IInv, result = "none"
    PROVE  calls + 1 <= maxRetainedBytes * maxConsecutiveNoReads
<1>1. calls <= length * maxConsecutiveNoReads + noReads
  BY DEF IInv, LoopHead
<1>2. length \in Nat /\ length <= MaxRequestBodyBytes /\ noReads \in Nat
      /\ noReads < maxConsecutiveNoReads /\ calls \in Nat
  BY DEF IInv, LoopHead, TypeOK
<1>3. calls + 1 <= (length + 1) * maxConsecutiveNoReads
  BY <1>1, <1>2, ChunkPays, BoundsAssumption
<1>4. (length + 1) * maxConsecutiveNoReads <= maxRetainedBytes * maxConsecutiveNoReads
  BY <1>2, ProductMonotone, BoundsAssumption DEF maxRetainedBytes
<1>5. /\ (length + 1) * maxConsecutiveNoReads \in Nat
      /\ maxRetainedBytes * maxConsecutiveNoReads \in Nat
  BY <1>2, BoundsAssumption DEF maxRetainedBytes
<1> QED BY <1>2, <1>3, <1>4, <1>5

\* Every iteration, and the return, preserve the invariant.
LEMMA StepInvariant == IInv /\ [Next \/ Returned]_vars => IInv'
<1> SUFFICES ASSUME IInv, [Next \/ Returned]_vars PROVE IInv'
  OBVIOUS
<1> USE BoundsAssumption
<1>1. CASE Next
  <2>1. PICK n \in ByteCounts, err \in ReadErrors : Iterate(n, err)
    BY <1>1 DEF Next
  <2>2. n \in Int /\ result = "none"
    BY <2>1 DEF ByteCounts, Iterate
  <2>3. remaining # 0
    BY <2>2 DEF IInv, TypeOK, LoopHead, remaining, maxRetainedBytes
  <2>4. calls' = calls + 1 /\ lastErr' = err /\ lastErr' \in ReadErrors
    BY <2>1, <2>3 DEF Iterate
  <2>5. CallsBounded'
    BY <2>2, <2>4, OneMoreCall DEF CallsBounded, maxRetainedBytes
  <2>6. CASE BadCount(n, err)
    BY <2>2, <2>4, <2>5, <2>6
    DEF BadCount, IInv, TypeOK, RetainedBounded, LoopHead, ReturnFacts,
        PatienceExact, Results, maxRetainedBytes
  <2>7. CASE Chunk(n, err)
    <3>1. length + n \in Nat /\ length + n <= maxRetainedBytes
      BY <2>2, <2>7, OfferedFits DEF Chunk, IInv, TypeOK, maxRetainedBytes
    <3>2. RetainedBounded' /\ capacity' \in Nat
      BY <2>7, <3>1, GrownFits DEF Chunk, RetainedBounded, maxRetainedBytes
    <3>3. TypeOK'
      BY <2>2, <2>4, <2>7, <3>1, <3>2
      DEF Chunk, IInv, TypeOK, EndOfIteration, Results, ReadErrors, maxRetainedBytes
    <3>4. length' = delivered'
      BY <2>7 DEF Chunk, IInv
    <3>5. calls' <= length' * maxConsecutiveNoReads + noReads'
      <4>1. calls + 1 <= (length + n) * maxConsecutiveNoReads
        BY <2>2, <2>7, ChunkPays DEF Chunk, IInv, TypeOK, LoopHead
      <4>2. (length + n) * maxConsecutiveNoReads \in Nat
        BY <3>1
      <4> QED BY <2>4, <2>7, <4>1, <4>2 DEF Chunk
    <3>6. LoopHead'
      BY <2>4, <2>7, <3>1, <3>5 DEF Chunk, LoopHead, EndOfIteration, IInv, TypeOK
    <3>7. ReturnFacts' /\ PatienceExact'
      BY <2>4, <2>7, <3>1
      DEF Chunk, ReturnFacts, PatienceExact, EndOfIteration, ReadErrors
    <3> QED BY <2>5, <3>2, <3>3, <3>4, <3>6, <3>7 DEF IInv
  <2>8. CASE EmptyRead(n, err)
    <3>1. TypeOK'
      BY <2>2, <2>4, <2>8
      DEF EmptyRead, IInv, TypeOK, LoopHead, EndOfIteration, Results, ReadErrors,
          maxRetainedBytes
    <3>2. RetainedBounded' /\ length' = delivered'
      BY <2>8 DEF EmptyRead, IInv, RetainedBounded, maxRetainedBytes
    <3>3. LoopHead'
      <4>1. length * maxConsecutiveNoReads \in Int
        BY DEF IInv, TypeOK, maxRetainedBytes
      <4> QED
        BY <2>2, <2>4, <2>8, <4>1
        DEF EmptyRead, IInv, TypeOK, LoopHead, EndOfIteration
    <3>4. ReturnFacts' /\ PatienceExact'
      BY <2>2, <2>4, <2>8
      DEF EmptyRead, IInv, TypeOK, LoopHead, ReturnFacts, PatienceExact,
          EndOfIteration, ReadErrors
    <3> QED BY <2>5, <3>1, <3>2, <3>3, <3>4 DEF IInv
  <2> QED BY <2>1, <2>3, <2>6, <2>7, <2>8 DEF Iterate
<1>2. CASE Returned \/ UNCHANGED vars
  BY <1>2
  DEF Returned, vars, IInv, TypeOK, RetainedBounded, LoopHead, ReturnFacts,
      PatienceExact, CallsBounded
<1> QED BY <1>1, <1>2

\* The inductive invariant holds in every reachable state.
THEOREM Invariance == Spec => []IInv
  BY InitInvariant, StepInvariant, PTL DEF Spec

-----------------------------------------------------------------------------
\* The counters of the loop stay in their ranges.
THEOREM TypeOKHolds == Spec => []TypeOK
<1>1. IInv => TypeOK
  BY DEF IInv
<1> QED BY <1>1, Invariance, PTL

\* The slice is bounded by one byte past the limit, for every limit.
THEOREM RetainedBoundedHolds == Spec => []RetainedBounded
<1>1. IInv => RetainedBounded
  BY DEF IInv
<1> QED BY <1>1, Invariance, PTL

\* Bodies are returned whole, and refused for size only past the exact limit.
THEOREM ExactLimitHolds == Spec => []ExactLimit
<1>1. IInv => ExactLimit
  BY DEF IInv, ExactLimit, ReturnFacts, TypeOK
<1> QED BY <1>1, Invariance, PTL

\* Read is never called with an empty buffer.
THEOREM RoomToReadHolds == Spec => []RoomToRead
<1>1. IInv => RoomToRead
  BY BoundsAssumption
  DEF IInv, TypeOK, LoopHead, RoomToRead, offered, remaining, Smaller, maxRetainedBytes
<1> QED BY <1>1, Invariance, PTL

\* ErrNoProgress means exactly maxConsecutiveNoReads empty calls in a row.
THEOREM PatienceExactHolds == Spec => []PatienceExact
<1>1. IInv => PatienceExact
  BY DEF IInv
<1> QED BY <1>1, Invariance, PTL

\* No reader can make the loop call Read more often than the bound.
THEOREM CallsBoundedHolds == Spec => []CallsBounded
<1>1. IInv => CallsBounded
  BY DEF IInv
<1> QED BY <1>1, Invariance, PTL

-----------------------------------------------------------------------------
(***************************************************************************)
(* The surrogate scanner.  The byte-by-byte reader is a recursive function;  *)
(* that it exists, and follows AfterByte, is shown from the least place      *)
(* where it would not.                                                     *)
(***************************************************************************)

\* A set of natural numbers that has a member has a least one.
LEMMA LeastMember ==
    ASSUME NEW T, T \subseteq Nat, T # {}
    PROVE  \E x \in T : \A y \in T : x <= y
<1> DEFINE Less == OpToRel(<, Nat)
<1>1. IsWellFoundedOn(Less, Nat)
  BY NatLessThanWellFounded, Zenon
<1>2. \A x, y \in Nat : x < y => <<x, y>> \in Less
  BY Zenon DEF OpToRel
<1> HIDE DEF Less
<1>3. PICK x \in T : \A y \in T : ~(<<y, x>> \in Less)
  BY <1>1, WFMin, Zenon
<1>4. ASSUME NEW y \in T PROVE x <= y
  <2>1. ~(y < x)
    BY <1>2, <1>3, Zenon
  <2> QED BY <2>1
<1> QED BY <1>4

-----------------------------------------------------------------------------
\* The run of the byte-by-byte reader exists: it is built one byte at a time.
LEMMA ReadingExists ==
    ASSUME NEW bs, NEW L \in Nat
    PROVE  \E f : f = [n \in 0 .. L |->
                         IF n = 0 THEN Outside ELSE AfterByte(f[n - 1], bs[n])]
<1> DEFINE Step(s, n) == AfterByte(s, bs[n])
           Run(f, m) == f = [n \in 0 .. m |-> IF n = 0 THEN Outside ELSE Step(f[n - 1], n)]
           T == {m \in 0 .. L : ~ \E f : Run(f, m)}
<1> HIDE DEF Step
<1>1. SUFFICES ASSUME T # {} PROVE FALSE
  <2>1. L \in 0 .. L
    OBVIOUS
  <2>2. \E f : Run(f, L)
    BY <1>1, <2>1, Zenon
  <2> QED BY <2>2, Zenon DEF Step
<1>2. PICK m \in T : \A k \in T : m <= k
  <2>1. T \subseteq Nat
    OBVIOUS
  <2> HIDE DEF T
  <2> QED BY <1>1, <2>1, LeastMember
<1>3. CASE m = 0
  <2>1. Run([n \in 0 .. 0 |-> Outside], 0)
    OBVIOUS
  <2> QED BY <1>3, <2>1
<1>4. CASE m # 0
  <2>0. m \in 0 .. L
    BY <1>2
  <2>1. m - 1 \in 0 .. L /\ m - 1 \notin T
    <3> HIDE DEF T
    <3> QED BY <1>2, <1>4, <2>0
  <2>2. PICK f : Run(f, m - 1)
    BY <2>1, Zenon
  <2> DEFINE g == [n \in 0 .. m |-> IF n = m THEN Step(f[m - 1], m) ELSE f[n]]
  <2>3. ASSUME NEW n \in 0 .. m
        PROVE  g[n] = IF n = 0 THEN Outside ELSE Step(g[n - 1], n)
    <3>1. CASE n = m
      BY <1>2, <1>4, <3>1
    <3>2. CASE n # m
      <4>1. n \in 0 .. m - 1
        BY <1>2, <3>2
      <4>2. f[n] = IF n = 0 THEN Outside ELSE Step(f[n - 1], n)
        BY <2>2, <4>1
      <4> QED BY <1>2, <3>2, <4>1, <4>2
    <3> QED BY <3>1, <3>2
  <2>4. g = [n \in 0 .. m |-> g[n]]
    OBVIOUS
  <2>5. Run(g, m)
    <3> HIDE DEF g
    <3> QED BY <2>3, <2>4
  <2> QED BY <2>5
<1> QED BY <1>3, <1>4

\* What it is in at the start, and after one byte more.
LEMMA ReadingSteps ==
    ASSUME NEW bs, Len(bs) \in Nat
    PROVE  /\ Reading(bs)[0] = Outside
           /\ \A n \in 0 .. Len(bs) - 1 :
                Reading(bs)[n + 1] = AfterByte(Reading(bs)[n], bs[n + 1])
<1> DEFINE L == Len(bs)
           R == Reading(bs)
<1>1. R = [n \in 0 .. L |-> IF n = 0 THEN Outside ELSE AfterByte(R[n - 1], bs[n])]
  <2>1. \E f : f = [n \in 0 .. L |->
                      IF n = 0 THEN Outside ELSE AfterByte(f[n - 1], bs[n])]
    BY ReadingExists
  <2> QED BY <2>1, Zenon DEF Reading
<1> HIDE DEF R
<1>2. R[0] = Outside
  BY <1>1
<1>3. ASSUME NEW n \in 0 .. L - 1 PROVE R[n + 1] = AfterByte(R[n], bs[n + 1])
  <2>1. n + 1 \in 0 .. L /\ n + 1 # 0 /\ (n + 1) - 1 = n
    OBVIOUS
  <2> QED BY <1>1, <2>1
<1> QED BY <1>2, <1>3 DEF R

\* Its four states between two bytes, and where it may be at the end.
Accepting == {Outside, Between(FALSE)}

\* The states of the reader that AfterByte tells apart, field by field.
LEMMA ReaderStates ==
    ASSUME NEW p
    PROVE  /\ Outside.at = "text" /\ Broken.at = "broken"
           /\ Between(p).at = "string" /\ Between(p).pending = p
           /\ Escaping(p).at = "escape" /\ Escaping(p).pending = p
  BY DEF Outside, Broken, Between, Escaping

\* A state that the text must not end in.
LEMMA NotAccepting ==
    ASSUME NEW p
    PROVE  /\ Escaping(p) \notin Accepting /\ Between(TRUE) \notin Accepting
           /\ Broken \notin Accepting
           /\ \A s \in Accepting : s.at # "hex"
<1>1. /\ Outside.at = "text" /\ Between(FALSE).at = "string" /\ Escaping(p).at = "escape"
      /\ Between(FALSE).pending = FALSE /\ Between(TRUE).pending = TRUE
      /\ Between(TRUE).at = "string" /\ Broken.at = "broken"
  BY ReaderStates
<1> QED BY <1>1 DEF Accepting

\* Once broken, the reading stays broken.
LEMMA BrokenStays ==
    ASSUME NEW bs, Len(bs) \in Nat,
           NEW m \in 0 .. Len(bs), Reading(bs)[m] = Broken
    PROVE  Reading(bs)[Len(bs)] \notin Accepting
<1> DEFINE R == Reading(bs)
           T == {k \in m .. Len(bs) : R[k] # Broken}
<1>1. T = {}
  <2> SUFFICES ASSUME T # {} PROVE FALSE
    OBVIOUS
  <2>1. PICK k \in T : \A j \in T : k <= j
    <3>1. T \subseteq Nat
      OBVIOUS
    <3> HIDE DEF T
    <3> QED BY <3>1, LeastMember
  <2>2. k \in m .. Len(bs) /\ k # m /\ R[k] # Broken
    BY <2>1
  <2>3. k - 1 \in m .. Len(bs) /\ k - 1 \notin T
    <3> HIDE DEF T
    <3> QED BY <2>1, <2>2
  <2>4. R[k - 1] = Broken
    BY <2>3
  <2>5. R[(k - 1) + 1] = AfterByte(R[k - 1], bs[(k - 1) + 1])
    BY <2>2, ReadingSteps
  <2>6. (k - 1) + 1 = k
    BY <2>2
  <2> QED BY <2>2, <2>4, <2>5, <2>6 DEF AfterByte, Broken
<1>2. R[Len(bs)] = Broken
  <2> HIDE DEF R
  <2> QED BY <1>1
<1>3. Broken \notin Accepting
  BY NotAccepting
<1> QED BY <1>2, <1>3

\* One byte of an escape's digits.
LEMMA DigitStep ==
    ASSUME NEW bs, Len(bs) \in Nat, NEW m \in 0 .. Len(bs) - 1, NEW n, n = m + 1,
           NEW k \in 0 .. 3, NEW half, NEW p,
           Reading(bs)[m] = Digits(k, half, p)
    PROVE  Reading(bs)[n] =
             IF bs[n] \notin HexDigits THEN Broken
             ELSE IF k = 3 THEN AfterEscape(half, p)
             ELSE Digits(k + 1, HalfAfter(k, half, bs[n]), p)
<1> DEFINE s == Digits(k, half, p)
<1>1. Reading(bs)[n] = AfterByte(s, bs[n])
  BY ReadingSteps
<1>2. s.at = "hex" /\ s.digits = k /\ s.half = half /\ s.pending = p
  BY DEF Digits
<1> HIDE DEF s
<1> QED BY <1>1, <1>2 DEF AfterByte

\* What the digits after the first m bytes spell.
HalfAt(bs, m) ==
    IF HighSurrogate(bs, m) THEN "high" ELSE IF LowSurrogate(bs, m) THEN "low" ELSE "none"

\* The four digits of an escape, or what else the text has there.
LEMMA FourDigits ==
    ASSUME NEW bs, Len(bs) \in Nat, NEW m \in 0 .. Len(bs), NEW p,
           Reading(bs)[m] = Digits(0, "none", p)
    PROVE  /\ HexEscape(bs, m) => Reading(bs)[m + 4] = AfterEscape(HalfAt(bs, m), p)
           /\ ~HexEscape(bs, m) => Reading(bs)[Len(bs)] \notin Accepting
<1> DEFINE R == Reading(bs)
           d(k) == bs[m + k]
           h1 == HalfAfter(0, "none", d(1))
           h2 == HalfAfter(1, h1, d(2))
           h3 == HalfAfter(2, h2, d(3))
           Fails == R[Len(bs)] \notin Accepting /\ ~HexEscape(bs, m)
<1>1. ASSUME NEW k \in 0 .. 3, NEW j, j = k + 1, NEW h,
             m + k <= Len(bs), R[m + k] = Digits(k, h, p)
      PROVE  \/ Fails
             \/ /\ m + j <= Len(bs) /\ d(j) \in HexDigits
                /\ R[m + j] = IF k = 3 THEN AfterEscape(h, p)
                                ELSE Digits(j, HalfAfter(k, h, d(j)), p)
  <2>1. CASE m + k = Len(bs)
    <3>1. Digits(k, h, p).at = "hex"
      BY DEF Digits
    <3>2. \A s \in Accepting : s.at # "hex"
      BY NotAccepting
    <3>3. R[Len(bs)] \notin Accepting
      BY <1>1, <2>1, <3>1, <3>2
    <3> QED BY <1>1, <2>1, <3>3 DEF HexEscape
  <2>2. CASE m + k < Len(bs)
    <3>1. R[m + j] = IF d(j) \notin HexDigits THEN Broken
                     ELSE IF k = 3 THEN AfterEscape(h, p)
                     ELSE Digits(k + 1, HalfAfter(k, h, d(j)), p)
      <4>1. m + k \in 0 .. Len(bs) - 1 /\ m + j = (m + k) + 1
        BY <1>1, <2>2
      <4> HIDE DEF R
      <4> QED BY <1>1, <4>1, DigitStep DEF R
    <3>2. m + j \in 0 .. Len(bs) /\ j \in 1 .. 4
      BY <1>1, <2>2
    <3>3. CASE d(j) \notin HexDigits
      BY <3>1, <3>2, <3>3, BrokenStays DEF HexEscape
    <3> QED BY <1>1, <3>1, <3>2, <3>3
  <2> QED BY <1>1, <2>1, <2>2
<1>2. Fails \/ (m + 1 <= Len(bs) /\ d(1) \in HexDigits /\ R[m + 1] = Digits(1, h1, p))
  BY <1>1
<1>3. \/ Fails
      \/ /\ m + 2 <= Len(bs) /\ d(1) \in HexDigits /\ d(2) \in HexDigits
         /\ R[m + 2] = Digits(2, h2, p)
  <2> HIDE DEF h1, R, Fails
  <2> QED BY <1>1, <1>2
<1>4. \/ Fails
      \/ /\ m + 3 <= Len(bs) /\ d(1) \in HexDigits /\ d(2) \in HexDigits
         /\ d(3) \in HexDigits /\ R[m + 3] = Digits(3, h3, p)
  <2> HIDE DEF h2, R, Fails
  <2> QED BY <1>1, <1>3
<1>5. \/ Fails
      \/ /\ HexEscape(bs, m) /\ R[m + 4] = AfterEscape(h3, p)
  <2>1. \/ Fails
        \/ /\ m + 4 <= Len(bs) /\ d(1) \in HexDigits /\ d(2) \in HexDigits
           /\ d(3) \in HexDigits /\ d(4) \in HexDigits /\ R[m + 4] = AfterEscape(h3, p)
    <3> HIDE DEF h3, R, Fails
    <3> QED BY <1>1, <1>4
  <2> HIDE DEF Fails, h3, R
  <2> QED BY <2>1 DEF HexEscape
<1>6. h3 = HalfAt(bs, m)
  BY DEF HalfAfter, HalfAt, HighSurrogate, LowSurrogate
<1> QED
  <2> HIDE DEF h3
  <2> QED BY <1>5, <1>6

-----------------------------------------------------------------------------
\* A byte outside strings.
LEMMA OutsideStep ==
    ASSUME NEW b
    PROVE  AfterByte(Outside, b) = IF b = "quote" THEN Between(FALSE) ELSE Outside
  BY ReaderStates DEF AfterByte

\* A byte of a string, with or without a low surrogate pending.
LEMMA BetweenStep ==
    ASSUME NEW b, NEW p \in BOOLEAN
    PROVE  AfterByte(Between(p), b) =
             IF b = "backslash" THEN Escaping(p)
             ELSE IF p THEN Broken
             ELSE IF b = "quote" THEN Outside ELSE Between(FALSE)
<1> DEFINE s == Between(p)
<1>1. s.at = "string" /\ s.pending = p
  BY ReaderStates
<1> HIDE DEF s
<1>2. AfterByte(s, b) = IF b = "backslash" THEN Escaping(p)
                        ELSE IF p THEN Broken
                        ELSE IF b = "quote" THEN Outside ELSE Between(FALSE)
  BY <1>1 DEF AfterByte
<1> QED BY <1>2 DEF s

\* The byte after a backslash.
LEMMA EscapingStep ==
    ASSUME NEW b, NEW p \in BOOLEAN
    PROVE  AfterByte(Escaping(p), b) =
             IF b = "u" THEN Digits(0, "none", p)
             ELSE IF p THEN Broken ELSE Between(FALSE)
<1> DEFINE s == Escaping(p)
<1>1. s.at = "escape" /\ s.pending = p
  BY ReaderStates
<1> HIDE DEF s
<1>2. AfterByte(s, b) = IF b = "u" THEN Digits(0, "none", p)
                        ELSE IF p THEN Broken ELSE Between(FALSE)
  BY <1>1 DEF AfterByte
<1> QED BY <1>2 DEF s

\* From inside a string, an escape that is not of one character.
LEMMA UnicodeEscapeRead ==
    ASSUME NEW bs, Len(bs) \in Nat, NEW m \in 0 .. Len(bs), NEW p \in BOOLEAN,
           Reading(bs)[m] = Between(p), m + 2 <= Len(bs),
           bs[m + 1] = "backslash", bs[m + 2] = "u"
    PROVE  /\ HexEscape(bs, m + 2) =>
                Reading(bs)[m + 6] = AfterEscape(HalfAt(bs, m + 2), p)
           /\ ~HexEscape(bs, m + 2) => Reading(bs)[Len(bs)] \notin Accepting
<1>1. Reading(bs)[m + 1] = Escaping(p)
  <2>1. m \in 0 .. Len(bs) - 1
    OBVIOUS
  <2>2. Reading(bs)[m + 1] = AfterByte(Between(p), bs[m + 1])
    BY <2>1, ReadingSteps
  <2>3. AfterByte(Between(p), "backslash") = Escaping(p)
    BY BetweenStep, Zenon
  <2> QED BY <2>2, <2>3
<1>2. Reading(bs)[m + 2] = Digits(0, "none", p)
  <2>1. (m + 1) + 1 = m + 2 /\ m + 1 \in 0 .. Len(bs) - 1
    OBVIOUS
  <2>2. Reading(bs)[(m + 1) + 1] = AfterByte(Reading(bs)[m + 1], bs[(m + 1) + 1])
    BY <2>1, ReadingSteps
  <2> QED BY <1>1, <2>1, <2>2, EscapingStep
<1>3. m + 2 \in 0 .. Len(bs) /\ (m + 2) + 4 = m + 6
  OBVIOUS
<1> QED BY <1>2, <1>3, FourDigits

\* A high surrogate's escape, at byte m + 6 the low one pending.
LEMMA PairRead ==
    ASSUME NEW bs, Len(bs) \in Nat, NEW at \in 0 .. Len(bs),
           Reading(bs)[at] = Between(TRUE)
    PROVE  /\ LowFollows(bs, at) => Reading(bs)[at + 6] = Between(FALSE)
           /\ ~LowFollows(bs, at) => Reading(bs)[Len(bs)] \notin Accepting
<1>1. CASE at = Len(bs)
  <2>1. Reading(bs)[Len(bs)] \notin Accepting
    BY <1>1, NotAccepting, Zenon
  <2>2. ~LowFollows(bs, at)
    BY <1>1 DEF LowFollows
  <2> QED BY <2>1, <2>2
<1>0. ASSUME at < Len(bs) PROVE Reading(bs)[at + 1] = AfterByte(Between(TRUE), bs[at + 1])
  <2>1. at \in 0 .. Len(bs) - 1
    BY <1>0
  <2>2. Reading(bs)[at + 1] = AfterByte(Reading(bs)[at], bs[at + 1])
    BY <2>1, ReadingSteps, Zenon
  <2> QED BY <2>2, Zenon
<1>2. CASE at < Len(bs) /\ bs[at + 1] # "backslash"
  <2>1. AfterByte(Between(TRUE), bs[at + 1]) = Broken
    BY <1>2, BetweenStep, Zenon
  <2>2. Reading(bs)[at + 1] = Broken
    BY <1>0, <1>2, <2>1, Zenon
  <2>5. at + 1 \in 0 .. Len(bs)
    BY <1>2
  <2>3. Reading(bs)[Len(bs)] \notin Accepting
    BY <2>2, <2>5, BrokenStays
  <2>4. ~LowFollows(bs, at)
    BY <1>2 DEF LowFollows
  <2> QED BY <2>3, <2>4
<1>3. CASE at < Len(bs) /\ bs[at + 1] = "backslash"
  <2>1. Reading(bs)[at + 1] = Escaping(TRUE)
    <3>1. AfterByte(Between(TRUE), "backslash") = Escaping(TRUE)
      BY BetweenStep, Zenon
    <3> QED BY <1>0, <1>3, <3>1
  <2>2. CASE at + 1 = Len(bs)
    <3>1. Reading(bs)[Len(bs)] \notin Accepting
      BY <2>1, <2>2, NotAccepting
    <3>2. ~LowFollows(bs, at)
      BY <2>2 DEF LowFollows
    <3> QED BY <3>1, <3>2
  <2>3. CASE at + 1 < Len(bs) /\ bs[at + 2] # "u"
    <3>1. (at + 1) + 1 = at + 2 /\ at + 1 \in 0 .. Len(bs) - 1 /\ at + 2 \in 0 .. Len(bs)
      BY <2>3
    <3>2. Reading(bs)[at + 2] = AfterByte(Escaping(TRUE), bs[at + 2])
      BY <2>1, <3>1, ReadingSteps
    <3>3. Reading(bs)[at + 2] = Broken
      BY <2>3, <3>2, EscapingStep
    <3> QED BY <2>3, <3>1, <3>3, BrokenStays DEF LowFollows
  <2>4. CASE at + 1 < Len(bs) /\ bs[at + 2] = "u"
    <3>1. at + 2 <= Len(bs)
      BY <2>4
    <3>2. CASE ~HexEscape(bs, at + 2)
      BY <1>3, <2>4, <3>1, <3>2, UnicodeEscapeRead DEF LowFollows
    <3>3. CASE HexEscape(bs, at + 2)
      <4>1. Reading(bs)[at + 6] = AfterEscape(HalfAt(bs, at + 2), TRUE)
        BY <1>3, <2>4, <3>1, <3>3, UnicodeEscapeRead
      <4>2. at + 6 \in 0 .. Len(bs)
        BY <3>3 DEF HexEscape
      <4>3. CASE LowSurrogate(bs, at + 2)
        <5>1. HalfAt(bs, at + 2) = "low"
          BY <4>3 DEF HalfAt, LowSurrogate, HighSurrogate
        <5> QED BY <1>3, <2>4, <3>3, <4>1, <4>2, <4>3, <5>1 DEF LowFollows, AfterEscape
      <4>4. CASE ~LowSurrogate(bs, at + 2)
        <5>1. HalfAt(bs, at + 2) \in {"high", "none"}
          BY <4>4 DEF HalfAt
        <5>2. Reading(bs)[at + 6] = Broken
          BY <4>1, <5>1 DEF AfterEscape
        <5> QED BY <4>2, <4>4, <5>2, BrokenStays DEF LowFollows
      <4> QED BY <4>3, <4>4
    <3> QED BY <3>2, <3>3
  <2>5. at + 1 = Len(bs) \/ at + 1 < Len(bs)
    BY <1>3
  <2> QED BY <2>2, <2>3, <2>4, <2>5, Zenon
<1>4. at = Len(bs) \/ at < Len(bs)
  OBVIOUS
<1> QED BY <1>1, <1>2, <1>3, <1>4, Zenon

-----------------------------------------------------------------------------
\* What validateStrictDocument does, called once.
StrictStep == StrictNext \/ \E t \in Texts : Begin(t)
StrictBehavior == StrictIdle /\ [][StrictStep]_strictVars

Stages == {"idle", "scan", "value", "more", "trailing", "accepted", "refused"}

ScanType ==
    /\ stage \in Stages
    /\ text \in [bytes : Seq(ByteClasses), tokens : Seq(Tokens)]
    /\ stage # "idle" => text \in Texts
    /\ index \in 0 .. Len(bytes)
    /\ inString \in BOOLEAN
    /\ stage = "idle" => index = 0 /\ ~inString

\* The scanner's position and flag are those of the byte-by-byte reader.
InStep == stage = "scan" =>
    Reading(bytes)[index] = IF inString THEN Between(FALSE) ELSE Outside

ScanInv == ScanType /\ InStep /\ SurrogatesExact

\* A text read to a state that is not accepting is unpaired.
LEMMA Unpaired ==
    ASSUME NEW t \in Texts, Reading(t.bytes)[Len(t.bytes)] \notin Accepting
    PROVE  t \notin PairedTexts
  BY DEF PairedTexts, Paired, Accepting

\* The lookahead of the scanner reads what the byte-by-byte reader does.
LEMMA ScanLockstep ==
    ASSUME ScanInv, Scan
    PROVE  ScanInv'
<1> DEFINE R == Reading(bytes)
<1>0. /\ Len(bytes) \in Nat /\ text \in Texts /\ stage = "scan" /\ text' = text
      /\ bytes' = bytes /\ index \in 0 .. Len(bytes) /\ inString \in BOOLEAN
  <2>1. stage = "scan" /\ text' = text
    BY DEF Scan, ScanByte, ScanEscape, ScanUnicodeEscape, ScanPair, ScanRefused, ScanEnds,
           AtUnicodeEscape, AtEscape, Scanning, ScanTo, Refuse
  <2>2. text.bytes \in Seq(ByteClasses)
    BY DEF ScanInv, ScanType
  <2> QED BY <2>1, <2>2 DEF ScanInv, ScanType, bytes
<1>1. R[index] = IF inString THEN Between(FALSE) ELSE Outside
  BY <1>0 DEF ScanInv, InStep
<1>2. ASSUME ScanTo(index'), index' \in 0 .. Len(bytes), inString' \in BOOLEAN,
             R[index'] = IF inString' THEN Between(FALSE) ELSE Outside
      PROVE  ScanInv'
  <2>1. stage' = "scan" /\ text' = text
    BY <1>0, <1>2 DEF ScanTo
  <2>2. ScanType'
    BY <1>0, <1>2, <2>1 DEF ScanInv, ScanType
  <2>3. InStep'
    BY <1>0, <1>2 DEF InStep
  <2>4. SurrogatesExact'
    BY <2>1 DEF SurrogatesExact
  <2> QED BY <2>2, <2>3, <2>4 DEF ScanInv
<1>3. ASSUME Refuse, index < Len(bytes), R[Len(bytes)] \notin Accepting
      PROVE  ScanInv'
  <2>1. stage' = "refused" /\ UNCHANGED <<text, index, inString>>
    BY <1>3 DEF Refuse, scanVars
  <2>2. text \notin PairedTexts
    BY <1>0, <1>3, Unpaired DEF bytes
  <2>3. ScanType'
    BY <1>0, <2>1 DEF ScanInv, ScanType, Stages, bytes
  <2> QED BY <2>1, <2>2, <2>3 DEF ScanInv, InStep, SurrogatesExact
<1>4. CASE ScanByte
  <2>1. /\ index \in 0 .. Len(bytes) - 1 /\ index' = index + 1 /\ ScanTo(index')
        /\ ~(inString /\ bytes[index + 1] = "backslash")
        /\ inString' = IF bytes[index + 1] = "quote" THEN ~inString ELSE inString
    BY <1>0, <1>4 DEF ScanByte, ScanTo, Scanning, AtEscape
  <2>2. R[index + 1] = AfterByte(R[index], bytes[index + 1])
    BY <1>0, <2>1, ReadingSteps
  <2>3. CASE inString
    <3>1. AfterByte(Between(FALSE), bytes[index + 1])
            = IF bytes[index + 1] = "quote" THEN Outside ELSE Between(FALSE)
      BY <2>1, <2>3, BetweenStep, Zenon
    <3>2. R[index] = Between(FALSE)
      BY <1>1, <2>3, Zenon
    <3>3. R[index + 1] = IF bytes[index + 1] = "quote" THEN Outside ELSE Between(FALSE)
      BY <2>2, <3>1, <3>2, Zenon
    <3>4. /\ R[index + 1] = IF inString' THEN Between(FALSE) ELSE Outside
          /\ inString' \in BOOLEAN
      BY <2>1, <2>3, <3>3, Zenon
    <3>5. index' \in 0 .. Len(bytes)
      BY <1>0, <2>1
    <3> QED BY <1>2, <2>1, <3>4, <3>5
  <2>4. CASE ~inString
    <3>1. AfterByte(Outside, bytes[index + 1])
            = IF bytes[index + 1] = "quote" THEN Between(FALSE) ELSE Outside
      BY OutsideStep, Zenon
    <3>2. R[index] = Outside
      BY <1>1, <2>4, Zenon
    <3>3. R[index + 1] = IF bytes[index + 1] = "quote" THEN Between(FALSE) ELSE Outside
      BY <2>2, <3>1, <3>2, Zenon
    <3>4. /\ R[index + 1] = IF inString' THEN Between(FALSE) ELSE Outside
          /\ inString' \in BOOLEAN
      <4>1. CASE bytes[index + 1] = "quote"
        <5>1. inString' = TRUE
          BY <2>1, <2>4, <4>1
        <5> QED BY <3>3, <4>1, <5>1, Zenon
      <4>2. CASE bytes[index + 1] # "quote"
        <5>1. inString' = FALSE
          BY <2>1, <2>4, <4>2
        <5> QED BY <3>3, <4>2, <5>1, Zenon
      <4> QED BY <4>1, <4>2, Zenon
    <3>5. index' \in 0 .. Len(bytes)
      BY <1>0, <2>1
    <3> QED BY <1>2, <2>1, <3>4, <3>5
  <2> QED BY <2>3, <2>4
<1>5. ASSUME AtEscape
      PROVE  /\ index < Len(bytes) /\ inString /\ R[index + 1] = Escaping(FALSE)
             /\ bytes[index + 1] = "backslash" /\ R[index] = Between(FALSE)
  <2>1. /\ index \in 0 .. Len(bytes) - 1 /\ inString /\ bytes[index + 1] = "backslash"
    BY <1>0, <1>5 DEF AtEscape, Scanning
  <2>2. R[index + 1] = AfterByte(R[index], bytes[index + 1])
    BY <1>0, <2>1, ReadingSteps
  <2>3. AfterByte(Between(FALSE), "backslash") = Escaping(FALSE)
    BY BetweenStep, Zenon
  <2>4. R[index] = Between(FALSE)
    BY <1>1, <2>1, Zenon
  <2>5. R[index + 1] = Escaping(FALSE)
    BY <2>1, <2>2, <2>3, <2>4, Zenon
  <2> QED BY <2>1, <2>4, <2>5
<1>6. CASE ScanEscape
  <2>1. /\ AtEscape /\ index + 2 <= Len(bytes) /\ bytes[index + 2] # "u"
        /\ index' = index + 2 /\ ScanTo(index') /\ inString' = inString
    BY <1>6 DEF ScanEscape, ScanTo
  <2>2. index + 1 \in 0 .. Len(bytes) - 1 /\ (index + 1) + 1 = index + 2
    BY <1>0, <2>1
  <2>3. R[index + 2] = AfterByte(R[index + 1], bytes[index + 2])
    <3>1. R[(index + 1) + 1] = AfterByte(R[index + 1], bytes[(index + 1) + 1])
      BY <1>0, <2>2, ReadingSteps
    <3> QED BY <2>2, <3>1
  <2>4. AfterByte(Escaping(FALSE), bytes[index + 2]) = Between(FALSE)
    BY <2>1, EscapingStep, Zenon
  <2>5. R[index'] = Between(FALSE)
    BY <1>5, <2>1, <2>3, <2>4
  <2>6. inString' /\ index' \in 0 .. Len(bytes)
    BY <1>0, <1>5, <2>1
  <2> QED BY <1>0, <1>2, <2>1, <2>5, <2>6
<1>7. ASSUME AtUnicodeEscape
      PROVE  /\ AtEscape /\ index + 2 <= Len(bytes)
             /\ HexEscape(bytes, index + 2) =>
                  R[index + 6] = AfterEscape(HalfAt(bytes, index + 2), FALSE)
             /\ ~HexEscape(bytes, index + 2) => R[Len(bytes)] \notin Accepting
  <2>1. AtEscape /\ index + 2 <= Len(bytes) /\ bytes[index + 2] = "u"
    BY <1>7 DEF AtUnicodeEscape
  <2> QED BY <1>0, <1>5, <2>1, UnicodeEscapeRead
<1>8. CASE ScanUnicodeEscape
  <2>1. /\ AtUnicodeEscape /\ HexEscape(bytes, index + 2)
        /\ ~HighSurrogate(bytes, index + 2) /\ ~LowSurrogate(bytes, index + 2)
        /\ index' = index + 6 /\ ScanTo(index') /\ inString' = inString
    BY <1>8 DEF ScanUnicodeEscape, ScanTo
  <2>2. AfterEscape(HalfAt(bytes, index + 2), FALSE) = Between(FALSE)
    BY <2>1 DEF HalfAt, AfterEscape
  <2>3. index' \in 0 .. Len(bytes)
    BY <1>0, <2>1 DEF HexEscape
  <2> QED BY <1>0, <1>2, <1>5, <1>7, <2>1, <2>2, <2>3
<1>9. ASSUME AtUnicodeEscape, HexEscape(bytes, index + 2), HighSurrogate(bytes, index + 2)
      PROVE  R[index + 6] = Between(TRUE) /\ index + 6 \in 0 .. Len(bytes)
  <2>1. AfterEscape(HalfAt(bytes, index + 2), FALSE) = Between(TRUE)
    BY <1>9, Zenon DEF HalfAt, AfterEscape
  <2>2. index + 6 \in 0 .. Len(bytes)
    BY <1>0, <1>9 DEF HexEscape
  <2> QED BY <1>7, <1>9, <2>1, <2>2, Zenon
<1>10. CASE ScanPair
  <2>1. /\ AtUnicodeEscape /\ HexEscape(bytes, index + 2)
        /\ HighSurrogate(bytes, index + 2) /\ LowFollows(bytes, index + 6)
        /\ index' = index + 12 /\ ScanTo(index') /\ inString' = inString
    BY <1>10 DEF ScanPair, ScanTo
  <2>2. R[(index + 6) + 6] = Between(FALSE)
    BY <1>0, <1>9, <2>1, PairRead, Zenon
  <2>3. (index + 6) + 6 = index' /\ index' \in 0 .. Len(bytes)
    BY <1>0, <2>1 DEF LowFollows
  <2> QED BY <1>0, <1>2, <1>5, <1>7, <2>1, <2>2, <2>3
<1>11. CASE ScanRefused
  <2>1. AtEscape /\ Refuse
    BY <1>11 DEF ScanRefused
  <2>2. CASE index + 2 > Len(bytes)
    <3>1. index + 1 = Len(bytes)
      BY <1>0, <1>5, <2>1, <2>2
    <3>2. R[Len(bytes)] \notin Accepting
      BY <1>5, <2>1, <3>1, NotAccepting
    <3> QED BY <1>3, <1>5, <2>1, <3>2
  <2>3. CASE AtUnicodeEscape /\ ~HexEscape(bytes, index + 2)
    BY <1>3, <1>5, <1>7, <2>1, <2>3
  <2>4. CASE AtUnicodeEscape /\ HexEscape(bytes, index + 2) /\ LowSurrogate(bytes, index + 2)
    <3>1. AfterEscape(HalfAt(bytes, index + 2), FALSE) = Broken
      BY <2>4 DEF HalfAt, AfterEscape, LowSurrogate, HighSurrogate
    <3>4. R[index + 6] = Broken
      BY <1>7, <2>4, <3>1, Zenon
    <3>2. R[index + 6] = Broken /\ index + 6 \in 0 .. Len(bytes)
      BY <1>0, <2>4, <3>4 DEF HexEscape
    <3>3. R[Len(bytes)] \notin Accepting
      BY <1>0, <3>2, BrokenStays
    <3> QED BY <1>3, <1>5, <2>1, <3>3
  <2>5. CASE /\ AtUnicodeEscape /\ HexEscape(bytes, index + 2)
             /\ HighSurrogate(bytes, index + 2) /\ ~LowFollows(bytes, index + 6)
    <3>1. R[Len(bytes)] \notin Accepting
      BY <1>0, <1>9, <2>5, PairRead, Zenon
    <3> QED BY <1>3, <1>5, <2>1, <3>1
  <2> QED BY <1>11, <2>2, <2>3, <2>4, <2>5 DEF ScanRefused
<1>12. CASE ScanEnds
  <2>1. stage' = "value" /\ UNCHANGED <<text, index, inString>> /\ index = Len(bytes)
    BY <1>12 DEF ScanEnds, scanVars
  <2>2. text \in PairedTexts
    BY <1>0, <1>1, <2>1 DEF PairedTexts, Paired, bytes
  <2>3. ScanType'
    BY <1>0, <2>1 DEF ScanInv, ScanType, Stages, bytes
  <2> QED BY <2>1, <2>2, <2>3, <1>0 DEF ScanInv, InStep, SurrogatesExact
<1> QED BY <1>4, <1>6, <1>8, <1>10, <1>11, <1>12 DEF Scan

-----------------------------------------------------------------------------
(***************************************************************************)
(* The walk.  Its frames are the containers open after the tokens consumed,  *)
(* and the decoder's state says what may follow: together they are a Place.  *)
(* Each lemma Next... leads from one place to the next by one token.        *)
(***************************************************************************)

\* How many of the first n tokens are in S, one token further.
LEMMA CountStep ==
    ASSUME NEW S, NEW n \in Nat
    PROVE  /\ Cardinality(S \cap (1 .. n)) \in Nat
           /\ Cardinality(S \cap (1 .. 0)) = 0
           /\ Cardinality(S \cap (1 .. n + 1)) =
                Cardinality(S \cap (1 .. n)) + (IF n + 1 \in S THEN 1 ELSE 0)
<1> DEFINE C == S \cap (1 .. n)
<1>1. IsFiniteSet(C)
  <2>1. IsFiniteSet(1 .. n)
    BY FS_Interval
  <2> QED BY <2>1, FS_Subset
<1>2. Cardinality(C) \in Nat
  BY <1>1, FS_CardinalityType
<1>3. S \cap (1 .. 0) = {}
  OBVIOUS
<1>4. Cardinality(S \cap (1 .. 0)) = 0
  BY <1>3, FS_EmptySet
<1>5. CASE n + 1 \in S
  <2>1. S \cap (1 .. n + 1) = C \cup {n + 1} /\ n + 1 \notin C
    BY <1>5
  <2>2. Cardinality(C \cup {n + 1}) = Cardinality(C) + 1
    <3> HIDE DEF C
    <3> QED BY <1>1, <2>1, FS_AddElement
  <2> QED BY <1>2, <1>4, <1>5, <2>1, <2>2
<1>6. CASE n + 1 \notin S
  <2>1. S \cap (1 .. n + 1) = C
    BY <1>6
  <2> QED BY <1>2, <1>4, <1>6, <2>1
<1> QED BY <1>5, <1>6

\* The nesting level goes up with an opening bracket and down with a closing one.
LEMMA LevelStep ==
    ASSUME NEW ts, NEW n \in Nat
    PROVE  /\ Level(ts, 0) = 0
           /\ Level(ts, n) \in Int
           /\ Level(ts, n + 1) =
                IF Kind(ts, n + 1) \in Openers THEN Level(ts, n) + 1
                ELSE IF Kind(ts, n + 1) \in Closers THEN Level(ts, n) - 1
                ELSE Level(ts, n)
<1> DEFINE O == {k \in Nat : Kind(ts, k) \in Openers}
           C == {k \in Nat : Kind(ts, k) \in Closers}
<1>1. ASSUME NEW m \in Nat
      PROVE  Level(ts, m) = Cardinality(O \cap (1 .. m)) - Cardinality(C \cap (1 .. m))
  <2>1. {k \in 1 .. m : Kind(ts, k) \in Openers} = O \cap (1 .. m)
    OBVIOUS
  <2>2. {k \in 1 .. m : Kind(ts, k) \in Closers} = C \cap (1 .. m)
    OBVIOUS
  <2> QED BY <2>1, <2>2 DEF Level
<1>2. ~(n + 1 \in O /\ n + 1 \in C)
  BY DEF Openers, Closers
<1>3. /\ n + 1 \in O <=> Kind(ts, n + 1) \in Openers
      /\ n + 1 \in C <=> Kind(ts, n + 1) \in Closers
  OBVIOUS
<1> HIDE DEF O, C
<1>4. Level(ts, n + 1) = Cardinality(O \cap (1 .. n + 1)) - Cardinality(C \cap (1 .. n + 1))
  BY <1>1
<1>5. Level(ts, 0) = Cardinality(O \cap (1 .. 0)) - Cardinality(C \cap (1 .. 0))
  BY <1>1
<1>6. Level(ts, n) = Cardinality(O \cap (1 .. n)) - Cardinality(C \cap (1 .. n))
  BY <1>1
<1>7. /\ Cardinality(O \cap (1 .. n)) \in Nat /\ Cardinality(C \cap (1 .. n)) \in Nat
      /\ Cardinality(O \cap (1 .. 0)) = 0 /\ Cardinality(C \cap (1 .. 0)) = 0
      /\ Cardinality(O \cap (1 .. n + 1)) =
           Cardinality(O \cap (1 .. n)) + (IF n + 1 \in O THEN 1 ELSE 0)
      /\ Cardinality(C \cap (1 .. n + 1)) =
           Cardinality(C \cap (1 .. n)) + (IF n + 1 \in C THEN 1 ELSE 0)
  BY CountStep
<1> QED BY <1>2, <1>3, <1>4, <1>5, <1>6, <1>7

-----------------------------------------------------------------------------
\* A stack without its top.
LEMMA AllButLast ==
    ASSUME NEW S, NEW s \in Seq(S), s # <<>>
    PROVE  /\ SubSeq(s, 1, Len(s) - 1) \in Seq(S)
           /\ Len(SubSeq(s, 1, Len(s) - 1)) = Len(s) - 1
           /\ \A k \in 1 .. Len(s) - 1 : SubSeq(s, 1, Len(s) - 1)[k] = s[k]
<1> DEFINE n == Len(s) - 1
           f == SubSeq(s, 1, n)
<1>1. n \in Nat /\ \A i \in 1 .. n : s[i] \in S
  OBVIOUS
<1>2. /\ f \in Seq(S)
      /\ Len(f) = IF 1 <= n THEN n - 1 + 1 ELSE 0
      /\ \A i \in 1 .. n - 1 + 1 : f[i] = s[1 + i - 1]
  <2> HIDE DEF n
  <2> QED BY <1>1, SubSeqProperties
<1>3. n - 1 + 1 = n /\ \A i \in 1 .. n : 1 + i - 1 = i
  BY <1>1
<1> HIDE DEF f
<1>4. Len(f) = n
  <2> HIDE DEF n
  <2> QED BY <1>1, <1>2
<1>5. \A k \in 1 .. n : f[k] = s[k]
  BY <1>2, <1>3
<1> QED BY <1>2, <1>4, <1>5 DEF f

Frames == [delimiter : Openers, names : SUBSET STRING, opened : Nat]

\* The frames are the containers open after n tokens, outermost first.
Nesting(ts, fs, n) ==
    /\ Len(fs) = Level(ts, n)
    /\ \A m \in 0 .. n : Level(ts, m) >= 0
    /\ \A k \in 1 .. Len(fs) :
         /\ fs[k].opened \in 1 .. n
         /\ Kind(ts, fs[k].opened) = fs[k].delimiter
         /\ Level(ts, fs[k].opened) = k
         /\ \A m \in fs[k].opened .. n : Level(ts, m) >= k

\* The innermost frame is the innermost open container, and there is no other.
LEMMA InnermostFrame ==
    ASSUME NEW ts, NEW fs \in Seq(Frames), NEW n \in Nat, Nesting(ts, fs, n), NEW i
    PROVE  Inside(ts, i, n) <=> fs # <<>> /\ i = fs[Len(fs)].opened
<1> DEFINE d == Len(fs)
           o == fs[d].opened
<1>0. d \in Nat /\ (fs # <<>> <=> d >= 1)
  OBVIOUS
<1>1. ASSUME fs # <<>> PROVE Inside(ts, o, n)
  <2>1. d \in 1 .. Len(fs)
    BY <1>0, <1>1
  <2>2. fs[d] \in Frames
    BY <2>1
  <2> QED BY <2>1, <2>2 DEF Nesting, Inside, Frames
<1>2. ASSUME Inside(ts, i, n) PROVE fs # <<>> /\ i = o
  <2>1. /\ i \in 1 .. n /\ i - 1 \in 0 .. n /\ i - 1 \in Nat /\ (i - 1) + 1 = i
        /\ Kind(ts, i) \in Openers /\ Level(ts, i) = d
        /\ \A k \in i .. n : Level(ts, k) >= d
    BY <1>2 DEF Inside, Nesting
  <2>2. Level(ts, i - 1) = d - 1
    <3>1. /\ Level(ts, i - 1) \in Int
          /\ Level(ts, (i - 1) + 1) = Level(ts, i - 1) + 1
      BY <2>1, LevelStep
    <3>2. Level(ts, i) = Level(ts, i - 1) + 1
      BY <2>1, <3>1
    <3> QED BY <1>0, <2>1, <3>1, <3>2
  <2>3. d >= 1 /\ fs # <<>>
    BY <1>0, <2>1, <2>2 DEF Nesting
  <2>4. /\ o \in 1 .. n /\ o - 1 \in Nat /\ (o - 1) + 1 = o
        /\ Kind(ts, o) \in Openers /\ Level(ts, o) = d
        /\ \A k \in o .. n : Level(ts, k) >= d
    <3>1. d \in 1 .. Len(fs)
      BY <1>0, <2>3
    <3>2. fs[d] \in Frames
      BY <3>1
    <3> QED BY <3>1, <3>2 DEF Nesting, Frames
  <2>5. Level(ts, o - 1) = d - 1
    <3> HIDE DEF o
    <3>1. /\ Level(ts, o - 1) \in Int
          /\ Level(ts, (o - 1) + 1) = Level(ts, o - 1) + 1
      BY <2>4, LevelStep
    <3>2. Level(ts, o) = Level(ts, o - 1) + 1
      BY <2>4, <3>1
    <3> QED BY <1>0, <2>4, <3>1, <3>2
  <2>6. CASE i < o
    <3>1. o - 1 \in i .. n
      BY <2>1, <2>4, <2>6
    <3> QED BY <1>0, <2>1, <2>5, <3>1
  <2>7. CASE o < i
    <3>1. i - 1 \in o .. n
      BY <2>1, <2>4, <2>7
    <3> QED BY <1>0, <2>2, <2>4, <3>1
  <2> QED BY <2>1, <2>3, <2>4, <2>6, <2>7
<1> QED BY <1>1, <1>2

\* A token that is no bracket changes no container.
LEMMA NestingPlain ==
    ASSUME NEW ts, NEW fs \in Seq(Frames), NEW n \in Nat, Nesting(ts, fs, n),
           Kind(ts, n + 1) \notin Openers \cup Closers
    PROVE  Nesting(ts, fs, n + 1)
<1>1. Level(ts, n + 1) = Level(ts, n)
  BY LevelStep
<1>2. \A k \in 1 .. Len(fs) : k <= Len(fs) /\ fs[k].opened \in 1 .. n
  BY DEF Nesting
<1> QED BY <1>1, <1>2 DEF Nesting

\* An opening bracket opens one container more.
LEMMA NestingOpen ==
    ASSUME NEW ts, NEW fs \in Seq(Frames), NEW n \in Nat, Nesting(ts, fs, n),
           Kind(ts, n + 1) \in Openers,
           NEW f \in Frames, f.delimiter = Kind(ts, n + 1), f.opened = n + 1
    PROVE  Nesting(ts, Append(fs, f), n + 1)
<1> DEFINE gs == Append(fs, f)
<1>1. Level(ts, n + 1) = Level(ts, n) + 1 /\ Level(ts, n) \in Int
  BY LevelStep
<1>2. /\ Len(gs) = Len(fs) + 1 /\ gs[Len(fs) + 1] = f
      /\ \A k \in 1 .. Len(fs) : gs[k] = fs[k]
  OBVIOUS
<1> HIDE DEF gs
<1>3. ASSUME NEW k \in 1 .. Len(fs)
      PROVE  /\ gs[k].opened \in 1 .. n + 1
             /\ Kind(ts, gs[k].opened) = gs[k].delimiter
             /\ Level(ts, gs[k].opened) = k
             /\ \A m \in gs[k].opened .. n + 1 : Level(ts, m) >= k
  <2>1. gs[k] = fs[k] /\ k <= Level(ts, n)
    BY <1>2 DEF Nesting
  <2> QED BY <1>1, <2>1 DEF Nesting
<1>4. \A m \in 0 .. n + 1 : Level(ts, m) >= 0
  BY <1>1 DEF Nesting
<1>5. Len(gs) = Level(ts, n + 1)
  BY <1>1, <1>2 DEF Nesting
<1>6. /\ f.opened \in 1 .. n + 1 /\ Kind(ts, f.opened) = f.delimiter
      /\ Level(ts, f.opened) = Len(fs) + 1
      /\ \A m \in f.opened .. n + 1 : Level(ts, m) >= Len(fs) + 1
  BY <1>1 DEF Nesting
<1>7. \A k \in 1 .. Len(gs) : k \in 1 .. Len(fs) \/ k = Len(fs) + 1
  BY <1>2
<1> QED BY <1>2, <1>3, <1>4, <1>5, <1>6, <1>7 DEF Nesting, gs

\* A closing bracket closes the innermost one.
LEMMA NestingClose ==
    ASSUME NEW ts, NEW fs \in Seq(Frames), NEW n \in Nat, Nesting(ts, fs, n),
           Kind(ts, n + 1) \in Closers, fs # <<>>
    PROVE  Nesting(ts, SubSeq(fs, 1, Len(fs) - 1), n + 1)
<1> DEFINE gs == SubSeq(fs, 1, Len(fs) - 1)
<1>0. Len(fs) \in Nat /\ Len(fs) >= 1
  OBVIOUS
<1>1. Level(ts, n + 1) = Level(ts, n) - 1 /\ Level(ts, n) \in Int
  BY LevelStep DEF Openers, Closers
<1>2. Len(gs) = Len(fs) - 1 /\ \A k \in 1 .. Len(fs) - 1 : gs[k] = fs[k]
  BY AllButLast
<1> HIDE DEF gs
<1>3. ASSUME NEW k \in 1 .. Len(gs)
      PROVE  /\ gs[k].opened \in 1 .. n + 1
             /\ Kind(ts, gs[k].opened) = gs[k].delimiter
             /\ Level(ts, gs[k].opened) = k
             /\ \A m \in gs[k].opened .. n + 1 : Level(ts, m) >= k
  <2>1. gs[k] = fs[k] /\ k <= Level(ts, n) - 1 /\ k \in 1 .. Len(fs)
    BY <1>0, <1>2 DEF Nesting
  <2> QED BY <1>1, <2>1 DEF Nesting
<1>4. \A m \in 0 .. n + 1 : Level(ts, m) >= 0
  BY <1>0, <1>1 DEF Nesting
<1>5. Len(gs) = Level(ts, n + 1)
  BY <1>1, <1>2 DEF Nesting
<1> QED BY <1>3, <1>4, <1>5 DEF Nesting, gs

-----------------------------------------------------------------------------
\* The first n tokens are those of a strict document so far.
PrefixFits(ts, n) ==
    \A m \in 1 .. n : Fits(ts, m) /\ Level(ts, m) <= maxJSONContainerDepth

PrefixNames(ts, n) ==
    \A i, l, m \in 1 .. n :
        l < m /\ NameIn(ts, i, l) /\ NameIn(ts, i, m) => ts[l].word # ts[m].word

\* A frame holds the names its container has had.
NamesKept(ts, fs, n) ==
    \A k \in 1 .. Len(fs) : \A w \in STRING :
        w \in fs[k].names <=>
            \E m \in 1 .. n : NameIn(ts, fs[k].opened, m) /\ ts[m].word = w

\* The decoder's expectation after n tokens, in the container opened by token o.
Expects(ts, o, n, state) ==
    \/ state = "arrayStart" /\ Kind(ts, o) = "[" /\ n = o
    \/ state = "arrayValue" /\ Kind(ts, o) = "[" /\ n # o /\ Kind(ts, n) = ","
    \/ state = "arrayComma" /\ Kind(ts, o) = "[" /\ n # o /\ Kind(ts, n) # ","
    \/ state = "objectStart" /\ Kind(ts, o) = "{" /\ n = o
    \/ state = "objectKey" /\ Kind(ts, o) = "{" /\ n # o /\ Kind(ts, n) = ","
    \/ state = "objectColon" /\ Kind(ts, o) = "{" /\ n # o /\ NameIn(ts, o, n)
    \/ state = "objectValue" /\ Kind(ts, o) = "{" /\ n # o /\ Kind(ts, n) = ":"
    \/ state = "objectComma" /\ Kind(ts, o) = "{" /\ n # o
       /\ Kind(ts, n) \notin {",", ":"} /\ ~NameIn(ts, o, n)

\* What it accepts then, and what it expects after the value.
Accepts(state) ==
    IF state = "arrayStart" THEN ValueStarts \cup {"]"}
    ELSE IF state \in {"arrayValue", "objectValue", "topValue"} THEN ValueStarts
    ELSE IF state = "arrayComma" THEN {",", "]"}
    ELSE IF state = "objectStart" THEN {"string", "}"}
    ELSE IF state = "objectKey" THEN {"string"}
    ELSE IF state = "objectColon" THEN {":"}
    ELSE {",", "}"}

ValueStates == {"topValue", "arrayStart", "arrayValue", "objectValue"}

\* Where the decoder and the walk are after n tokens.
Place(ts, fs, n, state) ==
    /\ Nesting(ts, fs, n)
    /\ NamesKept(ts, fs, n)
    /\ PrefixFits(ts, n)
    /\ PrefixNames(ts, n)
    /\ fs = <<>> => state = "topValue"
    /\ fs # <<>> => Expects(ts, fs[Len(fs)].opened, n, state)

\* The state of the decoder is what may follow.
LEMMA AcceptsFollows ==
    ASSUME NEW ts, NEW o, NEW n, NEW state, Expects(ts, o, n, state)
    PROVE  Follows(ts, o, n) = Accepts(state)
<1>1. NameIn(ts, o, n) => Kind(ts, n) = "string"
  BY DEF NameIn
<1> QED BY <1>1 DEF Expects, Follows, Accepts

\* At a place, a token fits exactly when the decoder accepts it.
LEMMA FitsHere ==
    ASSUME NEW ts, NEW fs \in Seq(Frames), NEW n \in Nat, NEW state,
           Place(ts, fs, n, state)
    PROVE  /\ fs # <<>> => (Fits(ts, n + 1) <=> Kind(ts, n + 1) \in Accepts(state))
           /\ fs = <<>> => (Fits(ts, n + 1) <=> n = 0 /\ Kind(ts, n + 1) \in ValueStarts)
<1>1. \A i : Inside(ts, i, n) <=> fs # <<>> /\ i = fs[Len(fs)].opened
  BY InnermostFrame DEF Place
<1>2. (n + 1) - 1 = n
  OBVIOUS
<1>3. Fits(ts, n + 1) <=>
        \/ n = 0 /\ Kind(ts, n + 1) \in ValueStarts
        \/ \E i \in 1 .. n : Inside(ts, i, n) /\ Kind(ts, n + 1) \in Follows(ts, i, n)
  BY <1>2 DEF Fits
<1>4. CASE fs = <<>>
  BY <1>1, <1>3, <1>4
<1>5. CASE fs # <<>>
  <2>1. fs[Len(fs)].opened \in 1 .. n
    BY <1>5 DEF Place, Nesting
  <2>2. Follows(ts, fs[Len(fs)].opened, n) = Accepts(state)
    BY <1>5, AcceptsFollows DEF Place
  <2> QED BY <1>1, <1>3, <1>5, <2>1, <2>2
<1> QED BY <1>4, <1>5

\* Which token is a name there.
LEMMA NameHere ==
    ASSUME NEW ts, NEW fs \in Seq(Frames), NEW n \in Nat, NEW state,
           Place(ts, fs, n, state), NEW i
    PROVE  NameIn(ts, i, n + 1) <=>
             /\ fs # <<>> /\ i = fs[Len(fs)].opened
             /\ Kind(ts, n + 1) = "string" /\ state \in {"objectStart", "objectKey"}
<1>1. Inside(ts, i, n) <=> fs # <<>> /\ i = fs[Len(fs)].opened
  BY InnermostFrame DEF Place
<1>2. (n + 1) - 1 = n
  OBVIOUS
<1>3. NameIn(ts, i, n + 1) <=>
        /\ Kind(ts, n + 1) = "string" /\ Kind(ts, i) = "{" /\ Inside(ts, i, n)
        /\ i = n \/ Kind(ts, n) = ","
  BY <1>2 DEF NameIn
<1>4. CASE fs # <<>> /\ i = fs[Len(fs)].opened
  <2>1. Expects(ts, i, n, state)
    BY <1>4 DEF Place
  <2>2. NameIn(ts, i, n) => Kind(ts, n) = "string"
    BY DEF NameIn
  <2>3. (Kind(ts, i) = "{" /\ (i = n \/ Kind(ts, n) = ",")) <=>
          state \in {"objectStart", "objectKey"}
    BY <2>1, <2>2 DEF Expects
  <2> QED BY <1>1, <1>3, <1>4, <2>3
<1> QED BY <1>1, <1>3, <1>4

\* A name comes after the brace of its object.
LEMMA NameAfter ==
    ASSUME NEW ts, NEW i, NEW m, NameIn(ts, i, m)
    PROVE  i \in 1 .. m - 1 /\ Kind(ts, m) = "string"
  BY DEF NameIn, Inside

\* One fitting token more, not a name.
LEMMA PrefixGrows ==
    ASSUME NEW ts, NEW n \in Nat, PrefixFits(ts, n), PrefixNames(ts, n),
           Fits(ts, n + 1), Level(ts, n + 1) <= maxJSONContainerDepth,
           Kind(ts, n + 1) # "string" \/ \A i : ~NameIn(ts, i, n + 1)
    PROVE  PrefixFits(ts, n + 1) /\ PrefixNames(ts, n + 1)
<1>1. \A m \in 1 .. n + 1 : m \in 1 .. n \/ m = n + 1
  OBVIOUS
<1>2. PrefixFits(ts, n + 1)
  BY <1>1 DEF PrefixFits
<1>3. \A i : ~NameIn(ts, i, n + 1)
  BY NameAfter
<1>4. ASSUME NEW i \in 1 .. n + 1, NEW l \in 1 .. n + 1, NEW m \in 1 .. n + 1, l < m,
             NameIn(ts, i, l), NameIn(ts, i, m)
      PROVE  ts[l].word # ts[m].word
  <2>1. i \in 1 .. l - 1 /\ m # n + 1
    BY <1>3, <1>4, NameAfter
  <2>2. i \in 1 .. n /\ l \in 1 .. n /\ m \in 1 .. n
    BY <1>4, <2>1
  <2> QED BY <1>4, <2>2 DEF PrefixNames
<1>5. PrefixNames(ts, n + 1)
  BY <1>4 DEF PrefixNames
<1> QED BY <1>2, <1>5

\* The names kept stay those of the containers when no name comes.
LEMMA NamesStay ==
    ASSUME NEW ts, NEW fs, NEW n \in Nat, NamesKept(ts, fs, n),
           Kind(ts, n + 1) # "string" \/ \A i : ~NameIn(ts, i, n + 1)
    PROVE  NamesKept(ts, fs, n + 1)
<1>1. \A i : ~NameIn(ts, i, n + 1)
  BY NameAfter
<1>2. \A m \in 1 .. n + 1 : m \in 1 .. n \/ m = n + 1
  OBVIOUS
<1>3. \A m \in 1 .. n : m \in 1 .. n + 1
  OBVIOUS
<1>4. ASSUME NEW o, NEW w
      PROVE  (\E m \in 1 .. n + 1 : NameIn(ts, o, m) /\ ts[m].word = w) <=>
             (\E m \in 1 .. n : NameIn(ts, o, m) /\ ts[m].word = w)
  BY <1>1, <1>2, <1>3, Zenon
<1>5. ASSUME NEW k \in 1 .. Len(fs), NEW w \in STRING
      PROVE  w \in fs[k].names <=>
               \E m \in 1 .. n + 1 : NameIn(ts, fs[k].opened, m) /\ ts[m].word = w
  <2>1. w \in fs[k].names <=>
          \E m \in 1 .. n : NameIn(ts, fs[k].opened, m) /\ ts[m].word = w
    BY Zenon DEF NamesKept
  <2> QED BY <1>4, <2>1, Zenon
<1> QED BY <1>5, Zenon DEF NamesKept

\* The level reached is within the bound at every place.
LEMMA LevelBounded ==
    ASSUME NEW ts, NEW fs, NEW n \in Nat, NEW state, Place(ts, fs, n, state)
    PROVE  Level(ts, n) <= maxJSONContainerDepth
<1>1. CASE n = 0
  BY <1>1, LevelStep, DepthAssumption
<1>2. CASE n # 0
  <2>1. n \in 1 .. n
    BY <1>2
  <2> QED BY <2>1 DEF Place, PrefixFits
<1> QED BY <1>1, <1>2

\* A fitting token that is no bracket and no name.
LEMMA NextPlain ==
    ASSUME NEW ts, NEW fs \in Seq(Frames), NEW n \in Nat, NEW state,
           Place(ts, fs, n, state), Fits(ts, n + 1),
           Kind(ts, n + 1) \notin Openers \cup Closers,
           Kind(ts, n + 1) # "string" \/ \A i : ~NameIn(ts, i, n + 1)
    PROVE  /\ Nesting(ts, fs, n + 1) /\ NamesKept(ts, fs, n + 1)
           /\ PrefixFits(ts, n + 1) /\ PrefixNames(ts, n + 1)
<1>1. Nesting(ts, fs, n + 1)
  BY NestingPlain DEF Place
<1>2. Level(ts, n + 1) = Level(ts, n)
  BY LevelStep
<1>3. Level(ts, n + 1) <= maxJSONContainerDepth
  BY <1>2, LevelBounded
<1>4. PrefixFits(ts, n + 1) /\ PrefixNames(ts, n + 1)
  BY <1>3, PrefixGrows DEF Place
<1>5. NamesKept(ts, fs, n + 1)
  BY NamesStay DEF Place
<1> QED BY <1>1, <1>4, <1>5

\* A separator that the decoder expects.
Skips(kind, state) ==
    \/ kind = "," /\ state \in {"arrayComma", "objectComma"}
    \/ kind = ":" /\ state = "objectColon"

Skipped(state) ==
    IF state = "arrayComma" THEN "arrayValue"
    ELSE IF state = "objectComma" THEN "objectKey" ELSE "objectValue"

\* Past a separator that was expected.
LEMMA NextSeparator ==
    ASSUME NEW ts, NEW fs \in Seq(Frames), NEW n \in Nat, NEW state,
           Place(ts, fs, n, state), Skips(Kind(ts, n + 1), state)
    PROVE  Place(ts, fs, n + 1, Skipped(state))
<1>1. fs # <<>>
  BY DEF Place, Skips
<1>2. Fits(ts, n + 1)
  BY <1>1, FitsHere DEF Skips, Accepts
<1>3. Kind(ts, n + 1) \notin Openers \cup Closers /\ Kind(ts, n + 1) # "string"
  BY DEF Skips, Openers, Closers
<1> DEFINE o == fs[Len(fs)].opened
<1>4. o \in 1 .. n
  BY <1>1 DEF Place, Nesting
<1>5. Expects(ts, o, n, state)
  BY <1>1 DEF Place
<1>6. Expects(ts, o, n + 1, Skipped(state))
  <2> HIDE DEF o
  <2>1. n + 1 # o
    BY <1>4
  <2> QED BY <1>5, <2>1 DEF Expects, Skips, Skipped
<1>7. /\ Nesting(ts, fs, n + 1) /\ NamesKept(ts, fs, n + 1)
      /\ PrefixFits(ts, n + 1) /\ PrefixNames(ts, n + 1)
  BY <1>2, <1>3, NextPlain
<1> QED BY <1>1, <1>6, <1>7 DEF Place

\* A scalar where a value is allowed.
LEMMA NextScalar ==
    ASSUME NEW ts, NEW fs \in Seq(Frames), NEW n \in Nat, NEW state,
           Place(ts, fs, n, state), fs = <<>> => n = 0,
           state \in ValueStates, Kind(ts, n + 1) \in {"string", "scalar"}
    PROVE  Place(ts, fs, n + 1, ValueEnd(state))
<1>1. Kind(ts, n + 1) \in ValueStarts /\ Kind(ts, n + 1) \notin Openers \cup Closers
  BY DEF ValueStarts, Openers, Closers
<1>2. Kind(ts, n + 1) \in Accepts(state)
  BY <1>1 DEF Accepts, ValueStates
<1>3. Fits(ts, n + 1)
  BY <1>1, <1>2, FitsHere
<1>4. \A i : ~NameIn(ts, i, n + 1)
  <2>1. state \notin {"objectStart", "objectKey"}
    BY DEF ValueStates
  <2> QED BY <2>1, NameHere
<1>5. /\ Nesting(ts, fs, n + 1) /\ NamesKept(ts, fs, n + 1)
      /\ PrefixFits(ts, n + 1) /\ PrefixNames(ts, n + 1)
  BY <1>1, <1>3, <1>4, NextPlain
<1>6. CASE fs = <<>>
  BY <1>5, <1>6 DEF Place, ValueEnd
<1>7. CASE fs # <<>>
  <2> DEFINE o == fs[Len(fs)].opened
  <2>1. o \in 1 .. n /\ Expects(ts, o, n, state) /\ ~NameIn(ts, o, n + 1)
    BY <1>4, <1>7 DEF Place, Nesting
  <2>2. Expects(ts, o, n + 1, ValueEnd(state))
    <3> HIDE DEF o
    <3>1. n + 1 # o
      BY <2>1
    <3> QED BY <2>1, <3>1 DEF Expects, ValueEnd, ValueStates
  <2> QED BY <1>5, <1>7, <2>2 DEF Place
<1> QED BY <1>6, <1>7

\* A frame with one name more.
LEMMA NamesGrow ==
    ASSUME NEW fs \in Seq(Frames), fs # <<>>, NEW w0 \in STRING
    PROVE  LET gs == [fs EXCEPT ![Len(fs)].names = @ \cup {w0}]
           IN  /\ gs \in Seq(Frames) /\ Len(gs) = Len(fs) /\ gs # <<>>
               /\ \A k \in 1 .. Len(fs) :
                    /\ gs[k].opened = fs[k].opened /\ gs[k].delimiter = fs[k].delimiter
                    /\ gs[k].names = IF k = Len(fs) THEN fs[k].names \cup {w0} ELSE fs[k].names
<1> DEFINE d == Len(fs)
           gs == [fs EXCEPT ![d].names = @ \cup {w0}]
<1>0. d \in Nat /\ d >= 1 /\ d \in 1 .. Len(fs)
  OBVIOUS
<1>1. \A k \in 1 .. Len(fs) : fs[k] \in Frames
  OBVIOUS
<1>2. \A k \in 1 .. Len(fs) :
         gs[k] = IF k = d THEN [fs[k] EXCEPT !.names = @ \cup {w0}] ELSE fs[k]
  <2> DEFINE f == [fs[d] EXCEPT !.names = @ \cup {w0}]
  <2>1. gs = [fs EXCEPT ![d] = f]
    BY Zenon
  <2>2. DOMAIN fs = 1 .. Len(fs)
    OBVIOUS
  <2> HIDE DEF gs, f
  <2>3. \A k \in 1 .. Len(fs) : gs[k] = IF k = d THEN f ELSE fs[k]
    BY <1>0, <2>1, <2>2
  <2> QED BY <2>3, Zenon DEF f
<1>3. Len(gs) = Len(fs) /\ gs # <<>>
  BY <1>0
<1>4. \A f \in Frames : [f EXCEPT !.names = @ \cup {w0}] \in Frames
  BY DEF Frames
<1>5. gs \in Seq(Frames)
  BY <1>0, <1>1, <1>4
<1>6. ASSUME NEW k \in 1 .. Len(fs)
      PROVE  /\ gs[k].opened = fs[k].opened /\ gs[k].delimiter = fs[k].delimiter
             /\ gs[k].names = IF k = d THEN fs[k].names \cup {w0} ELSE fs[k].names
  <2> HIDE DEF gs, d
  <2> QED BY <1>1, <1>2 DEF Frames
<1> QED BY <1>3, <1>5, <1>6

\* A name that the object has not had yet.
LEMMA NextName ==
    ASSUME NEW ts \in Seq(Tokens), NEW fs \in Seq(Frames), NEW n \in Nat, NEW state,
           Place(ts, fs, n, state), fs # <<>>,
           state \in {"objectStart", "objectKey"}, Kind(ts, n + 1) = "string",
           ts[n + 1].word \notin fs[Len(fs)].names
    PROVE  Place(ts, [fs EXCEPT ![Len(fs)].names = @ \cup {ts[n + 1].word}],
                 n + 1, "objectColon")
<1> DEFINE d == Len(fs)
           w0 == ts[n + 1].word
           gs == [fs EXCEPT ![d].names = @ \cup {w0}]
           o == fs[d].opened
<1>1. /\ d \in Nat /\ d >= 1 /\ d \in 1 .. Len(fs)
  OBVIOUS
<1>2. n + 1 \in 1 .. Len(ts)
  BY DEF Kind
<1>3. w0 \in STRING
  <2>1. ts[n + 1] \in Tokens
    BY <1>2
  <2> QED BY <2>1 DEF Tokens
<1>4. /\ gs \in Seq(Frames) /\ Len(gs) = Len(fs) /\ gs # <<>>
      /\ \A k \in 1 .. Len(fs) :
           /\ gs[k].opened = fs[k].opened /\ gs[k].delimiter = fs[k].delimiter
           /\ gs[k].names = IF k = d THEN fs[k].names \cup {w0} ELSE fs[k].names
  BY <1>3, NamesGrow
<1> HIDE DEF gs
<1>5. Fits(ts, n + 1)
  BY FitsHere DEF Accepts
<1>6. Kind(ts, n + 1) \notin Openers \cup Closers
  BY DEF Openers, Closers
<1>7. \A i : NameIn(ts, i, n + 1) <=> i = o
  BY NameHere
<1>8. Nesting(ts, fs, n + 1)
  BY <1>6, NestingPlain DEF Place
<1>9. Nesting(ts, gs, n + 1)
  BY <1>4, <1>8 DEF Nesting
<1>10. Level(ts, n + 1) <= maxJSONContainerDepth
  BY <1>6, LevelBounded, LevelStep
<1>11. PrefixFits(ts, n + 1)
  <2>1. \A m \in 1 .. n + 1 : m \in 1 .. n \/ m = n + 1
    OBVIOUS
  <2> QED BY <1>5, <1>10, <2>1 DEF Place, PrefixFits
<1>12. \A w \in STRING : w \in fs[d].names <=>
            \E m \in 1 .. n : NameIn(ts, o, m) /\ ts[m].word = w
  BY <1>1 DEF Place, NamesKept
<1>13. PrefixNames(ts, n + 1)
  <2> SUFFICES ASSUME NEW i \in 1 .. n + 1, NEW l \in 1 .. n + 1, NEW m \in 1 .. n + 1,
                      l < m, NameIn(ts, i, l), NameIn(ts, i, m)
               PROVE  ts[l].word # ts[m].word
    BY DEF PrefixNames
  <2>1. i \in 1 .. l - 1 /\ i \in 1 .. n /\ l \in 1 .. n
    BY NameAfter
  <2>2. CASE m = n + 1
    <3>1. i = o
      BY <1>7, <2>2
    <3>2. ts[l].word # w0
      <4> HIDE DEF o, w0
      <4> QED BY <1>3, <1>12, <2>1, <3>1 DEF w0
    <3> QED BY <2>2, <3>2
  <2>3. CASE m # n + 1
    <3>1. m \in 1 .. n
      BY <2>3
    <3> QED BY <2>1, <3>1 DEF Place, PrefixNames
  <2> QED BY <2>2, <2>3
<1>14. NamesKept(ts, gs, n + 1)
  <2> SUFFICES ASSUME NEW k \in 1 .. Len(fs), NEW w \in STRING
               PROVE  w \in gs[k].names <=>
                        \E m \in 1 .. n + 1 : NameIn(ts, gs[k].opened, m) /\ ts[m].word = w
    BY <1>4 DEF NamesKept
  <2>0. gs[k].opened = fs[k].opened
    BY <1>4
  <2>1. w \in fs[k].names <=>
          \E m \in 1 .. n : NameIn(ts, fs[k].opened, m) /\ ts[m].word = w
    BY DEF Place, NamesKept
  <2>2. (\E m \in 1 .. n + 1 : NameIn(ts, fs[k].opened, m) /\ ts[m].word = w) <=>
          \/ \E m \in 1 .. n : NameIn(ts, fs[k].opened, m) /\ ts[m].word = w
          \/ NameIn(ts, fs[k].opened, n + 1) /\ w0 = w
    <3>1. \A m \in 1 .. n + 1 : m \in 1 .. n \/ m = n + 1
      OBVIOUS
    <3>2. n + 1 \in 1 .. n + 1 /\ \A m \in 1 .. n : m \in 1 .. n + 1
      OBVIOUS
    <3> QED BY <3>1, <3>2, Zenon
  <2>3. NameIn(ts, fs[k].opened, n + 1) <=> k = d
    <3>1. Level(ts, fs[k].opened) = k /\ Level(ts, o) = d
      BY <1>1 DEF Place, Nesting
    <3> QED BY <1>7, <3>1
  <2> QED BY <1>4, <2>0, <2>1, <2>2, <2>3
<1>15. Expects(ts, o, n + 1, "objectColon")
  <2>1. o \in 1 .. n /\ Expects(ts, o, n, state)
    BY <1>1 DEF Place, Nesting
  <2>2. n + 1 # o
    BY <2>1
  <2>3. NameIn(ts, o, n + 1)
    BY <1>7
  <2> HIDE DEF o
  <2> QED BY <2>1, <2>2, <2>3 DEF Expects
<1>16. gs[Len(gs)].opened = o
  BY <1>1, <1>4
<1>17. Place(ts, gs, n + 1, "objectColon")
  BY <1>4, <1>9, <1>11, <1>13, <1>14, <1>15, <1>16 DEF Place
<1> QED BY <1>17 DEF gs

\* A container opened within the bound.
LEMMA NextOpen ==
    ASSUME NEW ts, NEW fs \in Seq(Frames), NEW n \in Nat, NEW state,
           Place(ts, fs, n, state), fs = <<>> => n = 0,
           state \in ValueStates, Kind(ts, n + 1) \in Openers,
           Len(fs) + 1 <= maxJSONContainerDepth,
           NEW f, f = [delimiter |-> Kind(ts, n + 1), names |-> {}, opened |-> n + 1]
    PROVE  Place(ts, Append(fs, f), n + 1,
                 IF Kind(ts, n + 1) = "[" THEN "arrayStart" ELSE "objectStart")
<1> DEFINE gs == Append(fs, f)
           start == IF Kind(ts, n + 1) = "[" THEN "arrayStart" ELSE "objectStart"
<1>1. f \in Frames /\ f.delimiter = Kind(ts, n + 1) /\ f.opened = n + 1 /\ f.names = {}
  BY DEF Frames
<1>2. /\ Len(gs) = Len(fs) + 1 /\ gs[Len(fs) + 1] = f /\ gs # <<>>
      /\ \A k \in 1 .. Len(fs) : gs[k] = fs[k]
  BY <1>1
<1>3. Nesting(ts, gs, n + 1)
  BY <1>1, NestingOpen DEF Place
<1>4. Kind(ts, n + 1) \in ValueStarts /\ Kind(ts, n + 1) # "string"
  BY DEF ValueStarts, Openers
<1>5. Kind(ts, n + 1) \in Accepts(state)
  BY <1>4 DEF Accepts, ValueStates
<1>6. Fits(ts, n + 1)
  BY <1>4, <1>5, FitsHere
<1>7. Level(ts, n + 1) <= maxJSONContainerDepth
  BY <1>2, <1>3 DEF Nesting
<1>8. PrefixFits(ts, n + 1) /\ PrefixNames(ts, n + 1)
  BY <1>4, <1>6, <1>7, PrefixGrows DEF Place
<1>9. NamesKept(ts, fs, n + 1)
  BY <1>4, NamesStay DEF Place
<1> HIDE DEF gs
<1>10. NamesKept(ts, gs, n + 1)
  <2> SUFFICES ASSUME NEW k \in 1 .. Len(gs), NEW w \in STRING
               PROVE  w \in gs[k].names <=>
                        \E m \in 1 .. n + 1 : NameIn(ts, gs[k].opened, m) /\ ts[m].word = w
    BY DEF NamesKept
  <2>1. CASE k \in 1 .. Len(fs)
    BY <1>2, <1>9, <2>1 DEF NamesKept
  <2>2. CASE k = Len(fs) + 1
    <3>1. gs[k].names = {} /\ gs[k].opened = n + 1
      BY <1>1, <1>2, <2>2
    <3>2. \A m \in 1 .. n + 1 : ~NameIn(ts, n + 1, m)
      BY NameAfter
    <3> QED BY <3>1, <3>2
  <2>3. k \in 1 .. Len(fs) \/ k = Len(fs) + 1
    BY <1>2
  <2> QED BY <2>1, <2>2, <2>3
<1>11. Expects(ts, n + 1, n + 1, start)
  BY DEF Expects, Openers
<1>12. gs[Len(gs)].opened = n + 1
  BY <1>1, <1>2
<1> HIDE DEF start
<1>13. Place(ts, gs, n + 1, start)
  BY <1>2, <1>3, <1>8, <1>10, <1>11, <1>12 DEF Place
<1> QED BY <1>13 DEF gs, start

\* The expectations the decoder returns to are those around each container.
DecoderStates == {"topValue", "arrayStart", "arrayValue", "arrayComma", "objectStart",
                  "objectKey", "objectColon", "objectValue", "objectComma"}

Stacked(fs, st) ==
    /\ st \in Seq(DecoderStates)
    /\ Len(st) = Len(fs)
    /\ \A k \in 1 .. Len(fs) :
         st[k] \in (IF k = 1 THEN {"topValue"}
                   ELSE IF fs[k - 1].delimiter = "[" THEN {"arrayStart", "arrayValue"}
                   ELSE {"objectValue"})

\* The innermost container closed by its bracket.
LEMMA NextClose ==
    ASSUME NEW ts, NEW fs \in Seq(Frames), NEW n \in Nat, NEW state, NEW st,
           Place(ts, fs, n, state), fs # <<>>, Stacked(fs, st),
           Kind(ts, n + 1) \in Closers, Kind(ts, n + 1) \in Accepts(state)
    PROVE  Place(ts, SubSeq(fs, 1, Len(fs) - 1), n + 1, ValueEnd(st[Len(st)]))
<1> DEFINE gs == SubSeq(fs, 1, Len(fs) - 1)
           s == st[Len(st)]
<1>1. /\ Len(fs) \in Nat /\ Len(fs) >= 1 /\ gs \in Seq(Frames) /\ Len(gs) = Len(fs) - 1
      /\ \A k \in 1 .. Len(gs) : gs[k] = fs[k] /\ k \in 1 .. Len(fs)
  BY AllButLast
<1>2. Nesting(ts, gs, n + 1)
  BY NestingClose DEF Place
<1>3. Kind(ts, n + 1) \notin {"string", ",", ":"}
  BY DEF Closers
<1>4. Fits(ts, n + 1)
  BY FitsHere
<1>5. Level(ts, n + 1) <= maxJSONContainerDepth
  <2>1. Level(ts, n + 1) = Level(ts, n) - 1 /\ Level(ts, n) \in Int
    BY LevelStep DEF Openers, Closers
  <2> QED BY <2>1, LevelBounded, DepthAssumption
<1>6. PrefixFits(ts, n + 1) /\ PrefixNames(ts, n + 1)
  BY <1>3, <1>4, <1>5, PrefixGrows DEF Place
<1>7. NamesKept(ts, fs, n + 1)
  BY <1>3, NamesStay DEF Place
<1> HIDE DEF gs
<1>8. NamesKept(ts, gs, n + 1)
  BY <1>1, <1>7 DEF NamesKept
<1>9. CASE gs = <<>>
  <2>1. Len(st) = 1 /\ Len(fs) = 1
    BY <1>1, <1>9 DEF Stacked
  <2>2. s = "topValue"
    BY <2>1 DEF Stacked
  <2> QED BY <1>2, <1>6, <1>8, <1>9, <2>2 DEF Place, ValueEnd, gs
<1>10. CASE gs # <<>>
  <2> DEFINE o == fs[Len(fs) - 1].opened
  <2>1. Len(fs) - 1 \in 1 .. Len(fs) /\ Len(gs) = Len(fs) - 1 /\ Len(gs) \in 1 .. Len(gs)
    BY <1>1, <1>10
  <2>2. gs[Len(gs)].opened = o
    BY <1>1, <2>1
  <2>3. o \in 1 .. n /\ Kind(ts, o) = fs[Len(fs) - 1].delimiter
    BY <2>1 DEF Place, Nesting
  <2>4. fs[Len(fs) - 1].delimiter \in {"[", "{"}
    <3>1. fs[Len(fs) - 1] \in Frames
      BY <2>1
    <3> QED BY <3>1 DEF Frames, Openers
  <2>5. s \in (IF fs[Len(fs) - 1].delimiter = "[" THEN {"arrayStart", "arrayValue"}
               ELSE {"objectValue"})
    <3>1. Len(st) = Len(fs) /\ Len(fs) \in 1 .. Len(fs) /\ Len(fs) # 1
      BY <1>1, <2>1 DEF Stacked
    <3> QED BY <3>1 DEF Stacked
  <2> HIDE DEF o, s
  <2>6. ~NameIn(ts, o, n + 1) /\ n + 1 # o
    <3>1. n + 1 # o
      BY <2>3
    <3>2. NameIn(ts, o, n + 1) => Kind(ts, n + 1) = "string"
      BY DEF NameIn
    <3> QED BY <1>3, <3>1, <3>2
  <2>7. Expects(ts, o, n + 1, ValueEnd(s))
    BY <1>3, <2>3, <2>4, <2>5, <2>6 DEF Expects, ValueEnd
  <2>8. Expects(ts, gs[Len(gs)].opened, n + 1, ValueEnd(s))
    BY <2>2, <2>7
  <2> QED BY <1>2, <1>6, <1>8, <1>10, <2>8 DEF Place, gs, s
<1> QED BY <1>9, <1>10

-----------------------------------------------------------------------------
\* A token that the decoder does not accept, or the end of the text before the
\* value is complete.
LEMMA Rejected ==
    ASSUME NEW ts \in Seq(Tokens), NEW fs \in Seq(Frames), NEW n \in 0 .. Len(ts), NEW state,
           Place(ts, fs, n, state), fs = <<>> => n = 0,
           Kind(ts, n + 1) \notin Accepts(state)
    PROVE  ~OneValue(ts)
<1>1. CASE n + 1 \in 1 .. Len(ts)
  <2>1. ~Fits(ts, n + 1)
    <3>1. fs = <<>> => Accepts(state) = ValueStarts
      BY DEF Place, Accepts
    <3> QED BY <3>1, FitsHere
  <2> QED BY <1>1, <2>1 DEF OneValue
<1>2. CASE n + 1 \notin 1 .. Len(ts)
  <2>1. n = Len(ts)
    BY <1>2
  <2>2. CASE fs = <<>>
    BY <2>1, <2>2 DEF OneValue
  <2>3. CASE fs # <<>>
    <3>1. Len(fs) # 0 /\ Level(ts, n) = Len(fs)
      BY <2>3 DEF Place, Nesting
    <3> QED BY <2>1, <3>1 DEF OneValue
  <2> QED BY <2>2, <2>3
<1> QED BY <1>1, <1>2

\* The end of the text is told from every token.
LEMMA EndIsNoToken ==
    ASSUME NEW ts \in Seq(Tokens), NEW n
    PROVE  Kind(ts, n) = "end" <=> n \notin 1 .. Len(ts)
<1>1. ASSUME n \in 1 .. Len(ts) PROVE ts[n].kind # "end"
  <2>1. ts[n] \in Tokens
    BY <1>1
  <2> QED BY <2>1 DEF Tokens, TokenKinds, Openers, Closers
<1> QED BY <1>1 DEF Kind

\* Something after the value.
LEMMA MoreThanOne ==
    ASSUME NEW ts \in Seq(Tokens), NEW n \in Nat, n >= 1, NEW state,
           Place(ts, <<>>, n, state), Kind(ts, n + 1) # "end"
    PROVE  ~OneValue(ts)
<1>1. n + 1 \in 1 .. Len(ts)
  BY EndIsNoToken
<1>2. <<>> \in Seq(Frames)
  OBVIOUS
<1>3. ~Fits(ts, n + 1)
  <2>1. \A fs \in Seq(Frames) : Place(ts, fs, n, state) /\ fs = <<>> =>
          (Fits(ts, n + 1) <=> n = 0 /\ Kind(ts, n + 1) \in ValueStarts)
    BY FitsHere
  <2>2. Fits(ts, n + 1) <=> n = 0 /\ Kind(ts, n + 1) \in ValueStarts
    BY <1>2, <2>1, Zenon
  <2> QED BY <2>2
<1> QED BY <1>1, <1>3 DEF OneValue

\* A container past the bound.
LEMMA TooDeep ==
    ASSUME NEW ts, NEW fs \in Seq(Frames), NEW n \in Nat, NEW state,
           Place(ts, fs, n, state), Kind(ts, n + 1) \in Openers,
           Len(fs) + 1 > maxJSONContainerDepth
    PROVE  ~Shallow(ts)
<1>1. n + 1 \in 1 .. Len(ts)
  BY DEF Kind, Openers
<1>2. Level(ts, n + 1) = Len(fs) + 1
  BY LevelStep DEF Place, Nesting
<1>3. ~(Level(ts, n + 1) <= maxJSONContainerDepth)
  BY <1>2, DepthAssumption
<1> QED BY <1>1, <1>3 DEF Shallow

\* A name that the object has had.
LEMMA NamedTwice ==
    ASSUME NEW ts \in Seq(Tokens), NEW fs \in Seq(Frames), NEW n \in Nat, NEW state,
           Place(ts, fs, n, state), fs # <<>>, state \in {"objectStart", "objectKey"},
           Kind(ts, n + 1) = "string", ts[n + 1].word \in fs[Len(fs)].names
    PROVE  ~NamesDiffer(ts)
<1> DEFINE o == fs[Len(fs)].opened
<1>1. n + 1 \in 1 .. Len(ts)
  BY DEF Kind
<1>2. ts[n + 1].word \in STRING
  <2>1. ts[n + 1] \in Tokens
    BY <1>1
  <2> QED BY <2>1 DEF Tokens
<1>3. PICK m \in 1 .. n : NameIn(ts, o, m) /\ ts[m].word = ts[n + 1].word
  <2>1. Len(fs) \in 1 .. Len(fs)
    OBVIOUS
  <2> QED BY <1>2, <2>1 DEF Place, NamesKept
<1>4. NameIn(ts, o, n + 1)
  BY NameHere
<1>5. o \in 1 .. n
  <2>1. Len(fs) \in 1 .. Len(fs)
    OBVIOUS
  <2> QED BY <2>1 DEF Place, Nesting
<1> HIDE DEF o
<1>6. o \in 1 .. Len(ts) /\ m \in 1 .. Len(ts) /\ m < n + 1
  BY <1>1, <1>3, <1>5
<1> QED BY <1>1, <1>3, <1>4, <1>6 DEF NamesDiffer

\* The whole text is the value.
LEMMA WholeText ==
    ASSUME NEW ts \in Seq(Tokens), NEW n \in 1 .. Len(ts), NEW state,
           Place(ts, <<>>, n, state), Kind(ts, n + 1) = "end"
    PROVE  OneValue(ts) /\ NamesDiffer(ts) /\ Shallow(ts)
<1>1. n = Len(ts)
  BY EndIsNoToken
<1>2. Level(ts, n) = 0
  BY DEF Place, Nesting
<1> QED
  BY <1>1, <1>2 DEF Place, PrefixFits, PrefixNames, OneValue, NamesDiffer, Shallow

-----------------------------------------------------------------------------
(***************************************************************************)
(* The invariant of validateStrictDocument: the scanner is in step with the *)
(* reader, the walk stands at a place, and the verdict is exact.           *)
(***************************************************************************)

\* The states of the decoder inside an array, and inside an object.
ArrayStates == {"arrayStart", "arrayValue", "arrayComma"}
ObjectStates == {"objectStart", "objectKey", "objectColon", "objectValue", "objectComma"}

\* What the walk may find where it stands.
Standpoint ==
    /\ stage \in {"idle", "scan"} => next = 0 /\ frames = <<>>
    /\ stage = "value" =>
         IF frames = <<>> THEN next = 0
         ELSE \/ tokenState \in {"arrayStart", "arrayComma"} /\ More
              \/ tokenState = "objectColon"
    /\ stage = "more" =>
         /\ frames # <<>>
         /\ tokenState \in {"arrayStart", "arrayComma", "objectStart", "objectComma"}
    /\ stage = "trailing" => frames = <<>> /\ next >= 1

WalkInv ==
    /\ next \in 0 .. Len(tokens)
    /\ frames \in Seq(Frames)
    /\ Stacked(frames, tokenStack)
    /\ Place(tokens, frames, next, tokenState)
    /\ Standpoint
    /\ stage \notin {"idle", "refused"} => Valid(bytes)

StrictInv == ScanInv /\ WalkInv /\ StrictExactly

\* The innermost container and the state of the decoder agree.
LEMMA StateOfFrame ==
    ASSUME NEW ts, NEW fs \in Seq(Frames), NEW n \in Nat, NEW state,
           Place(ts, fs, n, state), fs # <<>>
    PROVE  /\ fs[Len(fs)].delimiter \in Openers
           /\ fs[Len(fs)].delimiter = "[" <=> state \in ArrayStates
           /\ fs[Len(fs)].delimiter = "{" <=> state \in ObjectStates
<1>1. Len(fs) \in 1 .. Len(fs)
  OBVIOUS
<1>2. fs[Len(fs)] \in Frames
  BY <1>1
<1>3. Kind(ts, fs[Len(fs)].opened) = fs[Len(fs)].delimiter
  BY <1>1 DEF Place, Nesting
<1>4. Expects(ts, fs[Len(fs)].opened, n, state)
  BY DEF Place
<1>5. fs[Len(fs)].delimiter \in Openers
  BY <1>2 DEF Frames
<1> QED BY <1>3, <1>4, <1>5 DEF Expects, ArrayStates, ObjectStates, Openers

\* Before the first token.
LEMMA PlaceStart ==
    ASSUME NEW ts
    PROVE  Place(ts, <<>>, 0, "topValue")
<1>1. Level(ts, 0) = 0
  BY LevelStep
<1>2. Nesting(ts, <<>>, 0)
  BY <1>1 DEF Nesting
<1> QED BY <1>2 DEF Place, NamesKept, PrefixFits, PrefixNames

\* Where Token looks, past a separator that was expected.
LEMMA WhereTokenLooks ==
    ASSUME StrictInv
    PROVE  /\ Here - 1 \in 0 .. Len(tokens) /\ Here = (Here - 1) + 1 /\ Here - 1 \in Nat
           /\ Place(tokens, frames, Here - 1, Standing)
           /\ ~Separated => Here = next + 1 /\ Standing = tokenState
           /\ Separated => tokenState \in {"arrayComma", "objectComma", "objectColon"}
           /\ frames = <<>> => ~Separated
<1>0. /\ next \in 0 .. Len(tokens) /\ next \in Nat /\ Len(tokens) \in Nat
      /\ frames \in Seq(Frames) /\ Place(tokens, frames, next, tokenState)
      /\ tokens \in Seq(Tokens)
  BY DEF StrictInv, ScanInv, ScanType, WalkInv, tokens
<1>1. Separated <=> Skips(Kind(tokens, next + 1), tokenState)
  BY DEF Separated, Skips
<1>2. CASE ~Separated
  <2>1. Here = next + 1 /\ Standing = tokenState
    BY <1>2 DEF Here, Standing
  <2> QED BY <1>0, <1>2, <2>1
<1>3. CASE Separated
  <2>1. Here = next + 2 /\ Standing = Skipped(tokenState)
    BY <1>3 DEF Here, Standing, Skipped
  <2>2. Place(tokens, frames, next + 1, Skipped(tokenState))
    BY <1>0, <1>1, <1>3, NextSeparator
  <2>3. next + 1 \in 1 .. Len(tokens)
    BY <1>3 DEF Separated, Kind
  <2>4. Here - 1 = next + 1
    BY <1>0, <2>1
  <2>5. tokenState \in {"arrayComma", "objectComma", "objectColon"}
    BY <1>3 DEF Separated
  <2>6. frames # <<>>
    BY <1>0, <2>5 DEF Place
  <2> QED BY <1>0, <1>3, <2>1, <2>2, <2>3, <2>4, <2>5, <2>6
<1> QED BY <1>2, <1>3

\* A step of the walk leaves the text and the scanner alone.
LEMMA WalkKeepsScan ==
    ASSUME ScanInv, stage \in {"value", "more", "trailing"},
           stage' \in {"value", "more", "trailing", "accepted", "refused"},
           UNCHANGED <<text, scanVars>>
    PROVE  /\ ScanInv' /\ tokens' = tokens /\ bytes' = bytes
           /\ text \in PairedTexts /\ text \in Texts
<1>1. /\ text' = text /\ index' = index /\ inString' = inString
      /\ tokens' = tokens /\ bytes' = bytes
  BY DEF scanVars, tokens, bytes
<1>2. index = Len(bytes) /\ text \in PairedTexts
  BY DEF ScanInv, SurrogatesExact
<1>3. ScanType' /\ text \in Texts
  BY <1>1 DEF ScanInv, ScanType, Stages
<1>4. Len(bytes) \in Nat
  BY DEF ScanInv, ScanType, bytes
<1>5. SurrogatesExact'
  BY <1>1, <1>2, <1>4 DEF SurrogatesExact
<1>6. InStep'
  BY DEF InStep
<1> QED BY <1>1, <1>2, <1>3, <1>5, <1>6 DEF ScanInv

\* A refusal of the walk.
LEMMA WalkRefuses ==
    ASSUME StrictInv, stage \in {"value", "more", "trailing"}, Refuse,
           \/ ~OneValue(tokens) \/ ~NamesDiffer(tokens) \/ ~Shallow(tokens)
    PROVE  StrictInv'
<1>1. stage' = "refused" /\ UNCHANGED <<text, scanVars>> /\ UNCHANGED walkVars
  BY DEF Refuse
<1>2. ScanInv' /\ tokens' = tokens
  BY <1>1, WalkKeepsScan DEF StrictInv
<1>3. WalkInv'
  BY <1>1, <1>2 DEF StrictInv, WalkInv, Standpoint, walkVars
<1>4. text \notin StrictTexts
  BY DEF StrictTexts, tokens
<1>5. StrictExactly'
  BY <1>1, <1>4 DEF StrictExactly
<1> QED BY <1>2, <1>3, <1>5 DEF StrictInv

\* A step of the walk that goes on: what is left to show of the invariant.
LEMMA WalkGoesOn ==
    ASSUME StrictInv, stage \in {"value", "more", "trailing"},
           stage' \in {"value", "more", "trailing"}, UNCHANGED <<text, scanVars>>,
           next' \in 0 .. Len(tokens), frames' \in Seq(Frames),
           Stacked(frames', tokenStack'), Place(tokens, frames', next', tokenState'),
           Standpoint'
    PROVE  StrictInv'
<1>1. ScanInv' /\ tokens' = tokens /\ bytes' = bytes
  BY WalkKeepsScan DEF StrictInv
<1>2. Valid(bytes)
  BY DEF StrictInv, WalkInv
<1>3. WalkInv'
  BY <1>1, <1>2 DEF WalkInv
<1>4. StrictExactly'
  BY DEF StrictExactly
<1> QED BY <1>1, <1>3, <1>4 DEF StrictInv

\* What Token finds there is a token when it is of some kind.
LEMMA TokenFound ==
    ASSUME StrictInv, Kind(tokens, Here) # "end"
    PROVE  Here \in 1 .. Len(tokens)
<1>1. tokens \in Seq(Tokens)
  BY DEF StrictInv, ScanInv, ScanType, tokens
<1> QED BY <1>1, EndIsNoToken

\* After a scalar, a value is complete.
LEMMA ScalarStep ==
    ASSUME StrictInv, ReadScalar
    PROVE  StrictInv'
<1>1. /\ stage = "value" /\ (ReadsName \/ ReadsValue)
      /\ next' = Here /\ tokenState' = AfterScalar /\ stage' = Resumed(frames)
      /\ UNCHANGED <<text, scanVars>> /\ tokenStack' = tokenStack /\ frames' = frames
  BY DEF ReadScalar
<1>2. frames \in Seq(Frames) /\ Stacked(frames, tokenStack) /\ Standpoint
  BY DEF StrictInv, WalkInv
<1>3. Standing \notin {"objectStart", "objectKey"}
  <2>1. frames = <<>> => Standing = "topValue"
    BY WhereTokenLooks DEF Place
  <2>2. frames # <<>> => tokenState \in {"arrayStart", "arrayComma", "objectColon"}
    BY <1>1, <1>2 DEF Standpoint
  <2> QED BY <2>1, <2>2 DEF Standing
<1>4. ReadsValue /\ ~ReadsName
  BY <1>1, <1>3 DEF ReadsName
<1>5. /\ Standing \in ValueStates /\ Kind(tokens, Here) \in {"string", "scalar"}
      /\ tokenState' = ValueEnd(Standing)
  BY <1>1, <1>4 DEF ReadsValue, ValueAllowed, ValueStates, AfterScalar
<1>6. frames = <<>> => Here - 1 = 0
  <2>1. frames = <<>> => next = 0
    BY <1>1, <1>2 DEF Standpoint
  <2> QED BY <2>1, WhereTokenLooks
<1>7. Here \in 1 .. Len(tokens)
  BY <1>5, TokenFound
<1>8. Place(tokens, frames, Here, tokenState')
  <2>1. Here - 1 \in Nat /\ Here = (Here - 1) + 1 /\ Place(tokens, frames, Here - 1, Standing)
    BY WhereTokenLooks
  <2> DEFINE n == Here - 1
  <2>2. n \in Nat /\ Kind(tokens, n + 1) \in {"string", "scalar"} /\ (frames = <<>> => n = 0)
        /\ Place(tokens, frames, n, Standing) /\ Here = n + 1
    BY <1>5, <1>6, <2>1
  <2> HIDE DEF n
  <2>3. Place(tokens, frames, n + 1, ValueEnd(Standing))
    BY <1>2, <1>5, <2>2, NextScalar
  <2> QED BY <1>5, <2>2, <2>3
<1>9. Standpoint'
  <2>1. frames # <<>> => ValueEnd(Standing) \in {"arrayComma", "objectComma"}
    <3>1. frames # <<>> => Standing \in ArrayStates \cup ObjectStates
      <4>1. Here - 1 \in Nat /\ Place(tokens, frames, Here - 1, Standing)
        BY WhereTokenLooks
      <4> QED BY <1>2, <4>1, StateOfFrame DEF Openers
    <3> QED BY <1>5, <3>1 DEF ValueEnd, ValueStates, ArrayStates, ObjectStates
  <2>2. CASE frames = <<>>
    BY <1>1, <1>7, <2>2 DEF Standpoint, Resumed
  <2>3. CASE frames # <<>>
    BY <1>1, <1>5, <2>1, <2>3 DEF Standpoint, Resumed
  <2> QED BY <2>2, <2>3
<1> QED BY <1>1, <1>2, <1>7, <1>8, <1>9, WalkGoesOn DEF Resumed

\* An opening token within the bound.
LEMMA OpenStep ==
    ASSUME StrictInv, OpenContainer
    PROVE  StrictInv'
<1> DEFINE f == [delimiter |-> Kind(tokens, Here), names |-> {}, opened |-> Here]
           start == IF Kind(tokens, Here) = "[" THEN "arrayStart" ELSE "objectStart"
           n == Here - 1
<1>1. /\ stage = "value" /\ Opens /\ Len(frames) + 1 <= maxJSONContainerDepth
      /\ next' = Here /\ tokenState' = start /\ stage' = "more"
      /\ tokenStack' = Append(tokenStack, Standing) /\ frames' = Append(frames, f)
      /\ UNCHANGED <<text, scanVars>>
  BY DEF OpenContainer, depth
<1>2. frames \in Seq(Frames) /\ Stacked(frames, tokenStack) /\ Standpoint
  BY DEF StrictInv, WalkInv
<1>3. Standing \in ValueStates /\ Kind(tokens, Here) \in Openers
  BY <1>1 DEF Opens, ValueAllowed, ValueStates
<1>4. frames = <<>> => n = 0
  <2>1. frames = <<>> => next = 0
    BY <1>1, <1>2 DEF Standpoint
  <2> QED BY <2>1, WhereTokenLooks
<1>5. Here \in 1 .. Len(tokens)
  BY <1>3, TokenFound DEF Openers
<1>6. n \in Nat /\ Here = n + 1 /\ Place(tokens, frames, n, Standing)
  BY WhereTokenLooks
<1>7. f \in Frames
  BY <1>3, <1>5 DEF Frames
<1>8. frames' \in Seq(Frames) /\ frames' # <<>>
  BY <1>1, <1>2, <1>7
<1> HIDE DEF n
<1>9. Place(tokens, frames', next', tokenState')
  <2>1. f = [delimiter |-> Kind(tokens, n + 1), names |-> {}, opened |-> n + 1]
    BY <1>6
  <2> HIDE DEF f
  <2>2. Place(tokens, Append(frames, f), n + 1,
              IF Kind(tokens, n + 1) = "[" THEN "arrayStart" ELSE "objectStart")
    BY <1>1, <1>2, <1>3, <1>4, <1>6, <2>1, NextOpen
  <2> QED BY <1>1, <1>6, <2>2
<1>10. Stacked(frames', tokenStack')
  <2>1. Standing \in (IF frames = <<>> THEN {"topValue"}
                      ELSE IF frames[Len(frames)].delimiter = "["
                           THEN {"arrayStart", "arrayValue"} ELSE {"objectValue"})
    BY <1>2, <1>3, <1>6, StateOfFrame
       DEF Place, ValueStates, ArrayStates, ObjectStates, Openers
  <2>2. /\ tokenStack \in Seq(DecoderStates) /\ Len(tokenStack) = Len(frames)
        /\ Standing \in DecoderStates /\ Len(frames) \in Nat
    BY <1>2, <1>3 DEF Stacked, DecoderStates, ValueStates
  <2> HIDE DEF f
  <2>3. /\ tokenStack' \in Seq(DecoderStates) /\ Len(tokenStack') = Len(frames) + 1
        /\ tokenStack'[Len(frames) + 1] = Standing
        /\ \A k \in 1 .. Len(frames) : tokenStack'[k] = tokenStack[k]
    BY <1>1, <2>2
  <2>4. /\ Len(frames') = Len(frames) + 1
        /\ \A k \in 1 .. Len(frames) : frames'[k] = frames[k]
    BY <1>1, <1>2, <1>7
  <2>5. \A k \in 1 .. Len(frames') : k \in 1 .. Len(frames) \/ k = Len(frames) + 1
    BY <2>2, <2>4
  <2> SUFFICES ASSUME NEW k \in 1 .. Len(frames')
               PROVE  tokenStack'[k] \in
                        (IF k = 1 THEN {"topValue"}
                         ELSE IF frames'[k - 1].delimiter = "[" THEN {"arrayStart", "arrayValue"}
                         ELSE {"objectValue"})
    BY <2>3, <2>4 DEF Stacked
  <2>6. CASE k \in 1 .. Len(frames)
    <3>1. k # 1 => frames'[k - 1] = frames[k - 1]
      BY <2>2, <2>4, <2>6
    <3>2. tokenStack'[k] = tokenStack[k]
      BY <2>3, <2>6
    <3> QED BY <1>2, <2>6, <3>1, <3>2 DEF Stacked
  <2>7. CASE k = Len(frames) + 1
    <3>1. k = 1 <=> frames = <<>>
      BY <1>2, <2>2, <2>7
    <3>2. k # 1 => k - 1 = Len(frames) /\ frames'[k - 1] = frames[Len(frames)]
      BY <2>2, <2>4, <2>7
    <3> QED BY <2>1, <2>3, <2>7, <3>1, <3>2
  <2> QED BY <2>5, <2>6, <2>7
<1>11. Standpoint'
  BY <1>1, <1>8 DEF Standpoint
<1> QED BY <1>1, <1>5, <1>8, <1>9, <1>10, <1>11, WalkGoesOn

\* Inside a container, the loop head looks past at most one comma.
LEMMA LoopHeadState ==
    ASSUME StrictInv, stage = "more"
    PROVE  /\ frames \in Seq(Frames) /\ frames # <<>> /\ Stacked(frames, tokenStack)
           /\ Frame = frames[Len(frames)] /\ Frame.delimiter \in Openers
           /\ Frame.delimiter = "[" => tokenState \in {"arrayStart", "arrayComma"}
           /\ Frame.delimiter = "{" => tokenState \in {"objectStart", "objectComma"}
<1>1. /\ frames \in Seq(Frames) /\ Stacked(frames, tokenStack)
      /\ Place(tokens, frames, next, tokenState) /\ Standpoint
      /\ next \in Nat
  BY DEF StrictInv, WalkInv
<1>2. /\ frames # <<>>
      /\ tokenState \in {"arrayStart", "arrayComma", "objectStart", "objectComma"}
  BY <1>1 DEF Standpoint
<1>3. Frame = frames[Len(frames)]
  BY DEF Frame, depth
<1>4. /\ frames[Len(frames)].delimiter \in Openers
      /\ frames[Len(frames)].delimiter = "[" <=> tokenState \in ArrayStates
      /\ frames[Len(frames)].delimiter = "{" <=> tokenState \in ObjectStates
  BY <1>1, <1>2, StateOfFrame
<1> QED BY <1>1, <1>2, <1>3, <1>4 DEF ArrayStates, ObjectStates

\* Another element of an array.
LEMMA ElementStep ==
    ASSUME StrictInv, NextElement
    PROVE  StrictInv'
<1>1. /\ stage = "more" /\ More /\ Frame.delimiter = "[" /\ stage' = "value"
      /\ UNCHANGED <<text, scanVars>> /\ next' = next /\ tokenState' = tokenState
      /\ tokenStack' = tokenStack /\ frames' = frames
  BY DEF NextElement, walkVars
<1>2. /\ frames \in Seq(Frames) /\ Stacked(frames, tokenStack) /\ next \in 0 .. Len(tokens)
      /\ Place(tokens, frames, next, tokenState)
  BY DEF StrictInv, WalkInv
<1>3. More'
  BY <1>1 DEF More, tokens
<1>4. Standpoint'
  BY <1>1, <1>3, LoopHeadState DEF Standpoint
<1> QED BY <1>1, <1>2, <1>4, WalkGoesOn

\* What a name is read from.
LEMMA NameStanding ==
    ASSUME StrictInv, stage = "more", Frame.delimiter = "{"
    PROVE  /\ Standing \in {"objectStart", "objectKey", "objectComma"} /\ ~ReadsValue
           /\ Standing = "objectComma" => ~Separated /\ Standing = tokenState
           /\ Standing = "objectStart" => ~Separated /\ Standing = tokenState
<1>1. tokenState \in {"objectStart", "objectComma"}
  BY LoopHeadState
<1>2. /\ Standing \in {"objectStart", "objectKey", "objectComma"}
      /\ Standing = "objectComma" => ~Separated /\ Standing = tokenState
      /\ Standing = "objectStart" => ~Separated /\ Standing = tokenState
  BY <1>1 DEF Standing, Separated
<1> QED BY <1>2 DEF ReadsValue, ValueAllowed

\* Another member of an object.
LEMMA MemberStep ==
    ASSUME StrictInv, NextMember
    PROVE  StrictInv'
<1> DEFINE n == Here - 1
           w == tokens[Here].word
           gs == [frames EXCEPT ![Len(frames)].names = @ \cup {w}]
<1>1. /\ stage = "more" /\ Frame.delimiter = "{" /\ FreshName /\ stage' = "value"
      /\ UNCHANGED <<text, scanVars>> /\ next' = Here /\ tokenState' = AfterScalar
      /\ tokenStack' = tokenStack /\ frames' = gs
  BY DEF NextMember, depth
<1>2. /\ frames \in Seq(Frames) /\ Stacked(frames, tokenStack) /\ frames # <<>>
      /\ Frame = frames[Len(frames)]
  BY <1>1, LoopHeadState
<1>3. /\ ReadsName /\ Kind(tokens, Here) = "string" /\ w \notin frames[Len(frames)].names
      /\ Standing \in {"objectStart", "objectKey"} /\ tokenState' = "objectColon"
  BY <1>1, <1>2, NameStanding DEF FreshName, ReadsName, AfterScalar
<1>4. Here \in 1 .. Len(tokens)
  BY <1>3, TokenFound
<1>5. n \in Nat /\ Here = n + 1 /\ Place(tokens, frames, n, Standing)
  BY WhereTokenLooks
<1>6. tokens \in Seq(Tokens)
  BY DEF StrictInv, ScanInv, ScanType, tokens
<1> HIDE DEF n
<1>7. Place(tokens, gs, Here, "objectColon")
  <2>1. Kind(tokens, n + 1) = "string" /\ tokens[n + 1].word \notin frames[Len(frames)].names
    BY <1>3, <1>5
  <2>2. Place(tokens, [frames EXCEPT ![Len(frames)].names = @ \cup {tokens[n + 1].word}],
              n + 1, "objectColon")
    BY <1>2, <1>3, <1>5, <1>6, <2>1, NextName
  <2> QED BY <1>5, <2>2
<1>8. w \in STRING
  <2>1. tokens[Here] \in Tokens
    BY <1>4, <1>6
  <2> QED BY <2>1 DEF Tokens
<1> HIDE DEF w
<1>9. /\ gs \in Seq(Frames) /\ gs # <<>>
      /\ Len(gs) = Len(frames)
      /\ \A k \in 1 .. Len(frames) : gs[k].delimiter = frames[k].delimiter
  <2>1. LET hs == [frames EXCEPT ![Len(frames)].names = @ \cup {w}]
        IN  /\ hs \in Seq(Frames) /\ Len(hs) = Len(frames) /\ hs # <<>>
            /\ \A k \in 1 .. Len(frames) :
                 /\ hs[k].opened = frames[k].opened /\ hs[k].delimiter = frames[k].delimiter
                 /\ hs[k].names = IF k = Len(frames) THEN frames[k].names \cup {w}
                                  ELSE frames[k].names
    BY <1>2, <1>8, NamesGrow
  <2> QED BY <2>1, Zenon
<1> HIDE DEF gs
<1>10. Stacked(gs, tokenStack)
  <2>1. /\ tokenStack \in Seq(DecoderStates) /\ Len(tokenStack) = Len(frames)
        /\ Len(frames) \in Nat
    BY <1>2 DEF Stacked
  <2> SUFFICES ASSUME NEW k \in 1 .. Len(frames)
               PROVE  tokenStack[k] \in
                        (IF k = 1 THEN {"topValue"}
                         ELSE IF gs[k - 1].delimiter = "[" THEN {"arrayStart", "arrayValue"}
                         ELSE {"objectValue"})
    BY <1>9, <2>1 DEF Stacked
  <2>2. k # 1 => gs[k - 1].delimiter = frames[k - 1].delimiter
    BY <1>9, <2>1
  <2> QED BY <1>2, <2>2 DEF Stacked
<1>11. Standpoint'
  BY <1>1, <1>3, <1>9 DEF Standpoint
<1>12. Stacked(frames', tokenStack') /\ frames' \in Seq(Frames)
  BY <1>1, <1>9, <1>10
<1>13. Place(tokens, frames', next', tokenState')
  BY <1>1, <1>3, <1>7
<1>14. next' \in 0 .. Len(tokens)
  <2>1. next' = Here
    BY <1>1
  <2> QED BY <1>4, <2>1
<1> QED BY <1>1, <1>11, <1>12, <1>13, <1>14, WalkGoesOn

\* The bracket that closes the innermost container.
LEMMA CloseStep ==
    ASSUME StrictInv, CloseContainer
    PROVE  StrictInv'
<1> DEFINE gs == SubSeq(frames, 1, Len(frames) - 1)
           st == SubSeq(tokenStack, 1, Len(tokenStack) - 1)
           s == tokenStack[Len(tokenStack)]
           n == Here - 1
<1>1. /\ stage = "more" /\ ~More /\ Closes
      /\ UNCHANGED <<text, scanVars>> /\ next' = Here /\ frames' = gs /\ tokenStack' = st
      /\ tokenState' = ValueEnd(s) /\ stage' = Resumed(gs)
  BY DEF CloseContainer, depth
<1>2. frames \in Seq(Frames) /\ Stacked(frames, tokenStack) /\ frames # <<>>
  BY <1>1, LoopHeadState
<1>3. n \in Nat /\ Here = n + 1 /\ Place(tokens, frames, n, Standing)
  BY WhereTokenLooks
<1>4. Kind(tokens, Here) \in Closers /\ Kind(tokens, Here) \in Accepts(Standing)
  BY <1>1 DEF Closes, Closers, Accepts
<1>5. Here \in 1 .. Len(tokens)
  BY <1>4, TokenFound DEF Closers
<1>6. Len(frames) \in Nat /\ Len(frames) >= 1
  BY <1>2
<1>7. /\ tokenStack \in Seq(DecoderStates) /\ Len(tokenStack) = Len(frames)
      /\ tokenStack # <<>>
  BY <1>2, <1>6 DEF Stacked
<1>8. /\ gs \in Seq(Frames) /\ Len(gs) = Len(frames) - 1
      /\ \A k \in 1 .. Len(frames) - 1 : gs[k] = frames[k]
  BY <1>2, AllButLast
<1>9. /\ st \in Seq(DecoderStates) /\ Len(st) = Len(frames) - 1
      /\ \A k \in 1 .. Len(frames) - 1 : st[k] = tokenStack[k]
  <2>1. /\ st \in Seq(DecoderStates) /\ Len(st) = Len(tokenStack) - 1
        /\ \A k \in 1 .. Len(tokenStack) - 1 : st[k] = tokenStack[k]
    BY <1>7, AllButLast
  <2> QED BY <1>7, <2>1
<1> HIDE DEF n
<1>10. Place(tokens, gs, Here, ValueEnd(s))
  <2>1. Kind(tokens, n + 1) \in Closers /\ Kind(tokens, n + 1) \in Accepts(Standing)
    BY <1>3, <1>4
  <2>2. Place(tokens, gs, n + 1, ValueEnd(s))
    BY <1>2, <1>3, <2>1, NextClose
  <2> QED BY <1>3, <2>2
<1> HIDE DEF gs, st
<1>11. Stacked(gs, st)
  <2> SUFFICES ASSUME NEW k \in 1 .. Len(gs)
               PROVE  st[k] \in
                        (IF k = 1 THEN {"topValue"}
                         ELSE IF gs[k - 1].delimiter = "[" THEN {"arrayStart", "arrayValue"}
                         ELSE {"objectValue"})
    BY <1>8, <1>9 DEF Stacked
  <2>1. k \in 1 .. Len(frames) /\ k \in 1 .. Len(frames) - 1
    BY <1>6, <1>8
  <2>2. st[k] = tokenStack[k] /\ (k # 1 => gs[k - 1] = frames[k - 1])
    BY <1>6, <1>8, <1>9, <2>1
  <2> QED BY <1>2, <2>1, <2>2 DEF Stacked
<1>12. Standpoint'
  <2>1. CASE gs = <<>>
    <3>1. stage' = "trailing" /\ frames' = <<>> /\ next' = Here
      BY <1>1, <2>1 DEF Resumed
    <3>2. Here >= 1
      BY <1>3
    <3> QED BY <3>1, <3>2 DEF Standpoint
  <2>2. CASE gs # <<>>
    <3>1. s \in {"arrayStart", "arrayValue", "objectValue"}
      <4>1. Len(frames) \in 1 .. Len(frames) /\ Len(frames) # 1
        BY <1>6, <1>8, <2>2
      <4> QED BY <1>2, <1>7, <4>1 DEF Stacked
    <3>2. ValueEnd(s) \in {"arrayComma", "objectComma"}
      BY <3>1 DEF ValueEnd
    <3> QED BY <1>1, <2>2, <3>2 DEF Standpoint, Resumed
  <2> QED BY <2>1, <2>2
<1>13. stage' \in {"value", "more", "trailing"}
  BY <1>1 DEF Resumed
<1> QED BY <1>1, <1>5, <1>8, <1>10, <1>11, <1>12, <1>13, WalkGoesOn

\* A token that Token refuses at its place: the text is no JSON value.
LEMMA TokenRejected ==
    ASSUME StrictInv, stage \in {"value", "more"}, Kind(tokens, Here) \notin Accepts(Standing)
    PROVE  ~OneValue(tokens)
<1> DEFINE n == Here - 1
<1>1. n \in 0 .. Len(tokens) /\ Here = n + 1 /\ Place(tokens, frames, n, Standing)
  BY WhereTokenLooks
<1>2. frames = <<>> => next = 0
  BY DEF StrictInv, WalkInv, Standpoint
<1>3. frames = <<>> => n = 0
  BY <1>2, WhereTokenLooks
<1>4. frames \in Seq(Frames) /\ tokens \in Seq(Tokens)
  BY DEF StrictInv, WalkInv, ScanInv, ScanType, tokens
<1> HIDE DEF n
<1>5. Kind(tokens, n + 1) \notin Accepts(Standing)
  BY <1>1
<1> QED BY <1>1, <1>3, <1>4, <1>5, Rejected

\* What is looked at first closes no container when there is more.
LEMMA MoreHere ==
    ASSUME More, ~Separated
    PROVE  Kind(tokens, Here) \notin Closers \cup {"end"}
  BY DEF More, Here

\* A value that Token refuses, or a container too deep.
LEMMA ValueRefusedStep ==
    ASSUME StrictInv, ValueRefused
    PROVE  StrictInv'
<1>1. /\ stage = "value" /\ ~ReadsName /\ ~ReadsValue /\ Refuse
      /\ ~Opens \/ Len(frames) + 1 > maxJSONContainerDepth
  BY DEF ValueRefused, depth
<1>2. frames \in Seq(Frames) /\ Standpoint
  BY DEF StrictInv, WalkInv
<1>3. CASE Kind(tokens, Here) \notin Accepts(Standing)
  BY <1>1, <1>3, TokenRejected, WalkRefuses
<1>4. CASE Kind(tokens, Here) \in Accepts(Standing)
  <2>1. /\ Standing \in {"topValue", "arrayStart", "arrayValue", "arrayComma",
                         "objectColon", "objectValue"}
        /\ Standing \in {"arrayStart", "arrayComma"} => More /\ ~Separated
        /\ Standing = "objectColon" => ~Separated
    <3>1. CASE frames = <<>>
      <4>1. ~Separated /\ Standing = tokenState /\ Place(tokens, frames, Here - 1, Standing)
        BY <3>1, WhereTokenLooks
      <4> QED BY <3>1, <4>1 DEF Place
    <3>2. CASE frames # <<>>
      <4>1. \/ tokenState \in {"arrayStart", "arrayComma"} /\ More
            \/ tokenState = "objectColon"
        BY <1>1, <1>2, <3>2 DEF Standpoint
      <4> QED BY <4>1 DEF Standing, Separated
    <3> QED BY <3>1, <3>2
  <2>2. Kind(tokens, Here) \notin {"]", ",", ":"} \/ Kind(tokens, Here) \in ValueStarts
    <3>1. Standing \in {"arrayStart", "arrayComma"} => Kind(tokens, Here) \notin Closers
      BY <2>1, MoreHere
    <3>2. Standing = "arrayComma" => Kind(tokens, Here) # ","
      BY <2>1 DEF Separated, Here, Standing
    <3>3. Standing = "objectColon" => Kind(tokens, Here) # ":"
      BY <2>1 DEF Separated, Here, Standing
    <3> QED BY <1>4, <2>1, <3>1, <3>2, <3>3 DEF Accepts, Closers, ValueStarts
  <2>3. /\ Kind(tokens, Here) \in ValueStarts
        /\ Standing \in {"topValue", "arrayStart", "arrayValue", "objectValue"}
    BY <1>4, <2>1, <2>2 DEF Accepts, ValueStarts
  <2>4. Kind(tokens, Here) \in Openers /\ Len(frames) + 1 > maxJSONContainerDepth
    BY <1>1, <2>3 DEF ReadsValue, ValueAllowed, Opens, ValueStarts, Openers
  <2> DEFINE n == Here - 1
  <2>5. n \in Nat /\ Here = n + 1 /\ Place(tokens, frames, n, Standing)
    BY WhereTokenLooks
  <2> HIDE DEF n
  <2>6. ~Shallow(tokens)
    <3>1. Kind(tokens, n + 1) \in Openers
      BY <2>4, <2>5
    <3> QED BY <1>2, <2>4, <2>5, <3>1, TooDeep
  <2> QED BY <1>1, <2>6, WalkRefuses
<1> QED BY <1>3, <1>4

\* No string, or one that the object has had.
LEMMA NameRefusedStep ==
    ASSUME StrictInv, NameRefused
    PROVE  StrictInv'
<1>1. stage = "more" /\ More /\ Frame.delimiter = "{" /\ ~FreshName /\ Refuse
  BY DEF NameRefused
<1>2. /\ frames \in Seq(Frames) /\ frames # <<>> /\ Frame = frames[Len(frames)]
      /\ tokens \in Seq(Tokens)
  BY <1>1, LoopHeadState DEF StrictInv, ScanInv, ScanType, tokens
<1>3. CASE Kind(tokens, Here) \notin Accepts(Standing)
  BY <1>1, <1>3, TokenRejected, WalkRefuses
<1>4. CASE Kind(tokens, Here) \in Accepts(Standing)
  <2>1. /\ Standing \in {"objectStart", "objectKey", "objectComma"}
        /\ Standing \in {"objectStart", "objectComma"} => ~Separated /\ Standing = tokenState
    BY <1>1, NameStanding
  <2>2. Standing \in {"objectStart", "objectComma"} => Kind(tokens, Here) \notin Closers
    BY <1>1, <2>1, MoreHere
  <2>3. Standing = "objectComma" => Kind(tokens, Here) # ","
    BY <2>1 DEF Separated, Here
  <2>4. Kind(tokens, Here) = "string" /\ Standing \in {"objectStart", "objectKey"}
    BY <1>4, <2>1, <2>2, <2>3 DEF Accepts, Closers
  <2>5. tokens[Here].word \in frames[Len(frames)].names
    BY <1>1, <1>2, <2>4 DEF FreshName, ReadsName
  <2> DEFINE n == Here - 1
  <2>6. n \in Nat /\ Here = n + 1 /\ Place(tokens, frames, n, Standing)
    BY WhereTokenLooks
  <2> HIDE DEF n
  <2>7. ~NamesDiffer(tokens)
    <3>1. /\ Kind(tokens, n + 1) = "string"
          /\ tokens[n + 1].word \in frames[Len(frames)].names
      BY <2>4, <2>5, <2>6
    <3> QED BY <1>2, <2>4, <2>6, <3>1, NamedTwice
  <2> QED BY <1>1, <2>7, WalkRefuses
<1> QED BY <1>3, <1>4

\* Another bracket than the one that closes, or the end of the text.
LEMMA CloseRefusedStep ==
    ASSUME StrictInv, CloseRefused
    PROVE  StrictInv'
<1>1. /\ stage = "more" /\ ~More /\ ~(Closes /\ Kind(tokens, Here) = Closing) /\ Refuse
  BY DEF CloseRefused
<1>2. Kind(tokens, next + 1) \in Closers \cup {"end"}
  BY <1>1 DEF More
<1>3. ~Separated
  BY <1>2 DEF Separated, Closers
<1>4. Here = next + 1 /\ Standing = tokenState
  BY <1>3 DEF Here, Standing
<1>5. /\ Frame.delimiter \in Openers
      /\ Frame.delimiter = "[" => Standing \in {"arrayStart", "arrayComma"}
      /\ Frame.delimiter = "{" => Standing \in {"objectStart", "objectComma"}
  BY <1>1, <1>4, LoopHeadState
<1>6. Kind(tokens, Here) \notin Accepts(Standing)
  <2>1. CASE Frame.delimiter = "["
    BY <1>1, <1>2, <1>4, <1>5, <2>1 DEF Closes, Closing, Accepts, Closers, ValueStarts
  <2>2. CASE Frame.delimiter = "{"
    BY <1>1, <1>2, <1>4, <1>5, <2>2 DEF Closes, Closing, Accepts, Closers
  <2> QED BY <1>5, <2>1, <2>2 DEF Openers
<1> QED BY <1>1, <1>6, TokenRejected, WalkRefuses

\* The end of the text, or something after the value.
LEMMA TrailingStep ==
    ASSUME StrictInv, Trailing
    PROVE  StrictInv'
<1>1. stage = "trailing" /\ ((AtEnd /\ Accept) \/ (~AtEnd /\ Refuse))
  <2>1. stage = "trailing" /\ IF AtEnd THEN Accept ELSE Refuse
    BY DEF Trailing
  <2> QED BY <2>1, Zenon
<1>2. /\ frames = <<>> /\ next \in 1 .. Len(tokens) /\ Valid(bytes)
      /\ Place(tokens, <<>>, next, tokenState)
  BY <1>1 DEF StrictInv, WalkInv, Standpoint
<1>3. Here = next + 1
  BY <1>2, WhereTokenLooks
<1>4. tokens \in Seq(Tokens)
  BY DEF StrictInv, ScanInv, ScanType, tokens
<1>5. CASE AtEnd /\ Accept
  <2>1. Kind(tokens, next + 1) = "end"
    BY <1>3, <1>5 DEF AtEnd
  <2>2. OneValue(tokens) /\ NamesDiffer(tokens) /\ Shallow(tokens)
    BY <1>2, <1>4, <2>1, WholeText
  <2>3. stage' = "accepted" /\ UNCHANGED <<text, scanVars>> /\ UNCHANGED walkVars
    BY <1>5 DEF Accept
  <2>4. /\ ScanInv' /\ tokens' = tokens /\ bytes' = bytes
        /\ text \in PairedTexts /\ text \in Texts /\ text' = text
    BY <1>1, <2>3, WalkKeepsScan DEF StrictInv
  <2>5. WalkInv'
    BY <1>2, <2>3, <2>4 DEF StrictInv, WalkInv, Standpoint, walkVars
  <2>6. text \in StrictTexts
    BY <1>2, <2>2, <2>4 DEF StrictTexts, tokens, bytes
  <2>7. StrictExactly'
    BY <2>3, <2>4, <2>6 DEF StrictExactly
  <2> QED BY <2>4, <2>5, <2>7 DEF StrictInv
<1>6. CASE ~AtEnd /\ Refuse
  <2>1. Kind(tokens, next + 1) # "end"
    BY <1>3, <1>6 DEF AtEnd
  <2>2. ~OneValue(tokens)
    BY <1>2, <1>4, <2>1, MoreThanOne
  <2> QED BY <1>1, <1>6, <2>2, WalkRefuses
<1> QED BY <1>1, <1>5, <1>6

\* Before the walk nothing of it has changed.
LEMMA WalkNotBegun ==
    ASSUME WalkInv, stage \in {"idle", "scan"}, walkVars' = walkVars,
           stage' \in {"idle", "scan", "value", "refused"},
           stage' # "refused" => Valid(bytes)'
    PROVE  WalkInv'
<1>1. /\ next = 0 /\ frames = <<>> /\ tokenStack \in Seq(DecoderStates)
      /\ Len(tokenStack) = 0 /\ tokenState = "topValue"
  BY DEF WalkInv, Standpoint, Place, Stacked
<1>2. /\ next' = 0 /\ frames' = <<>> /\ tokenStack' = tokenStack /\ tokenState' = "topValue"
  BY <1>1 DEF walkVars
<1>3. Place(tokens', <<>>, 0, "topValue")
  BY PlaceStart
<1>4. Stacked(frames', tokenStack')
  BY <1>1, <1>2 DEF Stacked
<1>5. 0 \in 0 .. Len(tokens')
  BY DEF tokens
<1> QED BY <1>2, <1>3, <1>4, <1>5 DEF WalkInv, Standpoint

\* A text handed to the validator.
LEMMA BeginStep ==
    ASSUME StrictInv, NEW t \in Texts, Begin(t)
    PROVE  StrictInv'
<1>1. /\ stage = "idle" /\ text' = t /\ index' = index /\ inString' = inString
      /\ walkVars' = walkVars /\ bytes' = t.bytes
      /\ stage' = IF Valid(t.bytes) THEN "scan" ELSE "refused"
  BY DEF Begin, scanVars, bytes
<1>2. t \in [bytes : Seq(ByteClasses), tokens : Seq(Tokens)]
  BY TextsAssumption
<1>3. index = 0 /\ ~inString /\ inString \in BOOLEAN
  BY <1>1 DEF StrictInv, ScanInv, ScanType
<1>4. ScanType'
  BY <1>1, <1>2, <1>3 DEF ScanType, Stages
<1>5. InStep'
  <2>1. Reading(t.bytes)[0] = Outside
    BY <1>2, ReadingSteps
  <2>2. bytes' = t.bytes /\ index' = 0 /\ inString' = FALSE
    BY <1>1, <1>3
  <2> QED BY <2>1, <2>2 DEF InStep
<1>6. SurrogatesExact'
  BY <1>1 DEF SurrogatesExact
<1>7. WalkInv'
  BY <1>1, WalkNotBegun DEF StrictInv
<1>8. StrictExactly'
  BY <1>1 DEF StrictExactly, StrictTexts
<1> QED BY <1>4, <1>5, <1>6, <1>7, <1>8 DEF StrictInv, ScanInv

\* A step of the scanner.
LEMMA ScanStep ==
    ASSUME StrictInv, Scan
    PROVE  StrictInv'
<1>1. /\ stage = "scan" /\ stage' \in {"scan", "value", "refused"}
      /\ text' = text /\ walkVars' = walkVars
      /\ stage' = "refused" => index' = index /\ index < Len(bytes)
  BY DEF Scan, ScanByte, ScanEscape, ScanUnicodeEscape, ScanPair, ScanRefused, ScanEnds,
         AtUnicodeEscape, AtEscape, Scanning, ScanTo, Refuse, scanVars
<1>2. ScanInv'
  BY ScanLockstep DEF StrictInv
<1>3. bytes' = bytes /\ Valid(bytes)
  BY <1>1 DEF StrictInv, WalkInv, bytes
<1>4. WalkInv'
  BY <1>1, <1>3, WalkNotBegun DEF StrictInv
<1>5. StrictExactly'
  <2>1. stage' = "refused" => text' \notin PairedTexts
    BY <1>1, <1>2, <1>3 DEF ScanInv, SurrogatesExact
  <2>2. PairedTexts' = PairedTexts /\ StrictTexts' = StrictTexts
    OBVIOUS
  <2> QED BY <1>1, <2>1 DEF StrictExactly, StrictTexts
<1> QED BY <1>2, <1>4, <1>5 DEF StrictInv

\* Every step of the validator preserves the invariant.
LEMMA StrictInvariance ==
    StrictInv /\ [StrictStep]_strictVars => StrictInv'
<1> SUFFICES ASSUME StrictInv, [StrictStep]_strictVars PROVE StrictInv'
  OBVIOUS
<1>1. CASE Scan
  BY <1>1, ScanStep
<1>2. CASE Walk
  BY <1>2, OpenStep, ScalarStep, ElementStep, MemberStep, CloseStep, ValueRefusedStep,
     NameRefusedStep, CloseRefusedStep, TrailingStep DEF Walk
<1>3. CASE \E t \in Texts : Begin(t)
  BY <1>3, BeginStep
<1>4. CASE UNCHANGED strictVars
  <2>1. /\ stage' = stage /\ text' = text /\ index' = index /\ inString' = inString
        /\ next' = next /\ tokenState' = tokenState /\ tokenStack' = tokenStack
        /\ frames' = frames
    BY <1>4 DEF strictVars, scanVars, walkVars
  <2>2. bytes' = bytes /\ tokens' = tokens
    BY <2>1 DEF bytes, tokens
  <2>3. ScanInv'
    BY <2>1, <2>2 DEF StrictInv, ScanInv, ScanType, InStep, SurrogatesExact
  <2>4. WalkInv'
    <3>1. More' <=> More
      BY <2>1, <2>2 DEF More
    <3> QED BY <2>1, <2>2, <3>1 DEF StrictInv, WalkInv, Standpoint
  <2>5. StrictExactly'
    BY <2>1 DEF StrictInv, StrictExactly
  <2> QED BY <2>3, <2>4, <2>5 DEF StrictInv
<1> QED BY <1>1, <1>2, <1>3, <1>4 DEF StrictStep, StrictNext

\* The invariant holds before a text is handed over.
LEMMA StrictStarts == StrictIdle => StrictInv
<1> SUFFICES ASSUME StrictIdle PROVE StrictInv
  OBVIOUS
<1>1. /\ stage = "idle" /\ text = EmptyText /\ index = 0 /\ inString = FALSE
      /\ next = 0 /\ tokenState = "topValue" /\ tokenStack = <<>> /\ frames = <<>>
  BY DEF StrictIdle
<1>2. bytes = <<>> /\ tokens = <<>>
  BY <1>1 DEF bytes, tokens, EmptyText
<1>3. ScanInv
  <2>1. text \in [bytes : Seq(ByteClasses), tokens : Seq(Tokens)]
    BY <1>1 DEF EmptyText
  <2>2. index \in 0 .. Len(bytes)
    BY <1>1, <1>2
  <2>3. ScanType
    BY <1>1, <2>1, <2>2 DEF ScanType, Stages
  <2> QED BY <1>1, <2>3 DEF ScanInv, InStep, SurrogatesExact
<1>4. Place(tokens, frames, next, tokenState)
  BY <1>1, PlaceStart
<1>5. WalkInv
  BY <1>1, <1>2, <1>4 DEF WalkInv, Standpoint, Stacked
<1> QED BY <1>1, <1>3, <1>5 DEF StrictInv, StrictExactly

\* The invariant holds in every reachable state of the validator.
THEOREM StrictInvariant == StrictBehavior => []StrictInv
  BY StrictStarts, StrictInvariance, PTL DEF StrictBehavior

-----------------------------------------------------------------------------
(***************************************************************************)
(* What holds of Execute.                                                  *)
(***************************************************************************)
\* Parsing a request is reading its body, for whoever sees only the body.
THEOREM ReaderRefined == ParsingSpec => Spec
<1>1. ParsingInit => Init
  BY DEF ParsingInit
<1>2. [ParsingNext]_parsingVars => [Next \/ Returned]_vars
  BY DEF ParsingNext, ReadBody, Validate, CheckDocument, Parsed, parsingVars
<1> QED BY <1>1, <1>2, PTL DEF ParsingSpec, Spec

\* And it is validating one document, for whoever sees only the document.
THEOREM ValidatorRefined == ParsingSpec => StrictBehavior
<1>1. ParsingInit => StrictIdle
  BY DEF ParsingInit
<1>2. [ParsingNext]_parsingVars => [StrictStep]_strictVars
  BY DEF ParsingNext, ReadBody, Validate, CheckDocument, Parsed, parsingVars, StrictStep, Bodies
<1> QED BY <1>1, <1>2, PTL DEF ParsingSpec, StrictBehavior

\* The verdict of validateStrictDocument is exact whatever the texts and the depth.
THEOREM StrictExactlyHolds == ParsingSpec => []StrictExactly
<1>1. StrictInv => StrictExactly
  BY DEF StrictInv
<1> QED BY <1>1, ValidatorRefined, StrictInvariant, PTL

\* hasValidSurrogateEscapes agrees with the byte-by-byte reader on every text.
THEOREM SurrogatesExactHolds == ParsingSpec => []SurrogatesExact
<1>1. StrictInv => SurrogatesExact
  BY DEF StrictInv, ScanInv
<1> QED BY <1>1, ValidatorRefined, StrictInvariant, PTL

\* The depth of the recursion of walkJSONValue never exceeds the bound.
DepthBounded == depth <= maxJSONContainerDepth

\* The recursion is as deep as the nesting of the text read so far, and no deeper
\* than maxJSONContainerDepth, whatever the text: the stack is bounded.
THEOREM DepthBoundedHolds == ParsingSpec => []DepthBounded
<1>1. StrictInv => DepthBounded
  <2> SUFFICES ASSUME StrictInv PROVE DepthBounded
    OBVIOUS
  <2>1. next \in Nat /\ Place(tokens, frames, next, tokenState)
    BY DEF StrictInv, WalkInv
  <2>2. Len(frames) = Level(tokens, next)
    BY <2>1 DEF Place, Nesting
  <2>3. Level(tokens, next) <= maxJSONContainerDepth
    BY <2>1, LevelBounded
  <2> QED BY <2>2, <2>3 DEF DepthBounded, depth
<1> QED BY <1>1, ValidatorRefined, StrictInvariant, PTL

\* A document under validation is a body read to its end and within the limit.
WholeBody ==
    stage # "idle" =>
        /\ result = "complete" /\ lastErr = "EOF"
        /\ Len(bytes) = delivered /\ delivered <= MaxRequestBodyBytes

\* No verdict is given on a part of a body: what is validated is every byte the
\* reader delivered, however it cut the body up.
THEOREM WholeBodyHolds == ParsingSpec => []WholeBody
<1> DEFINE Read == stage # "idle" => result = "complete" /\ Len(bytes) = length
<1>1. ParsingInit => Read
  BY DEF ParsingInit, StrictIdle
<1>2. Read /\ StrictInv /\ [ParsingNext]_parsingVars => Read'
  <2> SUFFICES ASSUME Read, StrictInv, [ParsingNext]_parsingVars PROVE Read'
    OBVIOUS
  <2>1. CASE ReadBody
    <3>1. result = "none" /\ UNCHANGED <<stage, text>>
      BY <2>1 DEF ReadBody, Next, Iterate, strictVars
    <3> QED BY <3>1 DEF bytes
  <2>2. CASE Validate
    BY <2>2 DEF Validate, Begin, vars, bytes
  <2>3. CASE CheckDocument
    <3>1. /\ result' = result /\ length' = length /\ text' = text
      BY <2>3
      DEF CheckDocument, vars, StrictNext, Scan, ScanByte, ScanEscape, ScanUnicodeEscape,
          ScanPair, ScanRefused, ScanEnds, ScanTo, Refuse, Walk, OpenContainer, ReadScalar,
          NextElement, NextMember, CloseContainer, ValueRefused, NameRefused, CloseRefused,
          Trailing, Accept
    <3>2. stage # "idle"
      BY <2>3
      DEF CheckDocument, StrictNext, Scan, ScanByte, ScanEscape, ScanUnicodeEscape,
          ScanPair, ScanRefused, ScanEnds, Scanning, AtEscape, AtUnicodeEscape,
          Walk, OpenContainer, ReadScalar, NextElement, NextMember, CloseContainer,
          ValueRefused, NameRefused, CloseRefused, Trailing
    <3> QED BY <3>1, <3>2 DEF bytes
  <2>4. CASE Parsed \/ UNCHANGED parsingVars
    BY <2>4 DEF Parsed, parsingVars, vars, strictVars, bytes
  <2> QED BY <2>1, <2>2, <2>3, <2>4 DEF ParsingNext
<1>3. Read /\ ExactLimit => WholeBody
  BY DEF WholeBody, ExactLimit
<1> QED BY <1>1, <1>2, <1>3, ReaderRefined, ValidatorRefined, StrictInvariant,
           ExactLimitHolds, PTL DEF ParsingSpec
=============================================================================
