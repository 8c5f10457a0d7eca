----------------------------- MODULE BodyReader -----------------------------
(***************************************************************************)
(* readRequestBody of gateway/internal/modelturn/parse.go: the loop that    *)
(* turns an untrusted io.Reader into at most MaxRequestBodyBytes bytes.     *)
(*                                                                         *)
(* The bytes themselves do not matter to the loop, so the slice `request'   *)
(* is its length and its capacity.  The reader is the environment: a call   *)
(* of Read may answer any byte count, those io.Reader forbids included,     *)
(* with any error.                                                         *)
(***************************************************************************)
EXTENDS Integers

CONSTANTS MaxRequestBodyBytes,    \* largest admitted body
          readBufferBytes,        \* size of the stack buffer and first capacity
          maxConsecutiveNoReads   \* empty reads in a row before giving up

\* The source's constants are 8 MiB, 32 KiB and 100.
ASSUME BoundsAssumption ==
    /\ MaxRequestBodyBytes \in Nat
    /\ readBufferBytes \in Nat \ {0}
    /\ maxConsecutiveNoReads \in Nat \ {0}
    /\ readBufferBytes <= MaxRequestBodyBytes + 1

VARIABLES length,        \* len(request)
          capacity,      \* cap(request)
          noReads,       \* consecutiveNoReads
          result,        \* what readRequestBody returned, "none" while it loops
          delivered,     \* history: bytes the reader handed over so far
          calls,         \* history: calls of Read so far
          progressAt,    \* history: the call that last delivered a byte
          lastErr        \* history: the error of the last call

vars == <<length, capacity, noReads, result, delivered, calls, progressAt, lastErr>>

maxRetainedBytes == MaxRequestBodyBytes + 1

ReadErrors == {"nil", "EOF", "failure"}

Results == {"none", "complete", "errRequestBodyTooLarge", "errReaderContract",
            "ErrNoProgress", "failure"}

Smaller(a, b) == IF a <= b THEN a ELSE b
Larger(a, b) == IF a >= b THEN a ELSE b

remaining == maxRetainedBytes - length
offered == Smaller(remaining, readBufferBytes)

\* Every byte count a Read of `offered' bytes may report; -1 and offered + 1
\* stand for the counts below and above what io.Reader allows.
ByteCounts == -1 .. offered + 1

Init ==
    /\ length = 0
    /\ capacity = readBufferBytes
    /\ noReads = 0
    /\ result = "none"
    /\ delivered = 0
    /\ calls = 0
    /\ progressAt = 0
    /\ lastErr = "nil"

-----------------------------------------------------------------------------
\* The two tests that close an iteration: EOF completes, another error fails.
EndOfIteration(err) ==
    IF err = "EOF" THEN "complete" ELSE IF err = "nil" THEN "none" ELSE "failure"

MutGrowUnclipped(needed) ==
    IF needed > capacity THEN Larger(needed, capacity * 2) ELSE capacity

\* The capacity after making room for `needed' bytes.
Grown(needed) ==
    IF needed > capacity
    THEN Smaller(maxRetainedBytes, Larger(needed, capacity * 2))
    ELSE capacity

\* The reader claims a negative count or more than it was offered.
BadCount(n, err) ==
    /\ n < 0 \/ n > offered
    /\ result' = "errReaderContract"
    /\ UNCHANGED <<length, capacity, noReads, delivered, progressAt>>

MutChunkRefusesAtLimit(n, err) ==
    /\ 0 < n /\ n <= offered
    /\ capacity' = Grown(length + n)
    /\ length' = length + n
    /\ noReads' = 0
    /\ delivered' = delivered + n
    /\ progressAt' = calls + 1
    /\ result' = IF length + n >= MaxRequestBodyBytes
                 THEN "errRequestBodyTooLarge"
                 ELSE EndOfIteration(err)

MutChunkKeepsCounter(n, err) ==
    /\ 0 < n /\ n <= offered
    /\ capacity' = Grown(length + n)
    /\ length' = length + n
    /\ delivered' = delivered + n
    /\ progressAt' = calls + 1
    /\ result' = IF length + n > MaxRequestBodyBytes
                 THEN "errRequestBodyTooLarge"
                 ELSE EndOfIteration(err)
    /\ UNCHANGED noReads

\* n > 0: grow, append, and refuse as soon as the limit is passed, whatever
\* the error that came with the bytes.
Chunk(n, err) ==
    /\ 0 < n /\ n <= offered
    /\ capacity' = Grown(length + n)
    /\ length' = length + n
    /\ noReads' = 0
    /\ delivered' = delivered + n
    /\ progressAt' = calls + 1
    /\ result' = IF length + n > MaxRequestBodyBytes
                 THEN "errRequestBodyTooLarge"
                 ELSE EndOfIteration(err)

MutEmptyReadUncounted(n, err) ==
    /\ n = 0
    /\ result' = EndOfIteration(err)
    /\ UNCHANGED <<length, capacity, noReads, delivered, progressAt>>

\* n = 0: an empty read without an error is tolerated a bounded number of times.
EmptyRead(n, err) ==
    /\ n = 0
    /\ noReads' = IF err = "nil" THEN noReads + 1 ELSE noReads
    /\ result' = IF err = "nil" /\ noReads' >= maxConsecutiveNoReads
                 THEN "ErrNoProgress"
                 ELSE EndOfIteration(err)
    /\ UNCHANGED <<length, capacity, delivered, progressAt>>

\* One iteration: the reader is not called when nothing may be retained.
Iterate(n, err) ==
    /\ result = "none"
    /\ IF remaining = 0
       THEN /\ result' = "errRequestBodyTooLarge"
            /\ UNCHANGED <<length, capacity, noReads, delivered, calls, progressAt, lastErr>>
       ELSE /\ calls' = calls + 1
            /\ lastErr' = err
            /\ BadCount(n, err) \/ Chunk(n, err) \/ EmptyRead(n, err)

Next == \E n \in ByteCounts, err \in ReadErrors : Iterate(n, err)

\* readRequestBody has returned.
Returned == result # "none" /\ UNCHANGED vars

Spec == Init /\ [][Next \/ Returned]_vars

-----------------------------------------------------------------------------
\* Types, and the ranges of the two counters.
TypeOK ==
    /\ length \in 0 .. maxRetainedBytes
    /\ capacity \in Nat
    /\ noReads \in 0 .. maxConsecutiveNoReads
    /\ result \in Results
    /\ delivered \in Nat
    /\ calls \in Nat
    /\ progressAt \in Nat
    /\ lastErr \in ReadErrors

(* The slice never holds, nor reserves, more than one byte past the limit,  *)
(* however the reader cuts the body up: memory stays bounded by the limit.   *)
RetainedBounded ==
    /\ length <= capacity
    /\ capacity <= maxRetainedBytes

(* The limit is exact and nothing is cut off silently: a returned body is    *)
(* every byte the reader delivered up to a real EOF and within the limit,    *)
(* and a body is called too large only when more than the limit arrived.     *)
ExactLimit ==
    /\ result = "complete" =>
         length = delivered /\ delivered <= MaxRequestBodyBytes /\ lastErr = "EOF"
    /\ result = "errRequestBodyTooLarge" => delivered > MaxRequestBodyBytes

(* While the loop runs there is always room to offer the reader, so Read is  *)
(* never called with an empty buffer and an endless body is always noticed.  *)
RoomToRead == result = "none" => offered >= 1

(* ErrNoProgress is reported only after maxConsecutiveNoReads calls in a row *)
(* delivered nothing: an isolated stall early in the body is forgiven.       *)
PatienceExact ==
    result = "ErrNoProgress" => calls - progressAt = maxConsecutiveNoReads

(* The loop ends whatever the reader answers: the number of calls of Read is *)
(* bounded by the limit and the patience.  With no deadlock, it follows that *)
(* readRequestBody returns whenever every Read does.                        *)
CallsBounded == calls <= maxRetainedBytes * maxConsecutiveNoReads
=============================================================================
