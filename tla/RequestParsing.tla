--------------------------- MODULE RequestParsing ---------------------------
(***************************************************************************)
(* What Execute of gateway/internal/modelturn/executor.go does first:       *)
(* readRequestBody, then validateStrictDocument on the bytes it returned.   *)
(***************************************************************************)
EXTENDS BodyReader, StrictDocument

parsingVars == <<vars, strictVars>>

ParsingInit == Init /\ StrictIdle

ReadBody == Next /\ UNCHANGED strictVars

\* What a body within the limit may spell.
Bodies == {t \in Texts : Len(t.bytes) <= MaxRequestBodyBytes}

\* A complete body is some text of its length.
Validate ==
    /\ result = "complete"
    /\ \E t \in Bodies : Len(t.bytes) = length /\ Begin(t)
    /\ UNCHANGED vars

CheckDocument == StrictNext /\ UNCHANGED vars

\* The body could not be read, or the verdict is out.
Parsed ==
    /\ result \notin {"none", "complete"} \/ stage \in {"accepted", "refused"}
    /\ UNCHANGED parsingVars

ParsingNext == ReadBody \/ Validate \/ CheckDocument \/ Parsed

ParsingSpec == ParsingInit /\ [][ParsingNext]_parsingVars
=============================================================================
