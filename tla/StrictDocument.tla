--------------------------- MODULE StrictDocument ---------------------------
(***************************************************************************)
(* validateStrictDocument of gateway/internal/modelturn/parse.go: UTF-8,    *)
(* the scan for unpaired surrogate escapes, and walkJSONValue over the      *)
(* tokens of a json.Decoder.                                               *)
(*                                                                         *)
(* A text is its bytes, kept by class, and the tokens the decoder's lexer   *)
(* cuts them into; `bad' is a piece of text that is no token, and `word' is *)
(* a string after its escapes are decoded.                                 *)
(***************************************************************************)
EXTENDS Integers, Sequences, FiniteSets

CONSTANTS maxJSONContainerDepth,   \* containers inside each other
          Texts                    \* what a body may spell

\* Hex digits by what tells surrogates apart: d; 8, 9, a, b; c, e, f; 0 to 7.
HexDigits == {"d", "8", "c", "0"}
ByteClasses == HexDigits \cup {"quote", "backslash", "u", "other", "invalid"}

Openers == {"{", "["}
Closers == {"}", "]"}
TokenKinds == Openers \cup Closers \cup {",", ":", "string", "scalar", "bad"}
Tokens == [kind : TokenKinds, word : STRING]

\* The source's bound is 16.
ASSUME DepthAssumption == maxJSONContainerDepth \in Nat
ASSUME TextsAssumption ==
    Texts \subseteq [bytes : Seq(ByteClasses), tokens : Seq(Tokens)]

VARIABLES stage,        \* where validateStrictDocument is, or its verdict
          text,         \* raw
          index,        \* bytes the surrogate scanner has consumed
          inString,     \* whether the scanner is between two quotes
          next,         \* tokens the decoder has consumed
          tokenState,   \* the decoder's expectation between two tokens
          tokenStack,   \* the expectations it returns to
          frames        \* the recursion of walkJSONValue, innermost last

scanVars == <<index, inString>>
walkVars == <<next, tokenState, tokenStack, frames>>
strictVars == <<stage, text, scanVars, walkVars>>

EmptyText == [bytes |-> <<>>, tokens |-> <<>>]

StrictIdle ==
    /\ stage = "idle"
    /\ text = EmptyText
    /\ index = 0
    /\ inString = FALSE
    /\ next = 0
    /\ tokenState = "topValue"
    /\ tokenStack = <<>>
    /\ frames = <<>>

\* utf8.Valid
Valid(bs) == \A n \in 1 .. Len(bs) : bs[n] # "invalid"

\* validateStrictDocument is called with t.
Begin(t) ==
    /\ stage = "idle"
    /\ text' = t
    /\ stage' = IF Valid(t.bytes) THEN "scan" ELSE "refused"
    /\ UNCHANGED <<scanVars, walkVars>>

-----------------------------------------------------------------------------
(***************************************************************************)
(* hasValidSurrogateEscapes.  Each action is one turn of its loop.          *)
(***************************************************************************)
bytes == text.bytes

\* decodeHexEscape answers: four hex digits after the first `start' bytes.
HexEscape(bs, start) ==
    start + 4 <= Len(bs) /\ \A k \in 1 .. 4 : bs[start + k] \in HexDigits

HighSurrogate(bs, start) == bs[start + 1] = "d" /\ bs[start + 2] = "8"
LowSurrogate(bs, start) == bs[start + 1] = "d" /\ bs[start + 2] \in {"c", "d"}

MutLowFollowsAnyEscape(bs, at) ==
    /\ at + 6 <= Len(bs)
    /\ bs[at + 1] = "backslash" /\ bs[at + 2] = "u"
    /\ HexEscape(bs, at + 2)

\* The escape of a low surrogate comes right after the first `at' bytes.
LowFollows(bs, at) ==
    /\ at + 6 <= Len(bs)
    /\ bs[at + 1] = "backslash" /\ bs[at + 2] = "u"
    /\ HexEscape(bs, at + 2) /\ LowSurrogate(bs, at + 2)

Scanning == stage = "scan" /\ index < Len(bytes)
AtEscape == Scanning /\ inString /\ bytes[index + 1] = "backslash"
AtUnicodeEscape ==
    AtEscape /\ index + 2 <= Len(bytes) /\ bytes[index + 2] = "u"

ScanTo(n) == index' = n /\ UNCHANGED <<stage, text, walkVars>>

ScanByte ==
    /\ Scanning /\ ~AtEscape
    /\ inString' = IF bytes[index + 1] = "quote" THEN ~inString ELSE inString
    /\ ScanTo(index + 1)

ScanEscape ==
    /\ AtEscape /\ index + 2 <= Len(bytes) /\ bytes[index + 2] # "u"
    /\ ScanTo(index + 2) /\ UNCHANGED inString

ScanUnicodeEscape ==
    /\ AtUnicodeEscape /\ HexEscape(bytes, index + 2)
    /\ ~HighSurrogate(bytes, index + 2) /\ ~LowSurrogate(bytes, index + 2)
    /\ ScanTo(index + 6) /\ UNCHANGED inString

ScanPair ==
    /\ AtUnicodeEscape /\ HexEscape(bytes, index + 2)
    /\ HighSurrogate(bytes, index + 2) /\ LowFollows(bytes, index + 6)
    /\ ScanTo(index + 12) /\ UNCHANGED inString

Refuse == stage' = "refused" /\ UNCHANGED <<text, scanVars, walkVars>>

\* The text ends inside the escape, its digits are not hexadecimal, or it is
\* half a pair.
ScanRefused ==
    /\ AtEscape
    /\ \/ index + 2 > Len(bytes)
       \/ /\ AtUnicodeEscape
          /\ \/ ~HexEscape(bytes, index + 2)
             \/ /\ HexEscape(bytes, index + 2)
                /\ \/ LowSurrogate(bytes, index + 2)
                   \/ /\ HighSurrogate(bytes, index + 2)
                      /\ ~LowFollows(bytes, index + 6)
    /\ Refuse

ScanEnds ==
    /\ stage = "scan" /\ index = Len(bytes)
    /\ stage' = "value"
    /\ UNCHANGED <<text, scanVars, walkVars>>

Scan == ScanByte \/ ScanEscape \/ ScanUnicodeEscape \/ ScanPair \/ ScanRefused \/ ScanEnds

-----------------------------------------------------------------------------
(***************************************************************************)
(* json.Decoder.Token and More.  Token skips at most one separator: after   *)
(* it, the decoder expects something else than a second one.               *)
(***************************************************************************)
tokens == text.tokens

Kind(ts, n) == IF n \in 1 .. Len(ts) THEN ts[n].kind ELSE "end"

\* More: the next byte, separators included, does not close a container.
More == Kind(tokens, next + 1) \notin Closers \cup {"end"}

Separated ==
    \/ Kind(tokens, next + 1) = "," /\ tokenState \in {"arrayComma", "objectComma"}
    \/ Kind(tokens, next + 1) = ":" /\ tokenState = "objectColon"

\* The token that Token looks at, and what the decoder expects there.
Here == IF Separated THEN next + 2 ELSE next + 1
Standing ==
    IF ~Separated THEN tokenState
    ELSE IF tokenState = "arrayComma" THEN "arrayValue"
    ELSE IF tokenState = "objectComma" THEN "objectKey"
    ELSE "objectValue"

\* tokenValueAllowed and tokenValueEnd
ValueAllowed == Standing \in {"topValue", "arrayStart", "arrayValue", "objectValue"}
ValueEnd(state) ==
    IF state \in {"arrayStart", "arrayValue"} THEN "arrayComma"
    ELSE IF state = "objectValue" THEN "objectComma"
    ELSE state

\* What Token returns without an error: an opening, a closing, a name or a value.
Opens == Kind(tokens, Here) \in Openers /\ ValueAllowed
Closes ==
    \/ Kind(tokens, Here) = "]" /\ Standing \in {"arrayStart", "arrayComma"}
    \/ Kind(tokens, Here) = "}" /\ Standing \in {"objectStart", "objectComma"}
ReadsName == Kind(tokens, Here) = "string" /\ Standing \in {"objectStart", "objectKey"}
ReadsValue == Kind(tokens, Here) \in {"string", "scalar"} /\ ValueAllowed

AfterScalar == IF ReadsName THEN "objectColon" ELSE ValueEnd(Standing)

-----------------------------------------------------------------------------
(***************************************************************************)
(* walkJSONValue, its recursion kept in `frames'.  `opened' is the place of *)
(* the opening token.                                                      *)
(***************************************************************************)
depth == Len(frames)
Frame == frames[depth]
Closing == IF Frame.delimiter = "[" THEN "]" ELSE "}"

\* Where the caller goes on when a value is complete.
Resumed(fs) == IF fs = <<>> THEN "trailing" ELSE "more"

MutOpenContainerOneDeeper ==
    /\ stage = "value" /\ Opens /\ depth <= maxJSONContainerDepth
    /\ next' = Here
    /\ tokenStack' = Append(tokenStack, Standing)
    /\ tokenState' = IF Kind(tokens, Here) = "[" THEN "arrayStart" ELSE "objectStart"
    /\ frames' = Append(frames, [delimiter |-> Kind(tokens, Here),
                                 names |-> {}, opened |-> Here])
    /\ stage' = "more"
    /\ UNCHANGED <<text, scanVars>>

OpenContainer ==
    /\ stage = "value" /\ Opens /\ depth + 1 <= maxJSONContainerDepth
    /\ next' = Here
    /\ tokenStack' = Append(tokenStack, Standing)
    /\ tokenState' = IF Kind(tokens, Here) = "[" THEN "arrayStart" ELSE "objectStart"
    /\ frames' = Append(frames, [delimiter |-> Kind(tokens, Here),
                                 names |-> {}, opened |-> Here])
    /\ stage' = "more"
    /\ UNCHANGED <<text, scanVars>>

ReadScalar ==
    /\ stage = "value" /\ (ReadsName \/ ReadsValue)
    /\ next' = Here
    /\ tokenState' = AfterScalar
    /\ stage' = Resumed(frames)
    /\ UNCHANGED <<text, scanVars, tokenStack, frames>>

\* The head of the loop of an array: another element.
NextElement ==
    /\ stage = "more" /\ More /\ Frame.delimiter = "["
    /\ stage' = "value"
    /\ UNCHANGED <<text, scanVars, walkVars>>

\* The head of the loop of an object: a string that is no name of it yet.
FreshName ==
    /\ ReadsName \/ ReadsValue
    /\ Kind(tokens, Here) = "string"
    /\ tokens[Here].word \notin Frame.names

NextMember ==
    /\ stage = "more" /\ More /\ Frame.delimiter = "{" /\ FreshName
    /\ next' = Here
    /\ tokenState' = AfterScalar
    /\ frames' = [frames EXCEPT ![depth].names = @ \cup {tokens[Here].word}]
    /\ stage' = "value"
    /\ UNCHANGED <<text, scanVars, tokenStack>>

CloseContainer ==
    /\ stage = "more" /\ ~More /\ Closes /\ Kind(tokens, Here) = Closing
    /\ next' = Here
    /\ frames' = SubSeq(frames, 1, depth - 1)
    /\ tokenStack' = SubSeq(tokenStack, 1, Len(tokenStack) - 1)
    /\ tokenState' = ValueEnd(tokenStack[Len(tokenStack)])
    /\ stage' = Resumed(frames')
    /\ UNCHANGED <<text, scanVars>>

\* Every other outcome of a call of Token.
ValueRefused ==
    /\ stage = "value" /\ ~ReadsName /\ ~ReadsValue
    /\ ~Opens \/ depth + 1 > maxJSONContainerDepth
    /\ Refuse
NameRefused == stage = "more" /\ More /\ Frame.delimiter = "{" /\ ~FreshName /\ Refuse
CloseRefused ==
    stage = "more" /\ ~More /\ ~(Closes /\ Kind(tokens, Here) = Closing) /\ Refuse

\* validateStrictDocument asks for one token more, which must be io.EOF.
AtEnd == Kind(tokens, Here) = "end"
Accept == stage' = "accepted" /\ UNCHANGED <<text, scanVars, walkVars>>
Trailing == stage = "trailing" /\ IF AtEnd THEN Accept ELSE Refuse

Walk ==
    \/ OpenContainer \/ ReadScalar \/ NextElement \/ NextMember \/ CloseContainer
    \/ ValueRefused \/ NameRefused \/ CloseRefused \/ Trailing

StrictNext == Scan \/ Walk

-----------------------------------------------------------------------------
(***************************************************************************)
(* What a strict document is, said without a decoder.  Brackets are counted *)
(* for nesting; what may stand at a place follows from the innermost open   *)
(* container and the token before.                                         *)
(***************************************************************************)
Level(ts, n) == Cardinality({k \in 1 .. n : Kind(ts, k) \in Openers})
              - Cardinality({k \in 1 .. n : Kind(ts, k) \in Closers})

\* After n tokens, the container opened by token i is the innermost open one.
Inside(ts, i, n) ==
    /\ i \in 1 .. n /\ Kind(ts, i) \in Openers
    /\ Level(ts, n) = Level(ts, i)
    /\ \A k \in i .. n : Level(ts, k) >= Level(ts, i)

\* Token n is the name of a member of the object opened by token i.
NameIn(ts, i, n) ==
    /\ Kind(ts, n) = "string" /\ Kind(ts, i) = "{" /\ Inside(ts, i, n - 1)
    /\ i = n - 1 \/ Kind(ts, n - 1) = ","

ValueStarts == {"{", "[", "string", "scalar"}

\* What may come after n tokens when token i opened the innermost container.
Follows(ts, i, n) ==
    IF Kind(ts, i) = "["
    THEN IF n = i THEN ValueStarts \cup {"]"}
         ELSE IF Kind(ts, n) = "," THEN ValueStarts ELSE {",", "]"}
    ELSE IF n = i THEN {"string", "}"}
         ELSE IF Kind(ts, n) = "," THEN {"string"}
         ELSE IF Kind(ts, n) = ":" THEN ValueStarts
         ELSE IF NameIn(ts, i, n) THEN {":"} ELSE {",", "}"}

Fits(ts, n) ==
    \/ n = 1 /\ Kind(ts, n) \in ValueStarts
    \/ \E i \in 1 .. n - 1 :
         Inside(ts, i, n - 1) /\ Kind(ts, n) \in Follows(ts, i, n - 1)

\* One JSON value and nothing after it.
OneValue(ts) ==
    /\ Len(ts) >= 1 /\ Level(ts, Len(ts)) = 0
    /\ \A n \in 1 .. Len(ts) : Fits(ts, n)

NamesDiffer(ts) ==
    \A i, m, n \in 1 .. Len(ts) :
        m < n /\ NameIn(ts, i, m) /\ NameIn(ts, i, n) => ts[m].word # ts[n].word

Shallow(ts) == \A n \in 1 .. Len(ts) : Level(ts, n) <= maxJSONContainerDepth

(***************************************************************************)
(* Surrogate escapes, read one byte at a time: between quotes, an escape of *)
(* a high surrogate leaves a low one pending, and nothing else may come.    *)
(***************************************************************************)
Outside == [at |-> "text", digits |-> 0, half |-> "none", pending |-> FALSE]
Between(pending) == [Outside EXCEPT !.at = "string", !.pending = pending]
Escaping(pending) == [Outside EXCEPT !.at = "escape", !.pending = pending]
Broken == [Outside EXCEPT !.at = "broken"]

\* After n digits of an escape, which half of a pair they can still spell.
Digits(n, half, pending) == [at |-> "hex", digits |-> n, half |-> half, pending |-> pending]

HalfAfter(n, half, b) ==
    IF n = 0 THEN IF b = "d" THEN "either" ELSE "none"
    ELSE IF n = 1 /\ half = "either" THEN
         IF b = "8" THEN "high" ELSE IF b \in {"c", "d"} THEN "low" ELSE "none"
    ELSE half

AfterEscape(half, pending) ==
    IF half = "high" /\ ~pending THEN Between(TRUE)
    ELSE IF half = "low" /\ pending THEN Between(FALSE)
    ELSE IF half = "none" /\ ~pending THEN Between(FALSE)
    ELSE Broken

AfterByte(s, b) ==
    IF s.at = "text" THEN IF b = "quote" THEN Between(FALSE) ELSE Outside
    ELSE IF s.at = "string" THEN
         IF b = "backslash" THEN Escaping(s.pending)
         ELSE IF s.pending THEN Broken
         ELSE IF b = "quote" THEN Outside ELSE Between(FALSE)
    ELSE IF s.at = "escape" THEN
         IF b = "u" THEN Digits(0, "none", s.pending)
         ELSE IF s.pending THEN Broken ELSE Between(FALSE)
    ELSE IF s.at = "hex" /\ b \in HexDigits THEN
         IF s.digits < 3 THEN Digits(s.digits + 1, HalfAfter(s.digits, s.half, b), s.pending)
         ELSE AfterEscape(s.half, s.pending)
    ELSE Broken

Reading(bs) ==
    LET after[n \in 0 .. Len(bs)] ==
          IF n = 0 THEN Outside ELSE AfterByte(after[n - 1], bs[n])
    IN  after

Paired(bs) == Reading(bs)[Len(bs)] \in {Outside, Between(FALSE)}

PairedTexts == {t \in Texts : Paired(t.bytes)}
StrictTexts ==
    {t \in PairedTexts : /\ Valid(t.bytes) /\ OneValue(t.tokens)
                         /\ NamesDiffer(t.tokens) /\ Shallow(t.tokens)}

-----------------------------------------------------------------------------
(* The verdict is exact: accepted is one JSON value in valid UTF-8 with      *)
(* paired surrogates, no name twice in an object and no container too deep,  *)
(* whatever the tokens; refused is everything else.                         *)
StrictExactly ==
    /\ stage = "accepted" => text \in StrictTexts
    /\ stage = "refused" => text \notin StrictTexts

(* The scanner, which looks up to twelve bytes ahead and jumps over what it  *)
(* read, agrees with reading byte by byte: it reaches the end of the text    *)
(* exactly when every surrogate escape of every string has its other half.   *)
SurrogatesExact ==
    /\ stage \in {"value", "more", "trailing", "accepted"} =>
         index = Len(bytes) /\ text \in PairedTexts
    /\ stage = "refused" /\ Valid(bytes) /\ index < Len(bytes) => text \notin PairedTexts
=============================================================================
