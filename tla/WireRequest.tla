---------------------------- MODULE WireRequest -----------------------------
(***************************************************************************)
(* gateway/internal/modelturn/request.go: from the members of a strict JSON *)
(* document to a provider request.                                         *)
(*                                                                         *)
(* A JSON value is a record tagged by `type'; a decoder of it returns the   *)
(* set of what it decoded, empty when the Go function answers ok = false.    *)
(***************************************************************************)
EXTENDS Provider

CONSTANT maxIdentifierBytes   \* 128 in the source

ASSUME WireAssumption == maxIdentifierBytes \in Nat \ {0}

String(text) == [type |-> "string", text |-> text]
Array(items) == [type |-> "array", items |-> items]
Object(members) == [type |-> "object", members |-> members]
OtherValue == [type |-> "other"]

\* What a strict document decodes to, as deep as a request goes: its strings are
\* UTF-8, its arrays sequences.
StringFormed(value) ==
    value.type = "string" => value.text.chars \in Seq(CharClasses \ {"invalid"})
ItemFormed(value) ==
    /\ StringFormed(value)
    /\ value.type = "object" =>
         \A f \in DOMAIN value.members : StringFormed(value.members[f])
FieldFormed(value) ==
    /\ StringFormed(value)
    /\ value.type = "array" =>
         /\ Len(value.items) \in Nat
         /\ value.items = [i \in 1 .. Len(value.items) |-> value.items[i]]
         /\ \A i \in DOMAIN value.items : ItemFormed(value.items[i])
Formed(value) ==
    value.type = "object" => \A f \in DOMAIN value.members : FieldFormed(value.members[f])

\* What indexing the map of members yields; a missing one decodes as nothing.
Member(object, field) ==
    IF field \in DOMAIN object THEN object[field] ELSE OtherValue

decodeString(value) == IF value.type = "string" THEN {value.text} ELSE {}
decodeArray(value) == IF value.type = "array" THEN {value.items} ELSE {}
decodeObject(value) == IF value.type = "object" THEN {value.members} ELSE {}

hasExactFields(object, fields) == DOMAIN object = fields

\* Only single-byte characters pass, so counting characters counts bytes.
validIdentifier(text) ==
    /\ Len(text.chars) \in 1 .. maxIdentifierBytes
    /\ text.chars[1] = "alnum"
    /\ \A i \in DOMAIN text.chars : text.chars[i] \in {"alnum", "mark"}

MutScalarTextNoMaximum(text, minimum, maximum, rejectControls) ==
    /\ \A i \in DOMAIN text.chars :
          /\ text.chars[i] # "invalid"
          /\ ~(rejectControls /\ text.chars[i] = "unsafe")
    /\ Len(text.chars) >= minimum

\* The text is walked character by character and left at the first bad one.
validScalarText(text, minimum, maximum, rejectControls) ==
    /\ \A i \in DOMAIN text.chars :
          /\ text.chars[i] # "invalid"
          /\ i <= maximum
          /\ ~(rejectControls /\ text.chars[i] = "unsafe")
    /\ Len(text.chars) >= minimum

-----------------------------------------------------------------------------
safeRequestID(root) ==
    {id \in decodeString(Member(root, "request_id")) : validIdentifier(id)}

ValidMessage(object) ==
    /\ hasExactFields(object, {"role", "content"})
    /\ \E role \in decodeString(object["role"]) : role.word \in {"user", "assistant"}
    /\ \E content \in decodeString(object["content"]) :
          validScalarText(content, 1, MaxMessageTextRunes, FALSE)

decodeWireMessage(value) ==
    {[role |-> object["role"].text.word, content |-> object["content"].text] :
        object \in {o \in decodeObject(value) : ValidMessage(o)}}

ValidInstruction(object) ==
    /\ hasExactFields(object, {"source", "content"})
    /\ \E source \in decodeString(object["source"]) :
          validScalarText(source, 1, MaxInstructionSourceRunes, TRUE)
    /\ \E content \in decodeString(object["content"]) :
          validScalarText(content, 1, MaxInstructionTextRunes, FALSE)

decodeWireInstruction(value) ==
    {[source |-> object["source"].text, content |-> object["content"].text] :
        object \in {o \in decodeObject(value) : ValidInstruction(o)}}

\* A capability is compared with the one spelling there is.
decodeCapability(value) ==
    {c.word : c \in {t \in decodeString(value) : t.word = "tool_calls"}}

RequestFields == {"version", "kind", "request_id", "model_alias", "conversation",
                  "instructions", "required_capabilities"}

\* The fixed fields of the request.
ValidEnvelope(root) ==
    /\ hasExactFields(root, RequestFields)
    /\ \E version \in decodeString(root["version"]) : version.word = "v1"
    /\ \E kind \in decodeString(root["kind"]) : kind.word = "model_turn.request"
    /\ \E id \in decodeString(root["request_id"]) : validIdentifier(id)
    /\ \E alias \in decodeString(root["model_alias"]) : validIdentifier(alias)

\* The items of an array of an allowed length.
boundedArray(value, lo, hi) ==
    {items \in decodeArray(value) : Len(items) \in lo .. hi}

\* From what each item decodes to, the whole list: one bad item spoils it.
Collected(decoded) ==
    IF \E i \in DOMAIN decoded : decoded[i] = {} THEN {}
    ELSE {[i \in DOMAIN decoded |-> CHOOSE item \in decoded[i] : TRUE]}

decodeConversation(value) ==
    UNION {Collected([i \in DOMAIN items |-> decodeWireMessage(items[i])]) :
              items \in boundedArray(value, 1, MaxConversationMessages)}

decodeInstructions(value) ==
    UNION {Collected([i \in DOMAIN items |-> decodeWireInstruction(items[i])]) :
              items \in boundedArray(value, 0, MaxInstructions)}

decodeCapabilities(value) ==
    UNION {Collected([i \in DOMAIN items |-> decodeCapability(items[i])]) :
              items \in boundedArray(value, 0, MaxRequiredCapabilities)}

decodeWireRequest(root) ==
    IF ValidEnvelope(root)
    THEN {[requestID |-> root["request_id"].text, modelAlias |-> root["model_alias"].text,
           conversation |-> conversation, instructions |-> instructions,
           requiredCapabilities |-> capabilities] :
             conversation \in decodeConversation(root["conversation"]),
             instructions \in decodeInstructions(root["instructions"]),
             capabilities \in decodeCapabilities(root["required_capabilities"])}
    ELSE {}

MutMapProviderRequestReversed(request) ==
    IF /\ Len(request.conversation) \in 1 .. MaxConversationMessages
       /\ Len(request.instructions) <= MaxInstructions
       /\ request.requiredCapabilities = << >>
    THEN NewRequest([i \in DOMAIN request.conversation |->
                        request.conversation[Len(request.conversation) + 1 - i]],
                    request.instructions, << >>)
    ELSE {}

mapProviderRequest(request) ==
    IF /\ Len(request.conversation) \in 1 .. MaxConversationMessages
       /\ Len(request.instructions) <= MaxInstructions
       /\ request.requiredCapabilities = << >>
    THEN NewRequest(request.conversation, request.instructions, << >>)
    ELSE {}
=============================================================================
