----------------------------- MODULE WireProofs ------------------------------
(***************************************************************************)
(* The wire decoder, the published schema and the constructor of the port    *)
(* agree on every formed document, whatever the bounds, and so on every      *)
(* document that edits of any length reach.  The proofs about the path of a *)
(* request rest on the same lemmas.                                         *)
(***************************************************************************)
EXTENDS WireAgreement, TLAPS

-----------------------------------------------------------------------------
(* The decoder and the schema, over every formed document.                  *)

\* The walk over a text, left at the first bad character, is a bound on it.
LEMMA ScalarText ==
    ASSUME NEW text, text.chars \in Seq(CharClasses \ {"invalid"}), NEW maximum \in Nat
    PROVE  /\ validScalarText(text, 1, maximum, FALSE) <=> Len(text.chars) \in 1 .. maximum
           /\ validScalarText(text, 1, maximum, TRUE) <=>
                /\ Len(text.chars) \in 1 .. maximum
                /\ \A i \in DOMAIN text.chars : text.chars[i] # "unsafe"
<1> DEFINE chars == text.chars
<1>1. /\ Len(chars) \in Nat /\ DOMAIN chars = 1 .. Len(chars)
      /\ \A i \in DOMAIN chars : chars[i] # "invalid"
  OBVIOUS
<1> HIDE DEF chars
<1>2. Len(chars) >= 1 => ((\A i \in DOMAIN chars : i <= maximum) <=> Len(chars) <= maximum)
  BY <1>1
<1> QED BY <1>1, <1>2 DEF validScalarText, chars

LEMMA IdentifierAgrees ==
    ASSUME NEW value
    PROVE  (\E id \in decodeString(value) : validIdentifier(id)) <=> IdentifierSchema(value)
BY DEF decodeString, validIdentifier, IdentifierSchema, HasLength, MatchesIdentifier

LEMMA MessageAgrees ==
    ASSUME NEW value, ItemFormed(value)
    PROVE  decodeWireMessage(value) # {} <=> MessageSchema(value)
<1> DEFINE members == value.members
<1>1. CASE value.type # "object"
  BY <1>1 DEF decodeWireMessage, decodeObject, MessageSchema, HasProperties
<1>2. CASE value.type = "object" /\ DOMAIN members # {"role", "content"}
  BY <1>2 DEF decodeWireMessage, decodeObject, ValidMessage, hasExactFields, MessageSchema,
     HasProperties
<1>3. CASE value.type = "object" /\ DOMAIN members = {"role", "content"}
  <2>1. decodeWireMessage(value) # {} <=> ValidMessage(members)
    BY <1>3 DEF decodeWireMessage, decodeObject
  <2>2. StringFormed(members["content"])
    BY <1>3 DEF ItemFormed
  <2>3. (\E content \in decodeString(members["content"]) :
            validScalarText(content, 1, MaxMessageTextRunes, FALSE))
          <=> HasLength(members["content"], 1, MaxMessageTextRunes)
    BY <2>2, ScalarText, ProviderAssumption DEF StringFormed, decodeString, HasLength
  <2>4. (\E role \in decodeString(members["role"]) : role.word \in {"user", "assistant"})
          <=> IsOneOf(members["role"], {"user", "assistant"})
    BY DEF decodeString, IsOneOf
  <2>5. ValidMessage(members) <=> MessageSchema(value)
    BY <1>3, <2>3, <2>4 DEF ValidMessage, hasExactFields, MessageSchema, HasProperties
  <2> QED BY <2>1, <2>5
<1> QED BY <1>1, <1>2, <1>3

LEMMA InstructionAgrees ==
    ASSUME NEW value, ItemFormed(value)
    PROVE  decodeWireInstruction(value) # {} <=> InstructionSchema(value)
<1> DEFINE members == value.members
<1>1. CASE value.type # "object"
  BY <1>1 DEF decodeWireInstruction, decodeObject, InstructionSchema, HasProperties
<1>2. CASE value.type = "object" /\ DOMAIN members # {"source", "content"}
  BY <1>2 DEF decodeWireInstruction, decodeObject, ValidInstruction, hasExactFields,
     InstructionSchema, HasProperties
<1>3. CASE value.type = "object" /\ DOMAIN members = {"source", "content"}
  <2>1. decodeWireInstruction(value) # {} <=> ValidInstruction(members)
    BY <1>3 DEF decodeWireInstruction, decodeObject
  <2>2. StringFormed(members["content"]) /\ StringFormed(members["source"])
    BY <1>3 DEF ItemFormed
  <2>3. (\E content \in decodeString(members["content"]) :
            validScalarText(content, 1, MaxInstructionTextRunes, FALSE))
          <=> HasLength(members["content"], 1, MaxInstructionTextRunes)
    BY <2>2, ScalarText, ProviderAssumption DEF StringFormed, decodeString, HasLength
  <2>4. (\E source \in decodeString(members["source"]) :
            validScalarText(source, 1, MaxInstructionSourceRunes, TRUE))
          <=> /\ HasLength(members["source"], 1, MaxInstructionSourceRunes)
              /\ MatchesSource(members["source"])
    <3>1. CASE members["source"].type = "string"
      <4>1. members["source"].text.chars \in Seq(CharClasses \ {"invalid"})
        BY <2>2, <3>1 DEF StringFormed
      <4>2. (\E source \in decodeString(members["source"]) :
                validScalarText(source, 1, MaxInstructionSourceRunes, TRUE))
              <=> validScalarText(members["source"].text, 1, MaxInstructionSourceRunes, TRUE)
        BY <3>1 DEF decodeString
      <4>3. Len(members["source"].text.chars) >= 1 => members["source"].text.chars # << >>
        BY <4>1
      <4>4. validScalarText(members["source"].text, 1, MaxInstructionSourceRunes, TRUE) <=>
              /\ Len(members["source"].text.chars) \in 1 .. MaxInstructionSourceRunes
              /\ \A i \in DOMAIN members["source"].text.chars :
                    members["source"].text.chars[i] # "unsafe"
        BY <4>1, ScalarText, ProviderAssumption
      <4>5. Len(members["source"].text.chars) \in 1 .. MaxInstructionSourceRunes =>
              Len(members["source"].text.chars) >= 1
        OBVIOUS
      <4> QED BY <3>1, <4>2, <4>3, <4>4, <4>5 DEF HasLength, MatchesSource
    <3>2. CASE members["source"].type # "string"
      BY <3>2 DEF decodeString, HasLength
    <3> QED BY <3>1, <3>2
  <2>5. ValidInstruction(members) <=> InstructionSchema(value)
    BY <1>3, <2>3, <2>4 DEF ValidInstruction, hasExactFields, InstructionSchema, HasProperties
  <2> QED BY <2>1, <2>5
<1> QED BY <1>1, <1>2, <1>3

LEMMA CapabilityAgrees ==
    ASSUME NEW value
    PROVE  decodeCapability(value) # {} <=> IsOneOf(value, {"tool_calls"})
BY DEF decodeCapability, decodeString, IsOneOf

LEMMA CollectedWhenAll ==
    ASSUME NEW decoded
    PROVE  Collected(decoded) # {} <=> \A i \in DOMAIN decoded : decoded[i] # {}
BY DEF Collected

LEMMA ConversationAgrees ==
    ASSUME NEW value, FieldFormed(value)
    PROVE  decodeConversation(value) # {} <=>
             /\ ItemsBetween(value, 1, MaxConversationMessages)
             /\ \A i \in DOMAIN value.items : MessageSchema(value.items[i])
<1>1. CASE ~ItemsBetween(value, 1, MaxConversationMessages)
  BY <1>1 DEF ItemsBetween, decodeConversation, boundedArray, decodeArray
<1>2. CASE ItemsBetween(value, 1, MaxConversationMessages)
  <2> DEFINE decoded == [i \in DOMAIN value.items |-> decodeWireMessage(value.items[i])]
  <2>1. decodeConversation(value) = Collected(decoded)
    BY <1>2 DEF ItemsBetween, decodeConversation, boundedArray, decodeArray
  <2>2. \A i \in DOMAIN value.items :
          decodeWireMessage(value.items[i]) # {} <=> MessageSchema(value.items[i])
    BY <1>2, MessageAgrees DEF ItemsBetween, FieldFormed
  <2>3. Collected(decoded) # {} <=> \A i \in DOMAIN decoded : decoded[i] # {}
    BY CollectedWhenAll
  <2> QED BY <1>2, <2>1, <2>2, <2>3
<1> QED BY <1>1, <1>2

LEMMA InstructionsAgree ==
    ASSUME NEW value, FieldFormed(value)
    PROVE  decodeInstructions(value) # {} <=>
             /\ ItemsBetween(value, 0, MaxInstructions)
             /\ \A i \in DOMAIN value.items : InstructionSchema(value.items[i])
<1>1. CASE ~ItemsBetween(value, 0, MaxInstructions)
  BY <1>1 DEF ItemsBetween, decodeInstructions, boundedArray, decodeArray
<1>2. CASE ItemsBetween(value, 0, MaxInstructions)
  <2> DEFINE decoded == [i \in DOMAIN value.items |-> decodeWireInstruction(value.items[i])]
  <2>1. decodeInstructions(value) = Collected(decoded)
    BY <1>2 DEF ItemsBetween, decodeInstructions, boundedArray, decodeArray
  <2>2. \A i \in DOMAIN value.items :
          decodeWireInstruction(value.items[i]) # {} <=> InstructionSchema(value.items[i])
    BY <1>2, InstructionAgrees DEF ItemsBetween, FieldFormed
  <2>3. Collected(decoded) # {} <=> \A i \in DOMAIN decoded : decoded[i] # {}
    BY CollectedWhenAll
  <2> QED BY <1>2, <2>1, <2>2, <2>3
<1> QED BY <1>1, <1>2

LEMMA CapabilitiesAgree ==
    ASSUME NEW value
    PROVE  decodeCapabilities(value) # {} <=>
             /\ ItemsBetween(value, 0, MaxRequiredCapabilities)
             /\ \A i \in DOMAIN value.items : IsOneOf(value.items[i], {"tool_calls"})
<1>1. CASE ~ItemsBetween(value, 0, MaxRequiredCapabilities)
  BY <1>1 DEF ItemsBetween, decodeCapabilities, boundedArray, decodeArray
<1>2. CASE ItemsBetween(value, 0, MaxRequiredCapabilities)
  <2> DEFINE decoded == [i \in DOMAIN value.items |-> decodeCapability(value.items[i])]
  <2>1. decodeCapabilities(value) = Collected(decoded)
    BY <1>2 DEF ItemsBetween, decodeCapabilities, boundedArray, decodeArray
  <2>2. Collected(decoded) # {} <=> \A i \in DOMAIN decoded : decoded[i] # {}
    BY CollectedWhenAll
  <2> QED BY <1>2, <2>1, <2>2, CapabilityAgrees
<1> QED BY <1>1, <1>2

(* request.go:37-138 against request.schema.json.  Of the objects that a     *)
(* strict document can hold, the decoder takes exactly those that the        *)
(* published schema accepts, whatever the bounds.                           *)
THEOREM DecoderIsSchema ==
    ASSUME NEW value, value.type = "object", Formed(value)
    PROVE  decodeWireRequest(value.members) # {} <=> RequestSchemaAccepts(value)
<1> DEFINE top == value.members
<1>1. CASE DOMAIN top # RequestFields
  BY <1>1 DEF decodeWireRequest, ValidEnvelope, hasExactFields, RequestSchemaAccepts,
     HasProperties, RequestFields
<1>2. CASE DOMAIN top = RequestFields
  <2>1. \A f \in RequestFields : FieldFormed(top[f])
    BY <1>2 DEF Formed
  <2>2. /\ FieldFormed(top["conversation"]) /\ FieldFormed(top["instructions"])
        /\ FieldFormed(top["required_capabilities"])
    BY <2>1 DEF RequestFields
  <2>3. ValidEnvelope(top) <=>
          /\ IsOneOf(top["version"], {"v1"}) /\ IsOneOf(top["kind"], {"model_turn.request"})
          /\ IdentifierSchema(top["request_id"]) /\ IdentifierSchema(top["model_alias"])
    <3>1. \A v, word : (\E text \in decodeString(v) : text.word = word) <=> IsOneOf(v, {word})
      BY DEF decodeString, IsOneOf
    <3> QED BY <1>2, <3>1, IdentifierAgrees DEF ValidEnvelope, hasExactFields
  <2>4. decodeWireRequest(top) # {} <=>
          /\ ValidEnvelope(top) /\ decodeConversation(top["conversation"]) # {}
          /\ decodeInstructions(top["instructions"]) # {}
          /\ decodeCapabilities(top["required_capabilities"]) # {}
    <3> DEFINE made(conversation, instructions, capabilities) ==
                 [requestID |-> top["request_id"].text, modelAlias |-> top["model_alias"].text,
                  conversation |-> conversation, instructions |-> instructions,
                  requiredCapabilities |-> capabilities]
               all == {made(conversation, instructions, capabilities) :
                         conversation \in decodeConversation(top["conversation"]),
                         instructions \in decodeInstructions(top["instructions"]),
                         capabilities \in decodeCapabilities(top["required_capabilities"])}
    <3>1. decodeWireRequest(top) = IF ValidEnvelope(top) THEN all ELSE {}
      BY DEF decodeWireRequest
    <3>2. all # {} <=> /\ decodeConversation(top["conversation"]) # {}
                       /\ decodeInstructions(top["instructions"]) # {}
                       /\ decodeCapabilities(top["required_capabilities"]) # {}
      <4>1. ASSUME NEW conversation \in decodeConversation(top["conversation"]),
                   NEW instructions \in decodeInstructions(top["instructions"]),
                   NEW capabilities \in decodeCapabilities(top["required_capabilities"])
            PROVE  made(conversation, instructions, capabilities) \in all
        OBVIOUS
      <4>2. ASSUME NEW one \in all
            PROVE  \E conversation \in decodeConversation(top["conversation"]),
                      instructions \in decodeInstructions(top["instructions"]),
                      capabilities \in decodeCapabilities(top["required_capabilities"]) : TRUE
        OBVIOUS
      <4> HIDE DEF all, made
      <4> QED BY <4>1, <4>2
    <3> HIDE DEF all
    <3> QED BY <3>1, <3>2
  <2> QED BY <1>2, <2>2, <2>3, <2>4, ConversationAgrees, InstructionsAgree, CapabilitiesAgree
          DEF RequestSchemaAccepts, HasProperties, RequestFields
<1> QED BY <1>1, <1>2

-----------------------------------------------------------------------------
(* From the decoded request to the provider's.                              *)

LEMMA CollectedItems ==
    ASSUME NEW n \in Nat, NEW decoded, DOMAIN decoded = 1 .. n, NEW list \in Collected(decoded)
    PROVE  /\ list = [i \in 1 .. n |-> list[i]] /\ Len(list) = n
           /\ \A i \in 1 .. n : list[i] \in decoded[i]
<1>1. /\ \A i \in 1 .. n : decoded[i] # {}
      /\ list = [i \in 1 .. n |-> CHOOSE item \in decoded[i] : TRUE]
  BY DEF Collected
<1>2. \A i \in 1 .. n : (CHOOSE item \in decoded[i] : TRUE) \in decoded[i]
  BY <1>1
<1>3. list \in [1 .. n -> {list[i] : i \in 1 .. n}]
  BY <1>1
<1>4. Len(list) = n
  BY <1>3
<1> QED BY <1>1, <1>2, <1>4

\* A scalar text passes the constructor of the port.
LEMMA TextPasses ==
    ASSUME NEW text, text.chars \in Seq(CharClasses \ {"invalid"}), NEW maximum \in Nat,
           NEW controls \in BOOLEAN, validScalarText(text, 1, maximum, controls)
    PROVE  validateText(text, 1, maximum, controls)
<1>1. \A i \in DOMAIN text.chars : text.chars[i] # "invalid"
  OBVIOUS
<1>2. Len(text.chars) \in 1 .. maximum
      /\ (controls => \A i \in DOMAIN text.chars : text.chars[i] # "unsafe")
  <2>1. CASE controls = TRUE
    BY <2>1, ScalarText
  <2>2. CASE controls = FALSE
    BY <2>2, ScalarText
  <2> QED BY <2>1, <2>2
<1> QED BY <1>1, <1>2 DEF validateText

LEMMA MessageDecoded ==
    ASSUME NEW value, ItemFormed(value), NEW message \in decodeWireMessage(value)
    PROVE  /\ message.role \in MessageRoles
           /\ validateText(message.content, 1, MaxMessageTextRunes, FALSE)
<1> DEFINE members == value.members
<1>1. /\ value.type = "object" /\ ValidMessage(members)
      /\ message = [role |-> members["role"].text.word, content |-> members["content"].text]
  BY DEF decodeWireMessage, decodeObject
<1>2. /\ members["role"].text.word \in MessageRoles
      /\ members["content"].type = "string"
      /\ validScalarText(members["content"].text, 1, MaxMessageTextRunes, FALSE)
  BY <1>1 DEF ValidMessage, decodeString, MessageRoles
<1>3. members["content"].text.chars \in Seq(CharClasses \ {"invalid"})
  BY <1>1, <1>2 DEF ItemFormed, StringFormed, ValidMessage, hasExactFields
<1>4. validateText(members["content"].text, 1, MaxMessageTextRunes, FALSE)
  BY <1>2, <1>3, TextPasses, ProviderAssumption
<1> QED BY <1>1, <1>2, <1>4

LEMMA InstructionDecoded ==
    ASSUME NEW value, ItemFormed(value), NEW block \in decodeWireInstruction(value)
    PROVE  /\ validateText(block.source, 1, MaxInstructionSourceRunes, TRUE)
           /\ validateText(block.content, 1, MaxInstructionTextRunes, FALSE)
<1> DEFINE members == value.members
<1>1. /\ value.type = "object" /\ ValidInstruction(members)
      /\ block = [source |-> members["source"].text, content |-> members["content"].text]
  BY DEF decodeWireInstruction, decodeObject
<1>2. /\ members["source"].type = "string" /\ members["content"].type = "string"
      /\ validScalarText(members["source"].text, 1, MaxInstructionSourceRunes, TRUE)
      /\ validScalarText(members["content"].text, 1, MaxInstructionTextRunes, FALSE)
  BY <1>1 DEF ValidInstruction, decodeString
<1>3. /\ members["source"].text.chars \in Seq(CharClasses \ {"invalid"})
      /\ members["content"].text.chars \in Seq(CharClasses \ {"invalid"})
  BY <1>1, <1>2 DEF ItemFormed, StringFormed, ValidInstruction, hasExactFields
<1>4. validateText(members["source"].text, 1, MaxInstructionSourceRunes, TRUE)
  BY <1>2, <1>3, TextPasses, ProviderAssumption
<1>5. validateText(members["content"].text, 1, MaxInstructionTextRunes, FALSE)
  BY <1>2, <1>3, TextPasses, ProviderAssumption
<1> QED BY <1>1, <1>4, <1>5

\* The decoded messages are those sent, one for one.
LEMMA ConversationKept ==
    ASSUME NEW value, FieldFormed(value), NEW list \in decodeConversation(value)
    PROVE  /\ value.type = "array" /\ Len(value.items) \in 1 .. MaxConversationMessages
           /\ Len(list) = Len(value.items)
           /\ DOMAIN list = 1 .. Len(list) /\ DOMAIN value.items = 1 .. Len(list)
           /\ \A i \in DOMAIN list :
                ItemFormed(value.items[i]) /\ list[i] \in decodeWireMessage(value.items[i])
<1> DEFINE n == Len(value.items)
           decoded == [i \in DOMAIN value.items |-> decodeWireMessage(value.items[i])]
<1>1. value.type = "array" /\ n \in 1 .. MaxConversationMessages /\ list \in Collected(decoded)
  BY DEF decodeConversation, boundedArray, decodeArray
<1>2. n \in Nat /\ DOMAIN value.items = 1 .. n /\ \A i \in 1 .. n : ItemFormed(value.items[i])
  BY <1>1 DEF FieldFormed
<1>3. Len(list) = n /\ DOMAIN list = 1 .. n
      /\ \A i \in 1 .. n : list[i] \in decodeWireMessage(value.items[i])
  <2>1. DOMAIN decoded = 1 .. n /\ \A i \in 1 .. n : decoded[i] = decodeWireMessage(value.items[i])
    BY <1>2
  <2> HIDE DEF n, decoded
  <2> QED BY <1>1, <1>2, <2>1, CollectedItems
<1> QED BY <1>1, <1>2, <1>3

LEMMA ConversationDecoded ==
    ASSUME NEW value, FieldFormed(value), NEW list \in decodeConversation(value)
    PROVE  /\ Len(list) \in 1 .. MaxConversationMessages /\ DOMAIN list = 1 .. Len(list)
           /\ \A i \in DOMAIN list :
                /\ list[i].role \in MessageRoles
                /\ validateText(list[i].content, 1, MaxMessageTextRunes, FALSE)
BY ConversationKept, MessageDecoded

\* The decoded instructions are those sent, one for one.
LEMMA InstructionsKept ==
    ASSUME NEW value, FieldFormed(value), NEW list \in decodeInstructions(value)
    PROVE  /\ value.type = "array" /\ Len(value.items) \in 0 .. MaxInstructions
           /\ Len(list) = Len(value.items)
           /\ DOMAIN list = 1 .. Len(list) /\ DOMAIN value.items = 1 .. Len(list)
           /\ \A i \in DOMAIN list :
                ItemFormed(value.items[i]) /\ list[i] \in decodeWireInstruction(value.items[i])
<1> DEFINE n == Len(value.items)
           decoded == [i \in DOMAIN value.items |-> decodeWireInstruction(value.items[i])]
<1>1. value.type = "array" /\ n \in 0 .. MaxInstructions /\ list \in Collected(decoded)
  BY DEF decodeInstructions, boundedArray, decodeArray
<1>2. n \in Nat /\ DOMAIN value.items = 1 .. n /\ \A i \in 1 .. n : ItemFormed(value.items[i])
  BY <1>1 DEF FieldFormed
<1>3. Len(list) = n /\ DOMAIN list = 1 .. n
      /\ \A i \in 1 .. n : list[i] \in decodeWireInstruction(value.items[i])
  <2>1. DOMAIN decoded = 1 .. n
        /\ \A i \in 1 .. n : decoded[i] = decodeWireInstruction(value.items[i])
    BY <1>2
  <2> HIDE DEF n, decoded
  <2> QED BY <1>1, <1>2, <2>1, CollectedItems
<1> QED BY <1>1, <1>2, <1>3

LEMMA InstructionsDecoded ==
    ASSUME NEW value, FieldFormed(value), NEW list \in decodeInstructions(value)
    PROVE  /\ Len(list) \in 0 .. MaxInstructions /\ DOMAIN list = 1 .. Len(list)
           /\ \A i \in DOMAIN list :
                /\ validateText(list[i].source, 1, MaxInstructionSourceRunes, TRUE)
                /\ validateText(list[i].content, 1, MaxInstructionTextRunes, FALSE)
BY InstructionsKept, InstructionDecoded

(* executor.go:59-63.  A decoded request without capabilities is one that    *)
(* provider.NewRequest accepts, whatever the bounds: the internal failure    *)
(* kept for the mapping cannot be reached from a strict document.           *)
THEOREM MappingSucceeds ==
    ASSUME NEW value, value.type = "object", Formed(value),
           NEW request \in decodeWireRequest(value.members),
           request.requiredCapabilities = << >>
    PROVE  mapProviderRequest(request) # {}
<1> DEFINE top == value.members
<1>1. /\ DOMAIN top = RequestFields
      /\ request.conversation \in decodeConversation(top["conversation"])
      /\ request.instructions \in decodeInstructions(top["instructions"])
  BY DEF decodeWireRequest, ValidEnvelope, hasExactFields
<1>2. FieldFormed(top["conversation"]) /\ FieldFormed(top["instructions"])
  BY <1>1 DEF Formed, RequestFields
<1>3. /\ Len(request.conversation) \in 1 .. MaxConversationMessages
      /\ Len(request.instructions) \in 0 .. MaxInstructions
      /\ \A i \in DOMAIN request.conversation :
           /\ request.conversation[i].role \in MessageRoles
           /\ validateText(request.conversation[i].content, 1, MaxMessageTextRunes, FALSE)
      /\ \A i \in DOMAIN request.instructions :
           /\ validateText(request.instructions[i].source, 1, MaxInstructionSourceRunes, TRUE)
           /\ validateText(request.instructions[i].content, 1, MaxInstructionTextRunes, FALSE)
  BY <1>1, <1>2, ConversationDecoded, InstructionsDecoded
<1> DEFINE made == [conversation |-> request.conversation,
                    instructions |-> request.instructions, requiredCapabilities |-> << >>]
<1>4. ValidRequest(made)
  <2>1. /\ made.conversation = request.conversation
        /\ made.instructions = request.instructions
        /\ made.requiredCapabilities = << >> /\ Len(<< >>) = 0 /\ DOMAIN << >> = {}
    OBVIOUS
  <2> HIDE DEF made
  <2>2. validateRequestCardinalities(made)
    <3>1. Len(made.requiredCapabilities) <= MaxRequiredCapabilities
      BY <2>1, ProviderAssumption
    <3>2. Len(request.instructions) <= MaxInstructions
      BY <1>3, ProviderAssumption
    <3> QED BY <1>3, <2>1, <3>1, <3>2 DEF validateRequestCardinalities
  <2>3. \A i \in DOMAIN made.requiredCapabilities : made.requiredCapabilities[i] = "tool_calls"
    BY <2>1
  <2> QED BY <1>3, <2>1, <2>2, <2>3, Zenon DEF ValidRequest
<1>5. mapProviderRequest(request) = {made}
  BY <1>3, <1>4 DEF mapProviderRequest, NewRequest
<1> QED BY <1>5

LEMMA CapabilitiesDecoded ==
    ASSUME NEW value, FieldFormed(value), NEW list \in decodeCapabilities(value)
    PROVE  list = << >> <=> value.items = << >>
<1> DEFINE n == Len(value.items)
           decoded == [i \in DOMAIN value.items |-> decodeCapability(value.items[i])]
<1>1. value.type = "array" /\ list \in Collected(decoded)
  BY DEF decodeCapabilities, boundedArray, decodeArray
<1>2. n \in Nat /\ value.items = [i \in 1 .. n |-> value.items[i]]
  BY <1>1 DEF FieldFormed
<1>3. list = [i \in 1 .. n |-> list[i]] /\ Len(list) = n
  <2>1. DOMAIN decoded = 1 .. n
    BY <1>2
  <2> HIDE DEF n, decoded
  <2> QED BY <1>1, <1>2, <2>1, CollectedItems
<1>4. CASE n = 0
  BY <1>2, <1>3, <1>4
<1>5. CASE n # 0
  BY <1>2, <1>3, <1>5
<1> QED BY <1>4, <1>5

\* What a decoded request is made of.
LEMMA RequestDecoded ==
    ASSUME NEW top, NEW request \in decodeWireRequest(top)
    PROVE  /\ ValidEnvelope(top) /\ DOMAIN top = RequestFields
           /\ request.requestID = top["request_id"].text
           /\ request.conversation \in decodeConversation(top["conversation"])
           /\ request.instructions \in decodeInstructions(top["instructions"])
BY DEF decodeWireRequest, ValidEnvelope, hasExactFields

\* It carries the correlation ID that was taken from the document before.
LEMMA DecodedCorrelates ==
    ASSUME NEW top, NEW request \in decodeWireRequest(top)
    PROVE  safeRequestID(top) = {request.requestID}
<1>1. /\ "request_id" \in DOMAIN top /\ top["request_id"].type = "string"
      /\ validIdentifier(top["request_id"].text)
      /\ request.requestID = top["request_id"].text
  BY RequestDecoded DEF ValidEnvelope, RequestFields, decodeString
<1> QED BY <1>1 DEF safeRequestID, Member, decodeString

-----------------------------------------------------------------------------
\* Every member of the document is one that a strict document can hold.
WalkInv == \A f \in DOMAIN root : FieldFormed(root[f])

LEMMA StepKeepsFormed == WalkInv /\ [WalkNext]_walk => WalkInv'
<1> SUFFICES ASSUME WalkInv, [WalkNext]_walk PROVE WalkInv'
  OBVIOUS
<1>1. ASSUME NEW field \in DOMAIN Values, NEW value \in Values[field], SetMember(field, value)
      PROVE  WalkInv'
  BY <1>1, WalkAssumption DEF WalkInv, SetMember
<1>2. ASSUME NEW field \in DOMAIN Values, DropMember(field) PROVE WalkInv'
  BY <1>2 DEF WalkInv, DropMember
<1>3. CASE UNCHANGED walk
  BY <1>3 DEF WalkInv, walk
<1> QED BY <1>1, <1>2, <1>3 DEF WalkNext

LEMMA AlwaysFormed == WalkSpec => []WalkInv
<1>1. WalkInit => WalkInv
  BY WalkAssumption DEF WalkInit, WalkInv
<1> QED BY <1>1, StepKeepsFormed, PTL DEF WalkSpec

\* The lemmas about values apply to the document.
LEMMA DocumentFormed ==
    WalkInv => LET document == Object(root)
               IN document.type = "object" /\ document.members = root /\ Formed(document)
BY DEF WalkInv, Object, Formed

-----------------------------------------------------------------------------
(* request.go:37-138 against request.schema.json.  Along any edits the       *)
(* decoder takes exactly the documents the published schema accepts.        *)
THEOREM DecoderMatchesSchemaHolds == WalkSpec => []DecoderMatchesSchema
<1>1. WalkInv => DecoderMatchesSchema
  BY DocumentFormed, DecoderIsSchema DEF DecoderMatchesSchema
<1> QED BY <1>1, AlwaysFormed, PTL

(* executor.go:59-63.  The mapping of a decoded request to the port never    *)
(* fails.                                                                   *)
THEOREM MappingNeverFailsHolds == WalkSpec => []MappingNeverFails
<1>1. WalkInv => MappingNeverFails
  BY DocumentFormed, MappingSucceeds DEF MappingNeverFails
<1> QED BY <1>1, AlwaysFormed, PTL

(* executor.go:38-46.  The correlation ID taken before the request is        *)
(* decoded is the one the decoded request carries.                          *)
THEOREM CorrelationAgreesHolds == WalkSpec => []CorrelationAgrees
<1>1. CorrelationAgrees
  BY DecodedCorrelates DEF CorrelationAgrees
<1> QED BY <1>1, PTL

-----------------------------------------------------------------------------
\* What the provider is given has the lists of the decoded request.
LEMMA MappedRequest ==
    ASSUME NEW request, NEW mapped \in mapProviderRequest(request)
    PROVE  /\ mapped.conversation = request.conversation
           /\ mapped.instructions = request.instructions
BY DEF mapProviderRequest, NewRequest

\* A decoded message has the role and the text of the message sent.
LEMMA MessageParts ==
    ASSUME NEW value, NEW message \in decodeWireMessage(value)
    PROVE  /\ message.role = value.members["role"].text.word
           /\ message.content = value.members["content"].text
BY DEF decodeWireMessage, decodeObject

LEMMA InstructionParts ==
    ASSUME NEW value, NEW block \in decodeWireInstruction(value)
    PROVE  /\ block.source = value.members["source"].text
           /\ block.content = value.members["content"].text
BY DEF decodeWireInstruction, decodeObject

LEMMA ProviderSees ==
    ASSUME WalkInv, NEW request \in decodeWireRequest(root),
           NEW mapped \in mapProviderRequest(request)
    PROVE  LET sent == root["conversation"].items
               blocks == root["instructions"].items
           IN /\ Len(mapped.conversation) = Len(sent)
              /\ Len(mapped.instructions) = Len(blocks)
              /\ \A i \in DOMAIN sent :
                    /\ mapped.conversation[i].role = sent[i].members["role"].text.word
                    /\ mapped.conversation[i].content = sent[i].members["content"].text
              /\ \A i \in DOMAIN blocks :
                    /\ mapped.instructions[i].source = blocks[i].members["source"].text
                    /\ mapped.instructions[i].content = blocks[i].members["content"].text
<1>1. /\ FieldFormed(root["conversation"]) /\ FieldFormed(root["instructions"])
      /\ mapped.conversation \in decodeConversation(root["conversation"])
      /\ mapped.instructions \in decodeInstructions(root["instructions"])
  BY RequestDecoded, MappedRequest DEF WalkInv, RequestFields
<1>2. /\ Len(mapped.conversation) = Len(root["conversation"].items)
      /\ DOMAIN mapped.conversation = DOMAIN root["conversation"].items
      /\ \A i \in DOMAIN mapped.conversation :
           mapped.conversation[i] \in decodeWireMessage(root["conversation"].items[i])
  BY <1>1, ConversationKept
<1>3. /\ Len(mapped.instructions) = Len(root["instructions"].items)
      /\ DOMAIN mapped.instructions = DOMAIN root["instructions"].items
      /\ \A i \in DOMAIN mapped.instructions :
           mapped.instructions[i] \in decodeWireInstruction(root["instructions"].items[i])
  BY <1>1, InstructionsKept
<1>4. ASSUME NEW i \in DOMAIN root["conversation"].items
      PROVE  LET sent == root["conversation"].items[i].members
             IN /\ mapped.conversation[i].role = sent["role"].text.word
                /\ mapped.conversation[i].content = sent["content"].text
  BY <1>2, MessageParts
<1>5. ASSUME NEW i \in DOMAIN root["instructions"].items
      PROVE  LET sent == root["instructions"].items[i].members
             IN /\ mapped.instructions[i].source = sent["source"].text
                /\ mapped.instructions[i].content = sent["content"].text
  BY <1>3, InstructionParts
<1> QED BY <1>2, <1>3, <1>4, <1>5

(* request.go:124, 138, 232-244.  Along any edits the provider is given the  *)
(* texts, roles and order that the caller sent, nothing dropped or added.   *)
THEOREM ProviderSeesTheConversationHolds == WalkSpec => []ProviderSeesTheConversation
<1>1. WalkInv => ProviderSeesTheConversation
  BY ProviderSees DEF ProviderSeesTheConversation
<1> QED BY <1>1, AlwaysFormed, PTL
=============================================================================
