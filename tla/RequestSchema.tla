--------------------------- MODULE RequestSchema ----------------------------
(***************************************************************************)
(* What gateway/contracts/model-turn/v1/schema/request.schema.json accepts, *)
(* keyword by keyword, over the JSON values of WireRequest.  It is the      *)
(* published contract that the Go decoder must implement.                   *)
(***************************************************************************)
EXTENDS WireRequest

HasLength(value, lo, hi) == value.type = "string" /\ Len(value.text.chars) \in lo .. hi

\* "const" and "enum" of a string.
IsOneOf(value, words) == value.type = "string" /\ value.text.word \in words

\* "pattern": ^[A-Za-z0-9][A-Za-z0-9._:-]*, to the end of the string.
MatchesIdentifier(value) ==
    /\ value.text.chars # << >>
    /\ value.text.chars[1] = "alnum"
    /\ \A i \in DOMAIN value.text.chars : value.text.chars[i] \in {"alnum", "mark"}

\* "pattern": one or more characters, none a control or a line separator.
MatchesSource(value) ==
    /\ value.text.chars # << >>
    /\ \A i \in DOMAIN value.text.chars : value.text.chars[i] # "unsafe"

\* "required" with "additionalProperties": false.
HasProperties(value, names) == value.type = "object" /\ DOMAIN value.members = names

ItemsBetween(value, lo, hi) == value.type = "array" /\ Len(value.items) \in lo .. hi

IdentifierSchema(value) == HasLength(value, 1, maxIdentifierBytes) /\ MatchesIdentifier(value)

MessageSchema(value) ==
    /\ HasProperties(value, {"role", "content"})
    /\ IsOneOf(value.members["role"], {"user", "assistant"})
    /\ HasLength(value.members["content"], 1, MaxMessageTextRunes)

InstructionSchema(value) ==
    /\ HasProperties(value, {"source", "content"})
    /\ HasLength(value.members["source"], 1, MaxInstructionSourceRunes)
    /\ MatchesSource(value.members["source"])
    /\ HasLength(value.members["content"], 1, MaxInstructionTextRunes)

\* The whole schema.
RequestSchemaAccepts(value) ==
    /\ HasProperties(value, {"version", "kind", "request_id", "model_alias",
                             "conversation", "instructions", "required_capabilities"})
    /\ IsOneOf(value.members["version"], {"v1"})
    /\ IsOneOf(value.members["kind"], {"model_turn.request"})
    /\ IdentifierSchema(value.members["request_id"])
    /\ IdentifierSchema(value.members["model_alias"])
    /\ ItemsBetween(value.members["conversation"], 1, MaxConversationMessages)
    /\ \A i \in DOMAIN value.members["conversation"].items :
          MessageSchema(value.members["conversation"].items[i])
    /\ ItemsBetween(value.members["instructions"], 0, MaxInstructions)
    /\ \A i \in DOMAIN value.members["instructions"].items :
          InstructionSchema(value.members["instructions"].items[i])
    /\ ItemsBetween(value.members["required_capabilities"], 0, MaxRequiredCapabilities)
    /\ \A i \in DOMAIN value.members["required_capabilities"].items :
          IsOneOf(value.members["required_capabilities"].items[i], {"tool_calls"})
=============================================================================
