--------------------------- MODULE WireAgreement ----------------------------
(***************************************************************************)
(* The three layers that judge a request are written by hand, in two        *)
(* languages, in three places: request.schema.json, the wire decoder of     *)
(* modelturn, and the constructor of provider.Request.  This module walks   *)
(* through documents, one edit of a member at a time, and states that the    *)
(* three agree on each of them.                                            *)
(***************************************************************************)
EXTENDS RequestSchema

CONSTANTS Roots,      \* documents to start from: members by name
          Values,     \* Values[f]: values an edit may give the member f
          MaxEdits    \* bound on the number of edits

\* Every member that may be met is one a strict document can hold.
ASSUME WalkAssumption ==
    /\ \A start \in Roots : \A f \in DOMAIN start : FieldFormed(start[f])
    /\ \A f \in DOMAIN Values : \A value \in Values[f] : FieldFormed(value)

VARIABLES root,       \* the members of the document
          edits

walk == <<root, edits>>

WalkInit == root \in Roots /\ edits = 0

\* A member is given a value, whether or not it was there.
SetMember(field, value) ==
    root' = [f \in DOMAIN root \union {field} |-> IF f = field THEN value ELSE root[f]]

DropMember(field) ==
    /\ field \in DOMAIN root
    /\ root' = [f \in DOMAIN root \ {field} |-> root[f]]

WalkNext ==
    /\ edits < MaxEdits
    /\ edits' = edits + 1
    /\ \E field \in DOMAIN Values :
          DropMember(field) \/ \E value \in Values[field] : SetMember(field, value)

WalkSpec == WalkInit /\ [][WalkNext]_walk

-----------------------------------------------------------------------------
(* request.go:37-138 against request.schema.json.  The decoder takes exactly *)
(* the documents the published schema accepts.                              *)
DecoderMatchesSchema ==
    decodeWireRequest(root) # {} <=> RequestSchemaAccepts(Object(root))

(* executor.go:59-63.  A decoded request without capabilities is always one  *)
(* that provider.NewRequest accepts, so the internal failure that Execute    *)
(* keeps for the mapping cannot be reached from the wire.                   *)
MappingNeverFails ==
    \A request \in decodeWireRequest(root) :
        request.requiredCapabilities = << >> => mapProviderRequest(request) # {}

(* request.go:124, 138, 232-244.  The provider is given the caller's texts,  *)
(* roles and order, nothing dropped, added or exchanged.                    *)
ProviderSeesTheConversation ==
    \A request \in decodeWireRequest(root) :
        \A mapped \in mapProviderRequest(request) :
            LET sent == root["conversation"].items
                blocks == root["instructions"].items
            IN /\ Len(mapped.conversation) = Len(sent)
               /\ Len(mapped.instructions) = Len(blocks)
               /\ \A i \in DOMAIN sent :
                     /\ mapped.conversation[i].role = sent[i].members["role"].text.word
                     /\ mapped.conversation[i].content = sent[i].members["content"].text
               /\ \A i \in DOMAIN blocks :
                     /\ mapped.instructions[i].source = blocks[i].members["source"].text
                     /\ mapped.instructions[i].content = blocks[i].members["content"].text

(* executor.go:38-46.  The correlation ID is taken before the request is     *)
(* decoded; the two readings of it never differ.                            *)
CorrelationAgrees ==
    \A request \in decodeWireRequest(root) : safeRequestID(root) = {request.requestID}
=============================================================================
