-------------------------- MODULE MCWireAgreement ---------------------------
(***************************************************************************)
(* WireAgreement for TLC: documents around the boundary of every rule, with *)
(* each length bound at two or three characters or items.                   *)
(***************************************************************************)
EXTENDS WireAgreement

Word(word) == [word |-> word, chars |-> <<"alnum", "alnum">>]
Chars(chars) == [word |-> "text", chars |-> chars]

Identifiers == {String(Chars(c)) : c \in
    {<< >>, <<"alnum">>, <<"mark">>, <<"alnum", "mark">>, <<"alnum", "plain">>,
     <<"alnum", "alnum", "alnum">>}}

Contents == {String(Chars(c)) : c \in
    {<< >>, <<"plain">>, <<"unsafe", "mark">>, <<"plain", "plain", "plain">>}}

MCMessage(role, content) == Object([role |-> role, content |-> content])
MCInstruction(source, content) == Object([source |-> source, content |-> content])

user == String(Word("user"))
hello == String(Chars(<<"plain", "unsafe">>))
source == String(Chars(<<"alnum">>))

Messages ==
    {MCMessage(role, hello) : role \in {user, String(Word("assistant")),
                                        String(Word("system")), OtherValue}}
    \union {MCMessage(user, content) : content \in Contents \union {OtherValue}}
    \union {Object([role |-> user]), String(Word("user")),
            Object([role |-> user, content |-> hello, name |-> hello])}

Instructions ==
    {MCInstruction(s, hello) : s \in Contents \union {OtherValue}}
    \union {MCInstruction(source, content) : content \in Contents \union {OtherValue}}
    \union {Object([source |-> source]), OtherValue}

Lists(items) == {Array(<< >>)} \union {Array(<<a>>) : a \in items}

MCValues ==
    [version |-> {String(Word("v1")), String(Word("v2")), OtherValue},
     kind |-> {String(Word("model_turn.request")), String(Word("model_turn.failed"))},
     request_id |-> Identifiers \union {OtherValue},
     model_alias |-> Identifiers \union {OtherValue},
     conversation |-> Lists(Messages) \union {OtherValue, user}
         \union {Array(<<MCMessage(user, hello), m>>) : m \in Messages}
         \union {Array([i \in 1 .. 3 |-> MCMessage(user, hello)])},
     instructions |-> Lists(Instructions) \union {OtherValue}
         \union {Array(<<MCInstruction(source, hello), m>>) : m \in Instructions},
     required_capabilities |-> Lists({String(Word("tool_calls")),
                                      String(Word("streaming")), OtherValue})
         \union {OtherValue, Array(<<String(Word("tool_calls")),
                                     String(Word("tool_calls"))>>)},
     unknown |-> {OtherValue}]

MCRoots ==
    {[version |-> String(Word("v1")), kind |-> String(Word("model_turn.request")),
      request_id |-> String(Chars(<<"alnum", "mark">>)),
      model_alias |-> String(Word("learning-text")),
      conversation |-> Array(<<MCMessage(user, hello),
                               MCMessage(String(Word("assistant")), source)>>),
      instructions |-> Array(<<MCInstruction(source, hello)>>),
      required_capabilities |-> Array(<< >>)]}
=============================================================================
