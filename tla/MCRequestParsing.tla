-------------------------- MODULE MCRequestParsing --------------------------
(***************************************************************************)
(* RequestParsing for TLC: every short token sequence, documents with one   *)
(* token deleted, inserted or replaced, and strings with surrogate escapes  *)
(* whole, halved and cut off.                                              *)
(***************************************************************************)
EXTENDS RequestParsing, SequencesExt

\* A lexeme is a token and the bytes that spell it.
Lexeme(kind, word, spelling) ==
    [token |-> [kind |-> kind, word |-> word], spelling |-> spelling]

Mark(kind) == Lexeme(kind, "", <<"other">>)
Quoted(word, inner) == Lexeme("string", word, <<"quote">> \o inner \o <<"quote">>)

UnicodeEscape(digits) == <<"backslash", "u">> \o digits
High == UnicodeEscape(<<"d", "8", "0", "0">>)
Low == UnicodeEscape(<<"d", "c", "0", "0">>)
Plain == UnicodeEscape(<<"0", "0", "8", "0">>)

LBrace == Mark("{")
RBrace == Mark("}")
LBracket == Mark("[")
RBracket == Mark("]")
Comma == Mark(",")
Colon == Mark(":")
Number == Lexeme("scalar", "", <<"0">>)
NoToken == Mark("bad")
A == Quoted("a", <<"other">>)
B == Quoted("b", <<"8">>)

Alphabet == {LBrace, RBrace, LBracket, RBracket, Comma, Colon, Number, A}

Text(ls) ==
    [bytes |-> FlattenSeq([k \in 1 .. Len(ls) |-> ls[k].spelling]),
     tokens |-> [k \in 1 .. Len(ls) |-> ls[k].token]]

Documents == {
    <<LBrace, A, Colon, Number, Comma, B, Colon, Number, RBrace>>,
    <<LBrace, A, Colon, LBrace, A, Colon, Number, RBrace, RBrace>>,
    <<LBracket, LBracket, LBrace, RBrace, RBracket, Comma, Number, RBracket>>}

\* An array in an object, and the other way round.
ArrayInside == <<LBrace, A, Colon, LBracket, Number, RBracket, RBrace>>
ObjectInside == <<LBracket, LBrace, A, Colon, Number, RBrace, Comma, Number, RBracket>>

\* A piece of text that is no token, alone and beside tokens.
Pieces == {<<NoToken>>, <<LBracket, Number, NoToken, RBracket>>, <<Number, NoToken>>}

Edits(d) ==
    {RemoveAt(d, k) : k \in 1 .. Len(d)}
    \cup {ReplaceAt(d, k, l) : k \in 1 .. Len(d), l \in Alphabet}

Insertions(d) == {InsertAt(d, k, l) : k \in 1 .. Len(d) + 1, l \in Alphabet}

\* Every sequence of at most two lexemes.
Short == UNION {[1 .. n -> Alphabet] : n \in 0 .. 2}

\* A number of n digits: there is a text of every length.
NumberOf(n) == <<Lexeme("scalar", "", [k \in 1 .. n |-> "0"])>>

Strings == {<<Quoted("s", inner)>> : inner \in
    {High \o Low, Low, High, High \o High, High \o Plain, Low \o High, Plain,
     High \o <<"other">>, <<"backslash", "quote">>, <<"backslash", "backslash">>,
     <<"backslash", "other">> \o Low, <<"invalid">>, <<"backslash", "u", "d", "8", "other", "0">>}}

\* A text that ends before its last byte, which then is no token.
CutOff(t, n) == [bytes |-> SubSeq(t.bytes, 1, n),
                 tokens |-> IF n = 0 THEN <<>> ELSE <<[kind |-> "bad", word |-> ""]>>]

MCTexts ==
    {Text(ls) : ls \in Documents \cup {ArrayInside, ObjectInside} \cup Pieces \cup Short \cup Strings
                       \cup UNION {Edits(d) : d \in Documents}
                       \cup Insertions(ArrayInside)
                       \cup {NumberOf(n) : n \in 1 .. MaxRequestBodyBytes}}
    \cup UNION {{CutOff(Text(s), n) : n \in 0 .. Len(Text(s).bytes) - 1} : s \in Strings}
=============================================================================
