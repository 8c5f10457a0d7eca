------------------------- MODULE MCCanonicalReview --------------------------
(***************************************************************************)
(* CanonicalReview for TLC: the schemas of SmallDocuments under edits.      *)
(***************************************************************************)
EXTENDS CanonicalReview, SmallDocuments

MCRules ==
    [required |-> {Strs(<<"version", "request_id">>), Strs(<< >>)},
     properties |-> {Obj(<< >>)},
     maxLength |-> {Int0(1)},
     maximum |-> {Int0(0)},
     pattern |-> {Str("identifier"), Str("control-safe")},
     const |-> {Str("v1"), Str("success")}]
    @@ ("$id" :> {Str("urn:success")}) @@ ("type" :> {Str("integer"), Str("string")})

MCInstances ==
    {Str(s) : s \in {"", "a", "-", "bb", "ccc", "v1"}} \union {Int0(1), Null, Obj(<< >>)}
    \union {Obj(<< <<"tokens", v>> >>) : v \in {Int0(0), Int0(1), Int0(2), Bool(TRUE)}}

=============================================================================
