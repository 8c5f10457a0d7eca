------------------------- MODULE ModelTurnContract --------------------------
(***************************************************************************)
(* What a model turn promises its client and whoever pays the provider,     *)
(* without saying how: a request that may not be paid for is refused, any   *)
(* other is paid for once, and then its client is told the truth: a result   *)
(* only if the provider gave one, a failure otherwise, and silence only     *)
(* if the request's own context ended for the reason the provider gave.     *)
(***************************************************************************)
CONSTANTS Requests,
          Causes      \* why the context of a request may end

VARIABLES payable,    \* the requests that may be paid for
          cause,      \* why the context of each request ended, or "nil"
          calls,      \* how often each was paid for
          said,       \* what the provider made of each
          ending      \* how each ended for its client, or "open"

vars == <<payable, cause, calls, said, ending>>

Sayings == {"completed", "failed", "nonsense"} \union Causes

Init ==
    /\ payable \subseteq Requests
    /\ cause = [r \in Requests |-> "nil"]
    /\ calls = [r \in Requests |-> 0]
    /\ said = [r \in Requests |-> "nothing"]
    /\ ending = [r \in Requests |-> "open"]

EndContext(r, why) ==
    /\ ending[r] = "open" /\ cause[r] = "nil"
    /\ cause' = [cause EXCEPT ![r] = why]
    /\ UNCHANGED <<payable, calls, said, ending>>

End(r, how) ==
    /\ ending[r] = "open"
    /\ ending' = [ending EXCEPT ![r] = how]
    /\ UNCHANGED <<payable, cause, calls, said>>

Refuse(r) == r \notin payable /\ End(r, "refused")

Pay(r) ==
    /\ r \in payable /\ ending[r] = "open" /\ calls[r] = 0
    /\ calls' = [calls EXCEPT ![r] = 1]
    /\ UNCHANGED <<payable, cause, said, ending>>

Say(r, what) ==
    /\ calls[r] = 1 /\ ending[r] = "open" /\ said[r] = "nothing"
    /\ said' = [said EXCEPT ![r] = what]
    /\ UNCHANGED <<payable, cause, calls, ending>>

\* A result, or a failure: also for what the port does not allow, such as a
\* cause that had not yet ended the context when the provider named it.
Report(r) ==
    /\ said[r] # "nothing"
    /\ End(r, IF said[r] = "completed" THEN "completed" ELSE "failed")

\* Nothing is written for a client that is gone.
Abort(r) == said[r] \in Causes /\ said[r] = cause[r] /\ End(r, "aborted")

\* The provider panics instead of saying anything.
Panic(r) == calls[r] = 1 /\ said[r] = "nothing" /\ End(r, "panicked")

Next ==
    \E r \in Requests :
        \/ Refuse(r) \/ Pay(r) \/ Report(r) \/ Abort(r) \/ Panic(r)
        \/ \E why \in Causes : EndContext(r, why)
        \/ \E what \in Sayings : Say(r, what)

Spec == Init /\ [][Next]_vars
=============================================================================
