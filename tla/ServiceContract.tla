-------------------------- MODULE ServiceContract ---------------------------
(***************************************************************************)
(* What Service.Serve promises its caller, without saying how: connections  *)
(* enter only while it serves, a connection with a request in progress      *)
(* leaves only when the request is over or when the server gives up, giving *)
(* up is a failure, and Serve returns only when no connection is left, with *)
(* an error exactly when something failed.                                  *)
(***************************************************************************)
CONSTANT Conns

VARIABLES phase,    \* "starting", "serving", "stopping" or "stopped"
          live,     \* connections the server holds
          busy,     \* those with a request in progress
          failed,   \* something went wrong since serving began
          verdict   \* what the caller is told

vars == <<phase, live, busy, failed, verdict>>

Init ==
    /\ phase = "starting"
    /\ live = {} /\ busy = {}
    /\ failed = FALSE
    /\ verdict = "none"

\* Configuration, listener or arguments are refused: nothing was served.
Refuse ==
    /\ phase = "starting"
    /\ phase' = "stopped"
    /\ verdict' = "failed"
    /\ UNCHANGED <<live, busy, failed>>

Start ==
    /\ phase = "starting"
    /\ phase' = "serving"
    /\ UNCHANGED <<live, busy, failed, verdict>>

Admit(c) ==
    /\ phase = "serving"
    /\ c \notin live
    /\ live' = live \union {c}
    /\ UNCHANGED <<phase, busy, failed, verdict>>

Begin(c) ==
    /\ phase \in {"serving", "stopping"}
    /\ c \in live \ busy
    /\ busy' = busy \union {c}
    /\ UNCHANGED <<phase, live, failed, verdict>>

\* A request is over; its connection may close with it.
Finish(c) ==
    /\ c \in busy
    /\ busy' = busy \ {c}
    /\ live' \in {live, live \ {c}}
    /\ UNCHANGED <<phase, failed, verdict>>

\* Connections without a request close.
Depart(leaving) ==
    /\ leaving \subseteq live \ busy
    /\ live' = live \ leaving
    /\ UNCHANGED <<phase, busy, failed, verdict>>

\* No further connection is admitted.
CloseDoor ==
    /\ phase = "serving"
    /\ phase' = "stopping"
    /\ UNCHANGED <<live, busy, failed, verdict>>

\* The accept loop or the drain fails.  A failing drain may close its last
\* connections in the same step, when what fails is closing the listener.
Fail(leaving) ==
    /\ phase \in {"serving", "stopping"}
    /\ leaving \subseteq live \ busy
    /\ live' = live \ leaving
    /\ failed' = TRUE
    /\ UNCHANGED <<phase, busy, verdict>>

\* After a failure every connection may be closed at once, busy or not.
CutOff ==
    /\ phase = "stopping" /\ failed
    /\ live' = {} /\ busy' = {}
    /\ UNCHANGED <<phase, failed, verdict>>

Conclude ==
    /\ phase = "stopping"
    /\ live = {}
    /\ phase' = "stopped"
    /\ verdict' = IF failed THEN "failed" ELSE "clean"
    /\ UNCHANGED <<live, busy, failed>>

Next ==
    \/ Refuse \/ Start \/ CloseDoor \/ CutOff \/ Conclude
    \/ \E c \in Conns : Admit(c) \/ Begin(c) \/ Finish(c)
    \/ \E leaving \in SUBSET Conns : Depart(leaving) \/ Fail(leaving)

Spec == Init /\ [][Next]_vars
=============================================================================
