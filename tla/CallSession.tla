---------------------------- MODULE CallSession ----------------------------
(***************************************************************************)
(* What the call service promises, whatever actors and messages carry it   *)
(* out: a user is engaged in at most one call; a call rings, may be        *)
(* answered once, ends once for one reason; the call log tells the truth;  *)
(* no call rings for ever and no user stays engaged in a call that is over.*)
(***************************************************************************)
CONSTANTS Users, Calls, None

VARIABLES
  phase,    \* "none", "ringing", "connected" or "over", per call
  answered, \* whether the call has been answered
  outcome,  \* why the call is over
  engaged,  \* the call each user is engaged in, or None
  log       \* the logged outcome of each call

sessionVars == <<phase, answered, outcome, engaged, log>>

Unanswered == {"rejected", "cancelled", "timeout", "hangup", "disconnect"}
Answered == {"hangup", "disconnect"}

Init ==
  /\ phase = [c \in Calls |-> "none"]
  /\ answered = [c \in Calls |-> FALSE]
  /\ outcome = [c \in Calls |-> ""]
  /\ engaged = [u \in Users |-> None]
  /\ log = [c \in Calls |-> None]

Ring(c, u, v) ==
  /\ phase[c] = "none"
  /\ u # v
  /\ engaged[u] = None /\ engaged[v] = None
  /\ phase' = [phase EXCEPT ![c] = "ringing"]
  /\ engaged' = [engaged EXCEPT ![u] = c, ![v] = c]
  /\ UNCHANGED <<answered, outcome, log>>

Answer(c) ==
  /\ phase[c] = "ringing"
  /\ phase' = [phase EXCEPT ![c] = "connected"]
  /\ answered' = [answered EXCEPT ![c] = TRUE]
  /\ UNCHANGED <<outcome, engaged, log>>

End(c) ==
  /\ phase[c] \in {"ringing", "connected"}
  /\ \E why \in IF phase[c] = "ringing" THEN Unanswered ELSE Answered :
       outcome' = [outcome EXCEPT ![c] = why]
  /\ phase' = [phase EXCEPT ![c] = "over"]
  /\ UNCHANGED <<answered, engaged, log>>

\* The log is written at the end of the call, or not at all.
Log(c) ==
  /\ phase[c] = "over"
  /\ log[c] = None
  /\ log' = [log EXCEPT ![c] = [status |-> IF answered[c] THEN "completed" ELSE "missed",
                                reason |-> outcome[c]]]
  /\ UNCHANGED <<phase, answered, outcome, engaged>>

Release(c) ==
  /\ phase[c] = "over"
  /\ \E u \in Users : engaged[u] = c
  /\ engaged' = [u \in Users |-> IF engaged[u] = c THEN None ELSE engaged[u]]
  /\ UNCHANGED <<phase, answered, outcome, log>>

StopsRinging(c) == phase[c] = "ringing" /\ (Answer(c) \/ End(c))

Next ==
  \E c \in Calls :
    \/ \E u, v \in Users : Ring(c, u, v)
    \/ Answer(c) \/ End(c) \/ Log(c) \/ Release(c)

\* What may never happen, and what must.
Safety == Init /\ [][Next]_sessionVars

Spec ==
  /\ Safety
  /\ \A c \in Calls : WF_sessionVars(StopsRinging(c)) /\ WF_sessionVars(Release(c))
=============================================================================
