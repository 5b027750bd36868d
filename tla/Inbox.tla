------------------------------- MODULE Inbox -------------------------------
(***************************************************************************)
(* What an actor's mailbox promises its callers, with neither locks nor    *)
(* waiting goroutines: a Tell ends once, by being accepted into a bounded  *)
(* buffer or by becoming a dead letter; the actor handles messages from    *)
(* the front of the buffer; a closed inbox accepts nothing but is still    *)
(* drained.  Module Mailbox (actor.ChanMailbox) implements it.             *)
(***************************************************************************)
EXTENDS Naturals, Sequences

CONSTANTS Messages, \* the messages that may be told to the actor
          Bound     \* the largest number of buffered messages

VARIABLES buffer,   \* accepted and not yet handled, oldest first
          handled,  \* messages handed to the actor, oldest first
          dead,     \* messages reported as dead letters
          closed    \* Stop was called

vars == <<buffer, handled, dead, closed>>

Elements(s) == {s[i] : i \in DOMAIN s}

\* A message whose Tell has not ended yet.
Fresh(m) == m \notin Elements(buffer) \cup Elements(handled) \cup dead

Init ==
  /\ buffer = <<>>
  /\ handled = <<>>
  /\ dead = {}
  /\ closed = FALSE

Accept(m) ==
  /\ Fresh(m)
  /\ ~closed
  /\ Len(buffer) < Bound
  /\ buffer' = Append(buffer, m)
  /\ UNCHANGED <<handled, dead, closed>>

\* The oldest buffered message makes room for m and becomes a dead letter.
Displace(m) ==
  /\ Fresh(m)
  /\ ~closed
  /\ Len(buffer) = Bound
  /\ buffer' = Append(Tail(buffer), m)
  /\ dead' = dead \cup {Head(buffer)}
  /\ UNCHANGED <<handled, closed>>

\* A full or a closed inbox turns m away.
Refuse(m) ==
  /\ Fresh(m)
  /\ closed \/ Len(buffer) = Bound
  /\ dead' = dead \cup {m}
  /\ UNCHANGED <<buffer, handled, closed>>

Handle ==
  /\ buffer # <<>>
  /\ handled' = Append(handled, Head(buffer))
  /\ buffer' = Tail(buffer)
  /\ UNCHANGED <<dead, closed>>

Close ==
  /\ closed' = TRUE
  /\ UNCHANGED <<buffer, handled, dead>>

Next ==
  \/ \E m \in Messages : Accept(m) \/ Displace(m) \/ Refuse(m)
  \/ Handle
  \/ Close

Spec == Init /\ [][Next]_vars
=============================================================================
