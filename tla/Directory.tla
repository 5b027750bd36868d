------------------------------ MODULE Directory ------------------------------
(***************************************************************************)
(* What an engine promises of names: a name is bound to one actor at a     *)
(* time and is free in between; an actor is bound once, and when it has    *)
(* lost its name it never gets it back; a closed directory is empty for    *)
(* good.  Module Engine implements it.                                     *)
(***************************************************************************)
CONSTANTS Names, Instances, None

VARIABLES
  bound, \* the actor each name is bound to, or None
  used,  \* the actors that have been bound
  shut   \* the directory is closed

dirVars == <<bound, used, shut>>

Init ==
  /\ bound = [n \in Names |-> None]
  /\ used = {}
  /\ shut = FALSE

Bind(n, i) ==
  /\ ~shut
  /\ bound[n] = None
  /\ i \notin used
  /\ bound' = [bound EXCEPT ![n] = i]
  /\ used' = used \cup {i}
  /\ UNCHANGED shut

Free(n) ==
  /\ bound' = [bound EXCEPT ![n] = None]
  /\ UNCHANGED <<used, shut>>

Close ==
  /\ shut' = TRUE
  /\ bound' = [n \in Names |-> None]
  /\ UNCHANGED used

Next ==
  \/ \E n \in Names : Free(n) \/ \E i \in Instances : Bind(n, i)
  \/ Close

Spec == Init /\ [][Next]_dirVars
=============================================================================
