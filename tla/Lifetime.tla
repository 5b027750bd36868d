------------------------------ MODULE Lifetime ------------------------------
(***************************************************************************)
(* The end of an actor and its mailbox, as far as its timers and watches   *)
(* have to do with them: the deferred function of processLoop cancels the  *)
(* actor's timers, cleans up its watches, stops the mailbox and closes the *)
(* done channel, in this order.  Modules Timers and Watch say what happens *)
(* in the first two steps; module Signals puts them together.              *)
(***************************************************************************)
EXTENDS Integers, Sequences, FiniteSets

CONSTANTS Actors,
          Capacity, \* of a mailbox
          None

ASSUME LifetimeAssumption ==
  /\ IsFiniteSet(Actors) /\ None \notin Actors
  /\ Capacity \in Nat \ {0}

VARIABLES
  life,   \* up, cancelling, cleaning, leaving, stopped, done
  inbox,  \* the mailboxes, oldest message first
  closed  \* stopped mailboxes

Ended(a) == life[a] = "done"

\* A Tell to a: a dead letter where the mailbox is stopped, else it needs room.
CanTell(a) == a \in closed \/ Len(inbox[a]) < Capacity
Tell(a, m) ==
  /\ CanTell(a)
  /\ inbox' = IF a \in closed THEN inbox ELSE [inbox EXCEPT ![a] = Append(@, m)]

LifeInit ==
  /\ life = [a \in Actors |-> "up"]
  /\ inbox = [a \in Actors |-> <<>>]
  /\ closed = {}

Moves(a, from, to) == life[a] = from /\ life' = [life EXCEPT ![a] = to]

\* mailbox.Stop; what is in the mailbox is not pulled any more.
Leave(a) ==
  /\ Moves(a, "leaving", "stopped")
  /\ closed' = closed \cup {a}
  /\ inbox' = [inbox EXCEPT ![a] = <<>>]

\* close(inst.ref.done)
Finish(a) == Moves(a, "stopped", "done") /\ UNCHANGED <<inbox, closed>>
=============================================================================
