------------------------------- MODULE Roster -------------------------------
(***************************************************************************)
(* What presence promises: a user is announced online when the first of    *)
(* his devices comes and offline when the last one goes, once each time,   *)
(* whatever becomes of the devices in between.  Module Delivery implements *)
(* it.                                                                     *)
(***************************************************************************)
EXTENDS Naturals

CONSTANTS Users, Devices,
          UserOf \* whose device it is

VARIABLES
  present, \* the devices that are there
  changes  \* how often each user's state has been announced

rosterVars == <<present, changes>>

Announced(u) == IF changes[u] % 2 = 1 THEN "online" ELSE "offline"

Init ==
  /\ present = {}
  /\ changes = [u \in Users |-> 0]

Others(d) == {e \in present \ {d} : UserOf[e] = UserOf[d]}

Announce(d) ==
  changes' = [changes EXCEPT ![UserOf[d]] = IF Others(d) = {} THEN @ + 1 ELSE @]

Come(d) == d \notin present /\ present' = present \cup {d} /\ Announce(d)

Go(d) == d \in present /\ present' = present \ {d} /\ Announce(d)

Next == \E d \in Devices : Come(d) \/ Go(d)

Spec == Init /\ [][Next]_rosterVars
=============================================================================
