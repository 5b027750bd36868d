----------------------------- MODULE Friendship -----------------------------
(***************************************************************************)
(* What the friend domain promises: two users become friends only when one *)
(* of them agrees to a request the other has sent, they are friends of     *)
(* each other or not at all, and either may part at any time.  Module      *)
(* Friend implements it.                                                   *)
(***************************************************************************)
CONSTANT Users

VARIABLES
  sent,   \* pairs <<from, to>> of whom from has asked to
  friends \* unordered pairs of users

friendshipVars == <<sent, friends>>

Init ==
  /\ sent = {}
  /\ friends = {}

\* Nobody asks a friend, nobody asks himself.
Request(u, v) ==
  /\ u # v
  /\ {u, v} \notin friends
  /\ sent' = sent \cup {<<u, v>>}
  /\ UNCHANGED friends

\* v agrees to what u has asked.
Agree(u, v) ==
  /\ <<u, v>> \in sent
  /\ friends' = friends \cup {{u, v}}
  /\ UNCHANGED sent

Part(u, v) ==
  /\ friends' = friends \ {{u, v}}
  /\ UNCHANGED sent

Next == \E u, v \in Users : Request(u, v) \/ Agree(u, v) \/ Part(u, v)

Spec == Init /\ [][Next]_friendshipVars
=============================================================================
