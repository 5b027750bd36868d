-------------------------------- MODULE Room --------------------------------
(***************************************************************************)
(* What a conversation promises its users, with neither actors nor caches  *)
(* nor a database that may fail: who may do what is decided by the roles   *)
(* in force at that moment, messages are numbered without a gap, a client  *)
(* id names one message.  Once a group is dissolved nothing more is said.  *)
(* Module Conversation implements it.                                      *)
(***************************************************************************)
EXTENDS Naturals, FiniteSets

CONSTANTS Users, Cids, None

VARIABLES
  kind,   \* "" before the room exists, "private", "group"
  open,   \* FALSE once the room is dissolved
  owner,  \* its owner
  limit,  \* the largest number of members, 0 for no limit
  role,   \* "none" for a user who is no member, "regular", "admin", "owner"
  last,   \* the number of the last message
  log     \* the messages

roomVars == <<kind, open, owner, limit, role, last, log>>
rules == <<kind, open, owner, limit>>

In(u) == role[u] # "none"
Staff(u) == role[u] \in {"admin", "owner"}
Members == {u \in Users : In(u)}

Init ==
  /\ kind = ""
  /\ open = TRUE
  /\ owner = None
  /\ limit = 0
  /\ role = [u \in Users |-> "none"]
  /\ last = 0
  /\ log = {}

\* A pair that talks, nobody above the other.
OpenPrivate(u, v) ==
  /\ kind = "" /\ u # v
  /\ kind' = "private" /\ owner' = u /\ limit' = 2
  /\ role' = [w \in Users |-> IF w \in {u, v} THEN "regular" ELSE "none"]
  /\ UNCHANGED <<open, last, log>>

OpenGroup(u, S) ==
  /\ kind = ""
  /\ kind' = "group" /\ owner' = u
  /\ limit' \in Nat
  /\ role' = [w \in Users |-> IF w = u THEN "owner" ELSE IF w \in S THEN "regular" ELSE "none"]
  /\ UNCHANGED <<open, last, log>>

Post(u, c) ==
  /\ In(u)
  /\ c = None \/ ~\E m \in log : m.sender = u /\ m.cid = c
  /\ last' = last + 1
  /\ log' = log \cup {[seq |-> last + 1, sender |-> u, cid |-> c, revoked |-> FALSE]}
  /\ UNCHANGED <<rules, role>>

Retract(u, m) ==
  /\ In(u)
  /\ m \in log
  /\ m.sender = u \/ Staff(u)
  /\ log' = (log \ {m}) \cup {[m EXCEPT !.revoked = TRUE]}
  /\ UNCHANGED <<rules, role, last>>

Join(by, u, r) ==
  /\ kind = "group" /\ Staff(by)
  /\ ~In(u) /\ r \in {"regular", "admin"}
  /\ limit = 0 \/ Cardinality(Members) < limit
  /\ role' = [role EXCEPT ![u] = r]
  /\ UNCHANGED <<rules, last, log>>

\* The owner stays, whoever asks.
Part(by, u) ==
  /\ kind = "group" /\ (by = u \/ Staff(by))
  /\ In(u) /\ u # owner
  /\ role' = [role EXCEPT ![u] = "none"]
  /\ UNCHANGED <<rules, last, log>>

Appoint(by, u, r) ==
  /\ kind = "group" /\ by = owner
  /\ In(u) /\ u # owner /\ r \in {"regular", "admin"}
  /\ role' = [role EXCEPT ![u] = r]
  /\ UNCHANGED <<rules, last, log>>

HandOver(by, u) ==
  /\ kind = "group" /\ by = owner /\ In(u)
  /\ owner' = u
  /\ role' = [role EXCEPT ![by] = "regular", ![u] = "owner"]
  /\ UNCHANGED <<kind, open, limit, last, log>>

\* The limit never goes below the number of members.
Limit(by) ==
  /\ kind = "group" /\ Staff(by)
  /\ limit' \in Nat
  /\ limit' >= Cardinality(Members)
  /\ UNCHANGED <<kind, open, owner, role, last, log>>

Dissolve(by) ==
  /\ kind = "group" /\ by = owner
  /\ open' = FALSE
  /\ role' = [u \in Users |-> "none"]
  /\ UNCHANGED <<kind, owner, limit, last, log>>

Act(by) ==
  \/ \E c \in Cids \cup {None} : Post(by, c)
  \/ \E m \in log : Retract(by, m)
  \/ \E u \in Users : Part(by, u) \/ HandOver(by, u)
  \/ \E u \in Users, r \in {"regular", "admin"} : Join(by, u, r) \/ Appoint(by, u, r)
  \/ Limit(by) \/ Dissolve(by)

\* Nothing is promised of a dissolved room but that it stays dissolved.
Afterwards == ~open /\ ~open'

Next ==
  \/ \E u, v \in Users : OpenPrivate(u, v)
  \/ \E u \in Users, S \in SUBSET Users : OpenGroup(u, S)
  \/ open /\ \E by \in Users : Act(by)
  \/ Afterwards

Spec == Init /\ [][Next]_roomVars
=============================================================================
