----------------------------- MODULE MCDelivery -----------------------------
(* Small instances of Delivery for TLC. *)
EXTENDS Delivery

CONSTANTS u1, u2, g1, g2, g3

TwoUsers == {u1, u2}
ThreeGateways == {g1, g2, g3}

\* The first user has two connections.
Owners == [g \in Gateways |-> IF g = g3 THEN u2 ELSE u1]
EachOther == [u \in Users |-> Users \ {u}]

Story(size, late, s1, s2, s3) ==
  [size |-> size, late |-> late,
   on |-> [g \in Gateways |-> CASE g = g1 -> s1 [] g = g2 -> s2 [] g = g3 -> s3]]

\* A user goes and comes again before the eyes of a friend; two friends, one
\* of whom sends, or is idle; a user with two connections, alone or not.
MeetAndPart ==
  {Story(1, FALSE, {"come", "go"}, {"again"}, {"come", "ask"}),
   Story(1, TRUE, {"come", "login"}, {}, {"come", "ask", "send"}),
   Story(1, TRUE, {"come", "login", "idle"}, {}, {"come", "ask"}),
   Story(1, FALSE, {"come"}, {"come"}, {"come"}),
   Story(2, FALSE, {"come", "go"}, {"come", "go"}, {}),
   Story(2, FALSE, {"come", "go"}, {}, {"come", "ask"})}
=============================================================================
