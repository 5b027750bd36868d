------------------------------- MODULE MCCall -------------------------------
(* Small instances of Call for TLC. *)
EXTENDS Call, TLC

CONSTANTS u1, u2, u3, g1, g2, g3, c1, c2

\* A caller and a callee, the callee on two devices.
TwoUsers == {u1, u2}
ThreeGateways == {g1, g2, g3}
CalleeOnTwo == g1 :> u1 @@ g2 :> u2 @@ g3 :> u2

\* One device each.
TwoGateways == {g1, g2}
OneEach == g1 :> u1 @@ g2 :> u2

\* Three users of one device each.
ThreeUsers == {u1, u2, u3}
ThreeOwners == g1 :> u1 @@ g2 :> u2 @@ g3 :> u3

OneCall == {c1}
TwoCalls == {c1, c2}

NoFaults == {}
AllFaults == {"ask", "store"}

CallSymmetry == Permutations(TwoCalls)
=============================================================================
