------------------------------ MODULE MCFriend ------------------------------
(* A small instance of Friend for TLC. *)
EXTENDS Friend, TLC

CONSTANTS u1, u2, u3, n1, n2

ThreeUsers == {u1, u2, u3}
TwoNames == {n1, n2}

\* No action tells one user from another.
AnyUser == Permutations(ThreeUsers)
=============================================================================
