--------------------------- MODULE MCConversation ---------------------------
(* Small instances of Conversation for TLC. *)
EXTENDS Conversation, TLC

CONSTANTS u1, u2, u3, k1, k2

TwoUsers == {u1, u2}
ThreeUsers == {u1, u2, u3}
OneCid == {k1}

NoLimits == {}
SmallLimits == {2, 3}

UserSymmetry == Permutations(Users)
=============================================================================
