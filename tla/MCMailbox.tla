----------------------------- MODULE MCMailbox -----------------------------
(* Small instances of Mailbox for TLC. *)
EXTENDS Mailbox

CONSTANTS s1, s2, s3

TwoSenders == {s1, s2}
ThreeSenders == {s1, s2, s3}

\* The last message of the first sender stops the actor.
OnePill == {<<s1, MaxSends>>}

BlockOnly == {"Block"}
AllPolicies == {"Block", "DropOldest", "DropNewest", "Reject"}
=============================================================================
