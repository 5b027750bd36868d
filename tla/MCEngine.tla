------------------------------ MODULE MCEngine ------------------------------
(* Small instances of Engine for TLC. *)
EXTENDS Engine

CONSTANTS i1, i2, p, q, n1

OneName == {n1}
TwoInstances == {i1, i2}
TwoCallers == {p, q}
AllStrategies == {"resume", "stop", "restart"}

=============================================================================
