\* Three users of one device each, two call ids: who may call whom.
CONSTANTS
  u1 = u1
  u2 = u2
  u3 = u3
  g1 = g1
  g2 = g2
  g3 = g3
  c1 = c1
  c2 = c2
  None = None
  NoAnswer = NoAnswer
  Users <- ThreeUsers
  Gateways <- ThreeGateways
  OwnerOf <- ThreeOwners
  Calls <- TwoCalls
  MaxCmds = 2
  Faults <- NoFaults
SPECIFICATION Spec
INVARIANTS BusyTracksCalls
SYMMETRY CallSymmetry
CHECK_DEADLOCK FALSE
