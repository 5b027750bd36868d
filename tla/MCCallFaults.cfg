\* A caller and a callee on two devices, slow answers and failing inserts.
CONSTANTS
  u1 = u1
  u2 = u2
  u3 = u3
  g1 = g1
  g2 = g2
  g3 = g3
  c1 = c1
  c2 = c2
  None = None
  NoAnswer = NoAnswer
  Users <- TwoUsers
  Gateways <- TwoGateways
  OwnerOf <- OneEach
  Calls <- OneCall
  MaxCmds = 2
  Faults <- AllFaults
SPECIFICATION FairSpec
PROPERTIES ImplementsCallSession
CHECK_DEADLOCK FALSE
