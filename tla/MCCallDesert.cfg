\* Losing the network must end the call: the callee answers while a device goes.
CONSTANTS
  u1 = u1
  u2 = u2
  u3 = u3
  g1 = g1
  g2 = g2
  g3 = g3
  c1 = c1
  c2 = c2
  None = None
  NoAnswer = NoAnswer
  Users <- TwoUsers
  Gateways <- ThreeGateways
  OwnerOf <- CalleeOnTwo
  Calls <- OneCall
  MaxCmds = 2
  Faults <- NoFaults
SPECIFICATION FairSpec
PROPERTIES DisconnectEndsCall
CHECK_DEADLOCK FALSE
