\* A caller, and a callee on two devices: answering against hanging up, timing
\* out and losing devices, in every order of the notices.
CONSTANTS
  u1 = u1
  u2 = u2
  u3 = u3
  g1 = g1
  g2 = g2
  g3 = g3
  c1 = c1
  c2 = c2
  None = None
  NoAnswer = NoAnswer
  Users <- TwoUsers
  Gateways <- ThreeGateways
  OwnerOf <- CalleeOnTwo
  Calls <- OneCall
  MaxCmds = 3
  Faults <- NoFaults
SPECIFICATION FairSpec
INVARIANTS RecordMatchesEvents
PROPERTIES HeldGatewayEndsCall
CHECK_DEADLOCK FALSE
