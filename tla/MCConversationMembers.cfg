\* Three users and one message: roles, departures, transfers, limits, dissolution.
CONSTANTS
  u1 = u1
  u2 = u2
  u3 = u3
  k1 = k1
  k2 = k2
  None = None
  Users <- ThreeUsers
  Cids <- OneCid
  Limits <- SmallLimits
  GroupLimit = 2
  MaxSeq = 1
SPECIFICATION Spec
INVARIANTS OneOwner
PROPERTIES ImplementsRoom
SYMMETRY UserSymmetry
