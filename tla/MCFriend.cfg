\* Three users; the second request of a pair meets what became of the first.
CONSTANTS
  u1 = u1
  u2 = u2
  u3 = u3
  n1 = n1
  n2 = n2
  Users <- ThreeUsers
  GroupNames <- TwoNames
  MaxRequests = 2
  MaxGroups = 1
SPECIFICATION Spec
SYMMETRY AnyUser
INVARIANTS
  FriendsMutual
  OnePending
PROPERTIES
  GroupsKept
  ImplementsFriendship
