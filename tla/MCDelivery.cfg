\* Two users who are friends, three connections, mailboxes of one place or two.
CONSTANTS
  u1 = u1
  u2 = u2
  g1 = g1
  g2 = g2
  g3 = g3
  None = None
  Users <- TwoUsers
  Gateways <- ThreeGateways
  OwnerOf <- Owners
  Friends <- EachOther
  MaxSends = 1
  Stories <- MeetAndPart
SPECIFICATION FairSpec
INVARIANTS
  PresenceTrue
  ViewsSettle
  
PROPERTIES
  ImplementsRoster
  CallsReturn
CHECK_DEADLOCK FALSE
