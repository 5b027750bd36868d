\* Every answer a policy may give, PoisonPill and Stop.
CONSTANTS
  s1 = s1
  s2 = s2
  s3 = s3
  Senders <- ThreeSenders
  Size = 2
  MaxSends = 2
  Policies <- AllPolicies
  Pills <- OnePill
SPECIFICATION FairSpec
INVARIANTS TypeOK NoLostWakeup ExactlyOnePlace SenderOrder
PROPERTIES ImplementsInbox TellReturns StopDrains
