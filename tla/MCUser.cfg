CONSTANTS
  n1 = n1
  n2 = n2
  odd = odd
  p1 = p1
  p2 = p2
  weak = weak
  a1 = a1
  a2 = a2
  NoName = NoName
  Names <- ThreeNames
  Numeric <- DigitsOnly
  Passwords <- ThreePasswords
  Strong <- StrongOnes
  Nicknames <- TwoNicks
  UserIDs <- TwoIDs
  Times <- TwoTimes
  Stored <- OneUser
  Themes <- ThreeThemes
  MaxRequests = 3
  MaxCrashes = 1
SPECIFICATION Spec
INVARIANTS
  LatestUpdateStands
PROPERTIES
  ImplementsAccounts
  CallersAnswered
CHECK_DEADLOCK FALSE
