\* Two users and two messages: retries, crashes, revocations, read marks.
CONSTANTS
  u1 = u1
  u2 = u2
  u3 = u3
  k1 = k1
  k2 = k2
  None = None
  Users <- TwoUsers
  Cids <- OneCid
  Limits <- NoLimits
  GroupLimit = 3
  MaxSeq = 2
SPECIFICATION Spec
INVARIANTS TypeOK CacheMatchesStore SeqContinuity OncePerClientId AckedIsStored  UnreadNeverOvercounts
SYMMETRY UserSymmetry
