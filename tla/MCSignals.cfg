\* Three actors one timer, mailboxes of one place.
CONSTANTS
  a1 = a1
  a2 = a2
  a3 = a3
  t1 = t1
  s1 = s1
  s2 = s2
  None = None
  Actors <- ThreeActors
  Capacity = 1
  Timers <- OneTimer
  States <- TwoStates
  MaxCalls = 2
  Plans <- SmallPlans
SPECIFICATION FairSpec
INVARIANTS NoticesDue NoTimerOutlives MetricsExact
PROPERTIES WatchTold
CHECK_DEADLOCK FALSE
