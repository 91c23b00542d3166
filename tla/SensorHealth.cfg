SPECIFICATION HealthSpec
CONSTANTS
  s1 = s1
  s2 = s2
  u1 = u1
  u2 = u2
  Sensor <- MCSensor
  Update <- MCUpdate
  Reports <- MCReports
  Histories <- MCHistories
  Begun = 3
INVARIANTS
  HistoryEndsInStatus
  WindowMatchesHistory
  HealthOfAMoment
PROPERTIES
  NoticesTellTheChange
CHECK_DEADLOCK FALSE
