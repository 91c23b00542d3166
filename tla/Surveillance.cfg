SPECIFICATION FairSpec
CONSTANTS
  s1 = s1
  q1 = q1
  q2 = q2
  Session <- MCSession
  Start <- MCStart
  SessionOf <- MCSessionOf
  TaskTTL = 1
  StopTTL = 2
  LastStart = 1
  Horizon = 3
  Fuser = TRUE
INVARIANTS
  TypeOK
  StopIsFinal
  OneStartPerSession
PROPERTIES
  TasksEnd
CHECK_DEADLOCK FALSE
