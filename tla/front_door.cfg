SPECIFICATION MCSpec
CONSTANTS
  Calls = {1, 2, 3, 4, 5}
  Emails = {ann}
  NoCall = NoCall
  Faults = {"database", "redis", "pipeline", "memory"}
  amy = amy
  home = home
  a1 = a1
  a2 = a2
  Nobody = Nobody
  Shapes <- MCShapes
  Limit <- MCLimit
  Window <- MCWindow
  Lag <- MCLag
  Requests = {1, 2}
  Processes = {0, 1}
  Skew = 1
  MaxTime = 4
  MaxFaults = 1
INVARIANTS FrontDoorTypeOK OneToken LogoutIsFinal SessionSurvives LimitsHold
\* Every call and every request is answered in the end, and time ends.
CHECK_DEADLOCK FALSE
