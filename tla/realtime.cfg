SPECIFICATION MCSpec
CONSTANTS
  Processes = {p1}
  Sockets = {s1, s2, s3}
  MaxPrice = 2
  MaxDrops = 1
  Nowhere = Nowhere
  Callers = {c1, c2, c3}
  PoolMax = 2
  RetryLimit = 2
  RetriesPerRequest = 1
  MaxOutages = 1
  Nobody = Nobody
INVARIANTS RealtimeTypeOK CountsAreTrue FinalPriceIsFinal NoHoldAndWait
PROPERTIES CleanExitCutsNobody WatchersHearTheEnd ChecksAreAnswered
\* Every process may end.
CHECK_DEADLOCK FALSE
