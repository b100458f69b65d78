SPECIFICATION MCSpec
CONSTANTS
  Auctions = {a1, a2}
  Attempts = 3
  MaxStalls = 1
  MaxCrashes = 2
  Others = {o1, o2, o3, o4}
  K = 60
  PerSignal = 3
  TopN = 2
  MaxTexts = 2
INVARIANTS DiscoveryTypeOK HiddenForAReason StreamIsWellFormed
PROPERTIES EmbeddingsSettle
\* Every request may be answered and every auction ended.
CHECK_DEADLOCK FALSE
