SPECIFICATION FairLifecycle
CONSTANTS
  r1 = r1
  r2 = r2
  alice = alice
  bob = bob
  sam = sam
  w1 = w1
  w2 = w2
  NoKey = NoKey
  BadKey = BadKey
  NoOne = NoOne
  Requests <- MCRequests
  Users <- MCUsers
  Seller = sam
  Keys = {}
  Offers <- MCOffers
  StartingPrice = 1
  Activations = {"a1"}
  Workers <- MCWorkers
  Attempts = 3
  MaxStalls = 1
  Mishaps = {"attempt"}
  MaxMishaps = 1
PROPERTIES WinnersAreAwarded
\* Every auction comes to rest.
CHECK_DEADLOCK FALSE
