SPECIFICATION MCFair
CONSTANTS
  r1 = r1
  r2 = r2
  alice = alice
  bob = bob
  sam = sam
  w1 = w1
  w2 = w2
  NoKey = NoKey
  BadKey = BadKey
  NoOne = NoOne
  Requests <- MCRequests
  Users <- MCUsers
  Seller = sam
  Keys = {}
  Offers <- MCOffers
  StartingPrice = 1
  Activations = {"a1", "a2"}
  Workers <- MCWorkers
  Attempts = 3
  MaxStalls = 1
  Mishaps = {"activation", "add", "attempt", "worker", "stall"}
  MaxMishaps = 2
INVARIANTS LifecycleTypeOK WinnerIsHighest NewsIsTrue
PROPERTIES ActsAsEnvironment AuctionsEnd EndedIsSettled
\* Every auction comes to rest.
CHECK_DEADLOCK FALSE
