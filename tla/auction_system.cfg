SPECIFICATION SystemSpec
CONSTANTS
  r1 = r1
  r2 = r2
  alice = alice
  bob = bob
  sam = sam
  w1 = w1
  w2 = w2
  NoKey = NoKey
  BadKey = BadKey
  NoOne = NoOne
  Requests <- MCRequests
  Users <- MCUsers
  Seller = sam
  Keys = {}
  Offers <- MCOffers
  StartingPrice = 1
  Faults = {"statement", "swallowed", "commit", "crash"}
  EndTimeIsDate = TRUE
  Activations = {"a1"}
  Workers <- MCWorkers
  Attempts = 2
  MaxStalls = 1
  Mishaps = {"activation", "add", "attempt", "worker", "stall"}
  MaxMishaps = 1
SYMMETRY Symmetry
PROPERTIES ImplementsEnglishAuction
\* Calls end, and no client is obliged to send another.
CHECK_DEADLOCK FALSE
