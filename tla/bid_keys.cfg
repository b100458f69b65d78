SPECIFICATION Spec
CONSTANTS
  r1 = r1
  r2 = r2
  r3 = r3
  alice = alice
  bob = bob
  sam = sam
  k1 = k1
  NoKey = NoKey
  BadKey = BadKey
  NoOne = NoOne
  Requests <- MCRequests
  Users <- MCUsers
  Seller = sam
  Keys = {k1}
  Offers <- KeyedOffers
  StartingPrice = 1
  Faults = {"statement", "store", "queue", "crash"}
  EndTimeIsDate = FALSE
SYMMETRY Symmetry
INVARIANTS OneBidPerKey KeyTellsOutcome
\* Calls end, and no client is obliged to send another.
CHECK_DEADLOCK FALSE
