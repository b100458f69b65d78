SPECIFICATION FairSpec
CONSTANTS
  r1 = r1
  r2 = r2
  r3 = r3
  alice = alice
  bob = bob
  sam = sam
  k1 = k1
  NoKey = NoKey
  BadKey = BadKey
  NoOne = NoOne
  Requests <- MCRequests
  Users <- MCUsers
  Seller = sam
  Keys = {k1}
  Offers <- FairOffers
  StartingPrice = 1
  Faults = {}
  EndTimeIsDate = TRUE
INVARIANTS AnsweredIsAudited DisplacedAreTold
PROPERTIES KeysAreReleased
\* Calls end, and no client is obliged to send another.
CHECK_DEADLOCK FALSE
